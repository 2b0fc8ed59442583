----------------------------- MODULE WidgetProofs -----------------------------
(*****************************************************************************)
(* What holds of the widget element for any accounts, any number of calls    *)
(* outstanding at once, and any number of wallet promises and faults.  The   *)
(* handlers are functions of the element's state, so most lemmas are about   *)
(* those functions: what one of them turns a page into, given what is known  *)
(* of the page.                                                              *)
(*****************************************************************************)
EXTENDS Widget, SequenceTheorems, TLAPS

\* The calls that the worker has not answered, by their place in the queue.
Outstanding(s) == 1..Len(s.calls)
\* Those that carry an offer's promise and will settle it or show the offer.
Asking(s) == {i \in Outstanding(s) : s.calls[i].heard /\ s.calls[i].op \in OfferOps}

\* Promise p is in somebody's hands: the request's or the offer's slot, or an offer's
\* call.
InHand(s, p) ==
  \/ s.request # None /\ p = Promise("request", s.request.id)
  \/ p = Promise("offer", s.offer)
  \/ \E i \in Asking(s) : p = Promise("offer", s.calls[i].ask)

\* What makes PromisesKept inductive: the promise a call or a slot carries is open, and
\* there is at most one offer, on its way or shown.  Then who settles it settles no
\* other's.
Kept(s) ==
  /\ \A p \in s.open : InHand(s, p)
  /\ \A i \in Asking(s) : Promise("offer", s.calls[i].ask) \in s.open /\ s.offer = None
  /\ \A i, j \in Asking(s) : i = j
  /\ s.offer # None => Promise("offer", s.offer) \in s.open
  /\ \A p, q \in s.open : p.kind = "offer" /\ q.kind = "offer" => p = q

\* A call op is on its way to the worker.
Under(s, op) == \E i \in Outstanding(s) : s.calls[i].op = op

\* Nobody is asked about an offer on the welcome screen.
Polite(s) == s.screen = "welcome" => s.offer = None

\* A request that waits for a sign-in is not forgotten: on the dashboard, and on the
\* welcome screen, a call that will take it on is under way.  vault is whether the worker
\* has a vault open, without which 'find' fails.
Resumes(s, vault) ==
  /\ s.screen = "dashboard" /\ Waiting(s) => Under(s, "request_status")
  /\ Polite(s)
  /\ s.screen = "welcome" /\ s.request # None =>
       \/ Under(s, "request_status")
       \/ Under(s, "vault_status")
       \/ Under(s, "find") /\ vault

\* Who is shown is who the worker signs with.  The extension holds its own key.
Shown(session, signer) == session \in Ident => signer = session

\* What holds as long as no timer fired early and the worker made no error.
Smooth ==
  /\ \A i \in Outstanding(el) : el.calls[i].heard
  /\ Shown(el.session, worker.signer)
  /\ Resumes(el, worker.vault)

\* The inductive invariant.
Inv ==
  /\ TypeOK
  /\ Kept(el)
  /\ asks.faults = 0 => Smooth

-----------------------------------------------------------------------------
(* What a handler makes of a page.                                           *)

\* A call as a handler posts it, other than those of an offer.
FreshCall == {c \in OtherCall : c.heard}

\* A handler posts at most one call.
Extended(s, r) ==
  \/ r.calls = s.calls
  \/ \E c \in FreshCall : r.calls = Append(s.calls, c)

\* What every handler makes of a page s: a page r that has posted at most one call and
\* dropped no promise.
Follows(s, r) ==
  /\ r \in Page
  /\ Extended(s, r)
  /\ Kept(s) => Kept(r)

\* Pages that differ in nothing the wallet promises depend on.
Alike(s, m) ==
  /\ m \in Page
  /\ m.screen = s.screen
  /\ m.request = s.request /\ m.offer = s.offer
  /\ m.open = s.open /\ m.calls = s.calls

\* Call makes such a call.
LEMMA CallIsFresh ==
  ASSUME NEW op \in OtherOps, NEW i \in Someone
  PROVE  Call(op, i) \in FreshCall /\ Call(op, i).op = op
  BY DEF Call, FreshCall, OtherCall

\* The calls of an offer name its promise, and no other does.
LEMMA SentCalls ==
  ASSUME NEW c \in SentCall
  PROVE  /\ c.op \in OfferOps => c.ask \in Ids /\ c \in OfferCall
         /\ c.op \notin OfferOps => c.ask = 0 /\ c \in OtherCall
         /\ c.who \in Someone /\ c.ack \in BOOLEAN /\ c.heard \in BOOLEAN
  BY DEF SentCall, OfferCall, OtherCall, OfferOps, OtherOps

\* So a fresh call carries none.
LEMMA FreshCalls ==
  ASSUME NEW c \in FreshCall
  PROVE  c \in SentCall /\ c.heard /\ c.op \notin OfferOps /\ c.ask = 0
  BY DEF SentCall, FreshCall, OtherCall, OfferOps, OtherOps

\* None is no request and no promise.
LEMMA RequestsArePending ==
  /\ None \notin Request
  /\ None \notin Ids
  /\ Ids \subseteq Nat
  BY ElementAssumption DEF Request, Ids

\* Alike pages keep the same promises.
LEMMA AlikeKept ==
  ASSUME NEW s \in Page, NEW m, Alike(s, m)
  PROVE  Follows(s, m) /\ \A v : Resumes(s, v) => Resumes(m, v)
<1>1. Outstanding(m) = Outstanding(s) /\ Asking(m) = Asking(s)
  BY DEF Alike, Outstanding, Asking
<1>2. \A p : InHand(s, p) => InHand(m, p)
  BY <1>1 DEF InHand, Alike
<1>3. Kept(s) => Kept(m)
  BY <1>1, <1>2 DEF Kept, Alike
<1>4. QED
  BY <1>1, <1>3 DEF Follows, Extended, Alike, Resumes, Polite, Waiting, Under

\* What posting a call does to the queue.
LEMMA Posted ==
  ASSUME NEW s \in Page, NEW c \in FreshCall
  PROVE  /\ Post(s, c) \in Page
         /\ Post(s, c).calls = Append(s.calls, c)
         /\ Outstanding(Post(s, c)) = 1..(Len(s.calls) + 1)
         /\ \A i \in Outstanding(s) : Post(s, c).calls[i] = s.calls[i]
         /\ Post(s, c).calls[Len(s.calls) + 1] = c
         /\ Asking(Post(s, c)) = Asking(s)
<1>1. s.calls \in Seq(SentCall) /\ c \in SentCall
  BY FreshCalls DEF Page
<1>2. /\ Append(s.calls, c) \in Seq(SentCall)
      /\ Len(Append(s.calls, c)) = Len(s.calls) + 1
      /\ \A i \in 1..Len(s.calls) : Append(s.calls, c)[i] = s.calls[i]
      /\ Append(s.calls, c)[Len(s.calls) + 1] = c
      /\ Len(s.calls) \in Nat
  BY <1>1
<1>3. Post(s, c) \in Page /\ Post(s, c).calls = Append(s.calls, c)
  BY <1>2 DEF Post, Page
<1>4. Asking(Post(s, c)) = Asking(s)
  BY <1>2, <1>3, FreshCalls DEF Asking, Outstanding
<1>5. QED
  BY <1>2, <1>3, <1>4 DEF Outstanding

\* Posting a call to the worker drops nothing.
LEMMA PostFollows ==
  ASSUME NEW s \in Page, NEW m, Alike(s, m), NEW c \in FreshCall
  PROVE  /\ Follows(s, Post(m, c))
         /\ Post(m, c).session = m.session
         /\ \A v : Resumes(s, v) => Resumes(Post(m, c), v)
         /\ Under(Post(m, c), c.op)
         /\ \A op : Under(s, op) => Under(Post(m, c), op)
         /\ Post(m, c).request = s.request /\ Post(m, c).offer = s.offer
         /\ Post(m, c).screen = s.screen
<1> DEFINE r == Post(m, c)
<1>1. m \in Page /\ m.calls = s.calls
  BY DEF Alike
<1>2. /\ r.request = s.request /\ r.offer = s.offer /\ r.open = s.open
      /\ r.screen = s.screen /\ r.session = m.session
  BY <1>1 DEF Alike, Post, Page
<1>3. /\ Asking(r) = Asking(s)
      /\ \A i \in Outstanding(s) : i \in Outstanding(r) /\ r.calls[i] = s.calls[i]
      /\ r \in Page /\ Extended(s, r)
  BY <1>1, Posted DEF Asking, Outstanding, Extended, Page
<1>4. \A p : InHand(s, p) => InHand(r, p)
  BY <1>2, <1>3 DEF InHand, Asking
<1>5. \A i \in Asking(s) : i \in Outstanding(s)
  BY DEF Asking
<1>6. Kept(s) => Kept(r)
  <2> HIDE DEF r
  <2> QED
    BY <1>2, <1>3, <1>4, <1>5 DEF Kept
<1>7. \A op : Under(s, op) => Under(r, op)
  BY <1>3 DEF Under
<1>8. Under(r, c.op)
  BY <1>1, Posted DEF Under, Page
<1>9. \A v : Resumes(s, v) => Resumes(r, v)
  <2> HIDE DEF r
  <2> QED
    BY <1>2, <1>7 DEF Resumes, Polite, Waiting
<1>10. QED
  BY <1>2, <1>3, <1>6, <1>7, <1>8, <1>9 DEF Follows

\* DropRequest settles the request's promise, and empties its slot.
LEMMA Dropped ==
  ASSUME NEW s \in Page
  PROVE  LET m == DropRequest(s) IN
         /\ Follows(s, m) /\ m.calls = s.calls
         /\ m.request = None /\ m.offer = s.offer
         /\ m.session = s.session /\ m.screen = s.screen
<1> DEFINE m == DropRequest(s)
<1>1. CASE s.request = None
  BY <1>1 DEF DropRequest, Follows, Extended
<1>2. CASE s.request # None
  <2>1. m = [s EXCEPT !.open = @ \ {Promise("request", s.request.id)},
                      !.request = None, !.candidate = FALSE, !.unsaved = FALSE]
    BY <1>2 DEF DropRequest, Settle, Page
  <2>2. /\ m \in Page /\ m.calls = s.calls /\ m.request = None /\ m.offer = s.offer
        /\ m.session = s.session /\ m.screen = s.screen
        /\ m.open = s.open \ {Promise("request", s.request.id)}
    BY <2>1 DEF Page
  <2>3. Asking(m) = Asking(s)
    BY <2>2 DEF Asking, Outstanding
  <2>4. \A p \in m.open : InHand(s, p) => InHand(m, p)
    BY <2>2, <2>3 DEF InHand
  <2>5. \A id, n : Promise("offer", id) # Promise("request", n)
    BY DEF Promise
  <2>6. Kept(s) => Kept(m)
    <3> HIDE DEF m
    <3> QED
      BY <2>2, <2>3, <2>4, <2>5 DEF Kept
  <2>7. QED
    BY <2>2, <2>6 DEF Follows, Extended
<1>3. QED
  BY <1>1, <1>2

\* DropOffer settles the offer's promise, and empties its slot.
LEMMA Declined ==
  ASSUME NEW s \in Page
  PROVE  LET m == DropOffer(s) IN
         /\ Follows(s, m) /\ m.calls = s.calls
         /\ m.request = s.request /\ m.offer = None
         /\ m.session = s.session /\ m.screen = s.screen
<1> DEFINE m == DropOffer(s)
<1>1. CASE s.offer = None
  BY <1>1 DEF DropOffer, Follows, Extended
<1>2. CASE s.offer # None
  <2>1. m = [s EXCEPT !.open = @ \ {Promise("offer", s.offer)}, !.offer = None]
    BY <1>2 DEF DropOffer, Settle, Page
  <2>2. /\ m \in Page /\ m.calls = s.calls /\ m.request = s.request /\ m.offer = None
        /\ m.session = s.session /\ m.screen = s.screen
        /\ m.open = s.open \ {Promise("offer", s.offer)}
    BY <2>1 DEF Page
  <2>3. Asking(m) = Asking(s)
    BY <2>2 DEF Asking, Outstanding
  <2>4. \A p \in m.open : InHand(s, p) => InHand(m, p)
    BY <2>2, <2>3 DEF InHand
  <2>5. Kept(s) => Asking(s) = {}
    BY <1>2 DEF Kept
  <2>6. Kept(s) => Kept(m)
    <3> HIDE DEF m
    <3> QED
      BY <2>2, <2>3, <2>4, <2>5 DEF Kept
  <2>7. QED
    BY <2>2, <2>6 DEF Follows, Extended
<1>3. QED
  BY <1>1, <1>2

\* Showing a screen touches no promise.
LEMMA Shows ==
  ASSUME NEW s \in Page, NEW scr \in Screens
  PROVE  LET m == Show(s, scr) IN
         /\ Follows(s, m) /\ m.calls = s.calls /\ m.open = s.open
         /\ m.request = s.request /\ m.offer = s.offer
         /\ m.session = s.session /\ m.screen = scr
<1> DEFINE m == Show(s, scr)
<1>1. /\ m \in Page /\ m.calls = s.calls /\ m.request = s.request /\ m.offer = s.offer
      /\ m.session = s.session /\ m.screen = scr /\ m.open = s.open
  BY DEF Show, Page
<1>2. Asking(m) = Asking(s) /\ \A p : InHand(s, p) => InHand(m, p)
  BY <1>1 DEF Asking, Outstanding, InHand
<1>3. Kept(s) => Kept(m)
  <2> HIDE DEF m
  <2> QED
    BY <1>1, <1>2 DEF Kept
<1>4. QED
  BY <1>1, <1>3 DEF Follows, Extended

\* One handler after another, if one of them posts no call.
LEMMA FollowsThen ==
  ASSUME NEW s, NEW m, NEW r, Follows(s, m), Follows(m, r), m.calls = s.calls \/ r.calls = m.calls
  PROVE  Follows(s, r)
  BY DEF Follows, Extended

\* A request that goes on waits no longer: a call asks for the vault.
LEMMA Continued ==
  ASSUME NEW s \in Page
  PROVE  LET m == ContinueVaultRequest(s) IN
         /\ Follows(s, m) /\ ~ Waiting(m)
         /\ m.offer = s.offer /\ m.session = s.session /\ m.screen = s.screen
         /\ m.request # None => Under(m, "vault_status")
<1> DEFINE m == ContinueVaultRequest(s)
           c == Call("vault_status", None)
           n == [s EXCEPT !.request = [@ EXCEPT !.stage = "active"]]
<1>1. CASE s.request = None
  BY <1>1 DEF ContinueVaultRequest, Follows, Extended, Waiting
<1>2. CASE s.request # None
  <2>1. m = Post(n, c)
    BY <1>2 DEF ContinueVaultRequest
  <2>2. c \in FreshCall /\ c.op = "vault_status"
    BY CallIsFresh DEF OtherOps, Someone
  <2>3. s.request \in Request
    BY <1>2 DEF Page
  <2>4. [s.request EXCEPT !.stage = "active"] \in Request
    BY <2>3 DEF Request
  <2>5. /\ n \in Page /\ n.calls = s.calls /\ n.offer = s.offer /\ n.open = s.open
        /\ n.session = s.session /\ n.screen = s.screen
        /\ n.request = [s.request EXCEPT !.stage = "active"]
    BY <2>4 DEF Page
  <2>6. n.request.id = s.request.id /\ n.request # None /\ n.request.stage = "active"
    BY <2>3, <2>5, RequestsArePending DEF Request
  <2>7. Asking(n) = Asking(s) /\ \A p : InHand(s, p) => InHand(n, p)
    BY <2>5, <2>6 DEF Asking, Outstanding, InHand
  <2>8. Kept(s) => Kept(n)
    <3> HIDE DEF n
    <3> QED
      BY <2>5, <2>7 DEF Kept
  <2>9. Follows(s, n) /\ Alike(n, n)
    BY <2>5, <2>8 DEF Follows, Extended, Alike
  <2>10. Follows(n, m) /\ m.session = n.session /\ Under(m, "vault_status")
    <3> HIDE DEF m, n, c
    <3> QED
      BY <2>1, <2>2, <2>5, <2>9, PostFollows
  <2>11. m.request = n.request /\ m.offer = n.offer /\ m.screen = n.screen
    BY <2>1, <2>5 DEF Post, Page
  <2>12. Follows(s, m)
    BY <2>5, <2>9, <2>10, FollowsThen
  <2>13. QED
    BY <2>5, <2>6, <2>10, <2>11, <2>12 DEF Waiting
<1>3. QED
  BY <1>1, <1>2

\* A request that is finished leaves nothing that a screen could forget.
LEMMA FinishedRequest ==
  ASSUME NEW s \in Page
  PROVE  LET r == FinishVaultRequest(s) IN
         /\ Follows(s, r) /\ r.calls = s.calls /\ r.session = s.session
         /\ r.request = None
         /\ s.request # None => \A v : Resumes(r, v)
         /\ s.request = None => r = s
<1> DEFINE r == FinishVaultRequest(s)
           d == DropRequest(s)
<1>1. CASE s.request = None
  BY <1>1 DEF FinishVaultRequest, Follows, Extended
<1>2. CASE s.request # None
  <2>1. /\ Follows(s, d) /\ d \in Page /\ d.calls = s.calls
        /\ d.request = None /\ d.session = s.session
    BY Dropped DEF Follows
  <2>2. CASE s.session # None
    <3>1. r = Show(d, "dashboard")
      BY <1>2, <2>2 DEF FinishVaultRequest
    <3>2. /\ Follows(d, r) /\ r.calls = d.calls
          /\ r.request = None /\ r.session = d.session /\ r.screen = "dashboard"
      <4> HIDE DEF r, d
      <4> QED
        BY <2>1, <3>1, Shows DEF Screens
    <3>3. Follows(s, r)
      BY <2>1, <3>2, FollowsThen
    <3>4. QED
      BY <1>2, <2>1, <3>2, <3>3 DEF Resumes, Polite, Waiting
  <2>3. CASE s.session = None
    <3> DEFINE o == DropOffer(d)
    <3>1. r = Show(o, "welcome")
      BY <1>2, <2>3 DEF FinishVaultRequest
    <3>2. /\ Follows(d, o) /\ o \in Page /\ o.calls = d.calls
          /\ o.request = None /\ o.offer = None /\ o.session = d.session
      <4> HIDE DEF d
      <4> QED
        BY <2>1, Declined DEF Follows
    <3>3. /\ Follows(o, r) /\ r.calls = o.calls /\ r.offer = None
          /\ r.request = None /\ r.session = o.session /\ r.screen = "welcome"
      <4> HIDE DEF r, o
      <4> QED
        BY <3>2, <3>1, Shows DEF Screens
    <3>4. Follows(s, r)
      BY <2>1, <3>2, <3>3, FollowsThen
    <3>5. QED
      BY <1>2, <2>1, <3>2, <3>3, <3>4 DEF Resumes, Polite, Waiting
  <2>4. QED
    BY <2>2, <2>3
<1>3. QED
  BY <1>1, <1>2

\* Nor does an offer; a request that waited behind it goes on.
LEMMA FinishedOffer ==
  ASSUME NEW s \in Page
  PROVE  LET r == FinishVaultOffer(s) IN
         /\ Follows(s, r) /\ r.session = s.session
         /\ s.offer # None => \A v : Polite(s) => Resumes(r, v)
         /\ s.offer = None => r = s
         /\ r.calls = s.calls \/ ~ Waiting(r)
         /\ s.request = None => r.calls = s.calls
<1> DEFINE r == FinishVaultOffer(s)
           d == DropOffer(s)
<1>1. CASE s.offer = None
  BY <1>1 DEF FinishVaultOffer, Follows, Extended
<1>2. CASE s.offer # None
  <2>1. /\ Follows(s, d) /\ d \in Page /\ d.calls = s.calls
        /\ d.request = s.request /\ d.offer = None
        /\ d.session = s.session /\ d.screen = s.screen
    BY Declined DEF Follows
  <2>2. CASE s.session = None
    <3> DEFINE o == DropRequest(d)
    <3>1. r = Show(o, "welcome")
      BY <1>2, <2>2 DEF FinishVaultOffer
    <3>2. /\ Follows(d, o) /\ o \in Page /\ o.calls = d.calls
          /\ o.request = None /\ o.offer = None /\ o.session = d.session
      <4> HIDE DEF d
      <4> QED
        BY <2>1, Dropped DEF Follows
    <3>3. /\ Follows(o, r) /\ r.calls = o.calls /\ r.offer = None
          /\ r.request = None /\ r.session = o.session /\ r.screen = "welcome"
      <4> HIDE DEF r, o
      <4> QED
        BY <3>2, <3>1, Shows DEF Screens
    <3>4. Follows(s, r)
      BY <2>1, <3>2, <3>3, FollowsThen
    <3>5. QED
      BY <1>2, <2>1, <3>2, <3>3, <3>4 DEF Resumes, Polite, Waiting
  <2>3. CASE s.session # None /\ Waiting(s)
    <3>1. r = ContinueVaultRequest(d) /\ s.request # None
      BY <1>2, <2>3 DEF FinishVaultOffer, Waiting
    <3>2. /\ Follows(d, r) /\ ~ Waiting(r) /\ r.offer = None
          /\ r.session = d.session
          /\ r.request # None => Under(r, "vault_status")
      <4> HIDE DEF r, d
      <4> QED
        BY <2>1, <3>1, Continued
    <3>3. Follows(s, r)
      BY <2>1, <3>2, FollowsThen
    <3>4. QED
      BY <1>2, <2>1, <3>1, <3>2, <3>3 DEF Resumes, Polite
  <2>4. CASE s.session # None /\ ~ Waiting(s)
    <3>1. r = Show(d, "dashboard")
      BY <1>2, <2>4 DEF FinishVaultOffer
    <3>2. /\ Follows(d, r) /\ r.calls = d.calls
          /\ r.request = d.request /\ r.session = d.session /\ r.screen = "dashboard"
      <4> HIDE DEF r, d
      <4> QED
        BY <2>1, <3>1, Shows DEF Screens
    <3>3. Follows(s, r)
      BY <2>1, <3>2, FollowsThen
    <3>4. QED
      BY <1>2, <2>1, <2>4, <3>2, <3>3 DEF Resumes, Polite, Waiting
  <2>5. QED
    BY <2>2, <2>3, <2>4
<1>3. QED
  BY <1>1, <1>2

\* Whatever the screen, navigating drops no promise and forgets no request: the dashboard
\* resumes it, welcome declines it (element.ts:697-713).
LEMMA Gone ==
  ASSUME NEW s \in Page, NEW scr \in Screens
  PROVE  LET r == Goto(s, scr) IN
         /\ Follows(s, r) /\ r.session = s.session
         /\ Polite(s) => \A v : Resumes(r, v)
         /\ ~ Waiting(s) => r.calls = s.calls
<1> DEFINE r == Goto(s, scr)
<1>1. CASE scr = "dashboard" /\ Waiting(s)
  <2>1. r = ContinueVaultRequest(s)
    BY <1>1 DEF Goto
  <2>2. /\ Follows(s, r) /\ ~ Waiting(r)
        /\ r.offer = s.offer /\ r.session = s.session /\ r.screen = s.screen
        /\ r.request # None => Under(r, "vault_status")
    <3> HIDE DEF r
    <3> QED
      BY <2>1, Continued
  <2>3. QED
    BY <1>1, <2>2 DEF Resumes, Polite
<1>2. CASE scr = "welcome" /\ s.request # None
  <2>1. r = FinishVaultRequest(s)
    BY <1>2 DEF Goto
  <2>2. QED
    BY <1>2, <2>1, FinishedRequest
<1>3. CASE scr = "welcome" /\ s.request = None /\ s.offer # None
  <2>1. r = FinishVaultOffer(s)
    BY <1>3 DEF Goto
  <2>2. QED
    BY <1>3, <2>1, FinishedOffer
<1>4. CASE /\ ~ (scr = "dashboard" /\ Waiting(s))
           /\ ~ (scr = "welcome" /\ (s.request # None \/ s.offer # None))
  <2>1. r = Show(s, scr)
    BY <1>4 DEF Goto
  <2>2. /\ Follows(s, r) /\ r.calls = s.calls
        /\ r.request = s.request /\ r.offer = s.offer
        /\ r.session = s.session /\ r.screen = scr
    <3> HIDE DEF r
    <3> QED
      BY <2>1, Shows
  <2>3. QED
    BY <1>4, <2>2 DEF Resumes, Polite, Waiting
<1>5. QED
  BY <1>1, <1>2, <1>3, <1>4

-----------------------------------------------------------------------------
(* What an answer, or a click, must do to keep the invariant.                *)

\* What TypeOK says of the worker,
Worker == [signer : Someone, pend : BOOLEAN, vault : BOOLEAN]

\* and of the counters.
Tallied == asks \in [made : Nat, faults : Nat] /\ asks.made + asks.faults <= MaxEvents

\* The worker has a call to answer.
Served == TypeOK /\ el.calls # <<>>

\* The page without the call that is being answered.
LEMMA RestOfQueue ==
  ASSUME Served
  PROVE  /\ Asked \in SentCall /\ Asked = el.calls[1] /\ 1 \in Outstanding(el)
         /\ Rest \in Page /\ Len(Rest.calls) + 1 = Len(el.calls) /\ Len(Rest.calls) \in Nat
         /\ \A i \in Outstanding(Rest) : i + 1 \in Outstanding(el) /\ Rest.calls[i] = el.calls[i + 1]
         /\ \A i \in Outstanding(el) : i # 1 =>
              i - 1 \in Outstanding(Rest) /\ Rest.calls[i - 1] = el.calls[i]
         /\ Rest.screen = el.screen /\ Rest.session = el.session /\ Rest.open = el.open
         /\ Rest.request = el.request /\ Rest.offer = el.offer
<1>1. el \in Page /\ el.calls \in Seq(SentCall) /\ el.calls # <<>>
  BY DEF Served, TypeOK, Page
<1>2. /\ Head(el.calls) \in SentCall /\ Head(el.calls) = el.calls[1]
      /\ Tail(el.calls) \in Seq(SentCall) /\ Len(Tail(el.calls)) = Len(el.calls) - 1
      /\ Len(el.calls) \in Nat /\ Len(el.calls) >= 1
      /\ \A i \in 1..(Len(el.calls) - 1) : Tail(el.calls)[i] = el.calls[i + 1]
  BY <1>1
<1>3. /\ Rest \in Page /\ Rest.calls = Tail(el.calls)
      /\ Rest.screen = el.screen /\ Rest.session = el.session /\ Rest.open = el.open
      /\ Rest.request = el.request /\ Rest.offer = el.offer
  BY <1>1, <1>2 DEF Rest, Page
<1>4. \A i \in Outstanding(Rest) : i + 1 \in Outstanding(el) /\ Rest.calls[i] = el.calls[i + 1]
  BY <1>2, <1>3 DEF Outstanding
<1>5. \A i \in Outstanding(el) : i # 1 =>
         i - 1 \in Outstanding(Rest) /\ Rest.calls[i - 1] = el.calls[i]
  BY <1>2, <1>3 DEF Outstanding
<1>6. QED
  BY <1>2, <1>3, <1>4, <1>5 DEF Asked, Outstanding

\* Its promises are kept, unless the call carried one that was heard.
LEMMA RestKept ==
  ASSUME Served, Kept(el), ~ Asked.heard \/ Asked.op \notin OfferOps
  PROVE  Kept(Rest)
<1> USE RestOfQueue
<1>1. \A i \in Asking(el) : i # 1 /\ i - 1 \in Asking(Rest) /\ Rest.calls[i - 1] = el.calls[i]
  BY DEF Asking
<1>2. \A i \in Asking(Rest) : i + 1 \in Asking(el) /\ Rest.calls[i] = el.calls[i + 1] /\ i \in Nat
  BY DEF Asking, Outstanding
<1>3. \A p : InHand(el, p) => InHand(Rest, p)
  BY <1>1 DEF InHand
<1>4. \A i, j \in Asking(Rest) : i = j
  BY <1>2 DEF Kept
<1>5. QED
  BY <1>2, <1>3, <1>4 DEF Kept

\* Whatever else was under way still is.
LEMMA RestUnder ==
  ASSUME Served, NEW op, Under(el, op), Asked.op # op
  PROVE  Under(Rest, op)
  BY RestOfQueue DEF Under

\* It forgets nothing, unless the answer is the one a request waits for.
LEMMA RestResumes ==
  ASSUME Served, NEW v, Resumes(el, v)
  PROVE  /\ Polite(Rest)
         /\ Asked.op \notin {"request_status", "vault_status", "find"} => Resumes(Rest, v)
  BY RestOfQueue, RestUnder DEF Resumes, Polite, Waiting

\* While nothing was given up, every answer is heard.
LEMMA RestHeard ==
  ASSUME Served, Smooth
  PROVE  Asked.heard /\ \A i \in Outstanding(Rest) : Rest.calls[i].heard
  BY RestOfQueue DEF Smooth

\* One more call is heard like the others.
LEMMA ExtendedQueue ==
  ASSUME NEW s \in Page, NEW r, Extended(s, r)
  PROVE  /\ Len(r.calls) <= Len(s.calls) + 1
         /\ (\A i \in Outstanding(s) : s.calls[i].heard) => \A i \in Outstanding(r) : r.calls[i].heard
<1>1. CASE r.calls = s.calls
  BY <1>1 DEF Outstanding, Page
<1>2. CASE \E c \in FreshCall : r.calls = Append(s.calls, c)
  <2>1. PICK c \in FreshCall : r.calls = Append(s.calls, c)
    BY <1>2
  <2>2. /\ s.calls \in Seq(SentCall) /\ c \in SentCall /\ c.heard
    BY FreshCalls DEF Page
  <2>3. /\ Len(r.calls) = Len(s.calls) + 1 /\ Len(s.calls) \in Nat
        /\ \A i \in 1..Len(s.calls) : r.calls[i] = s.calls[i]
        /\ r.calls[Len(s.calls) + 1] = c
    BY <2>1, <2>2
  <2>4. QED
    BY <2>2, <2>3 DEF Outstanding
<1>3. QED
  BY <1>1, <1>2 DEF Extended

\* What an answer must do to keep the invariant, heard or not,
LEMMA HearKeeps ==
  ASSUME Inv, el.calls # <<>>, NEW r, Hear(r), worker' \in Worker, Tallied',
         r \in Page, Len(r.calls) <= Len(el.calls),
         Asked.heard => Kept(r),
         asks'.faults = 0 => asks.faults = 0,
         asks'.faults = 0 /\ Smooth => /\ \A i \in Outstanding(r) : r.calls[i].heard
                                      /\ Shown(r.session, worker'.signer)
                                      /\ Resumes(r, worker'.vault)
  PROVE  Inv'
<1>1. Served
  BY DEF Inv, Served
<1>2. CASE Asked.heard
  <2>1. el' = r
    BY <1>2 DEF Hear
  <2>2. TypeOK'
    <3>1. Len(r.calls) <= MaxCalls
      BY ElementAssumption DEF Inv, TypeOK, Page
    <3>2. QED
      BY <2>1, <3>1 DEF TypeOK, Worker, Tallied
  <2>3. Kept(el)'
    BY <1>2, <2>1 DEF Kept, InHand, Asking, Outstanding
  <2>4. asks'.faults = 0 => Smooth'
    BY <2>1 DEF Smooth, Inv, Outstanding, Resumes, Polite, Under, Shown
  <2>5. QED
    BY <2>2, <2>3, <2>4 DEF Inv
<1>3. CASE ~ Asked.heard
  <2>1. el' = Rest /\ Rest \in Page /\ Kept(Rest) /\ ~ Smooth
    BY <1>1, <1>3, RestOfQueue, RestKept, RestHeard DEF Hear, Inv
  <2>2. TypeOK'
    <3>1. Len(Rest.calls) <= MaxCalls
      BY <1>1, RestOfQueue, ElementAssumption DEF Inv, TypeOK, Page
    <3>2. QED
      BY <2>1, <3>1 DEF TypeOK, Worker, Tallied
  <2>3. Kept(el)'
    BY <2>1 DEF Kept, InHand, Asking, Outstanding
  <2>4. QED
    BY <2>1, <2>2, <2>3 DEF Inv
<1>4. QED
  BY <1>2, <1>3

\* the same of an answer that follows from the rest of the queue,
LEMMA AnswerKeeps ==
  ASSUME Inv, el.calls # <<>>, Asked.op \notin OfferOps, NEW r, Follows(Rest, r), Hear(r),
         worker' \in Worker, asks' = asks,
         Shown(el.session, worker.signer) => Shown(r.session, worker'.signer),
         Resumes(el, worker.vault) => Resumes(r, worker'.vault)
  PROVE  Inv'
<1>1. Served /\ Tallied'
  BY DEF Inv, Served, Tallied, TypeOK
<1>2. Rest \in Page /\ Kept(Rest) /\ Len(Rest.calls) + 1 = Len(el.calls)
  BY <1>1, RestOfQueue, RestKept DEF Inv
<1>3. r \in Page /\ Kept(r) /\ Len(r.calls) <= Len(el.calls)
  BY <1>2, ExtendedQueue DEF Follows
<1>4. Smooth => \A i \in Outstanding(r) : r.calls[i].heard
  BY <1>1, <1>2, ExtendedQueue, RestHeard DEF Follows
<1>5. QED
  BY <1>1, <1>3, <1>4, HearKeeps DEF Smooth

\* and of what the user does.
LEMMA ClickKeeps ==
  ASSUME Inv, NEW r, Follows(el, r), Room \/ r.calls = el.calls,
         el' = r, worker' = worker, Tallied',
         asks'.faults = asks.faults,
         Shown(el.session, worker.signer) => Shown(r.session, worker.signer),
         Resumes(el, worker.vault) => Resumes(r, worker.vault)
  PROVE  Inv'
<1>1. el \in Page /\ Len(el.calls) \in Nat /\ Len(el.calls) <= MaxCalls
  BY DEF Inv, TypeOK, Page
<1>2. r \in Page /\ Kept(r) /\ Len(r.calls) <= Len(el.calls) + 1
  BY <1>1, ExtendedQueue DEF Follows, Inv
<1>3. Len(r.calls) <= MaxCalls
  BY <1>1, <1>2, ElementAssumption DEF Page, Room
<1>4. TypeOK'
  BY <1>2, <1>3 DEF Inv, TypeOK, Tallied
<1>5. Kept(el)'
  BY <1>2 DEF Kept, InHand, Asking, Outstanding
<1>6. Smooth => Smooth'
  BY <1>1, ExtendedQueue DEF Smooth, Follows, Outstanding, Resumes, Polite, Under, Shown
<1>7. QED
  BY <1>4, <1>5, <1>6 DEF Inv

-----------------------------------------------------------------------------
(* The forms that most handlers have.                                        *)

\* A handler that changes nothing a promise depends on may end with any screen.
LEMMA Arrives ==
  ASSUME NEW s \in Page, NEW m, Alike(s, m), NEW scr \in Screens
  PROVE  /\ Follows(s, Goto(m, scr))
         /\ Goto(m, scr).session = m.session
         /\ Polite(s) => \A v : Resumes(Goto(m, scr), v)
<1>1. m \in Page /\ m.calls = s.calls /\ (Polite(s) => Polite(m)) /\ Follows(s, m)
  BY AlikeKept DEF Alike, Polite
<1>2. /\ Follows(m, Goto(m, scr))
      /\ Goto(m, scr).session = m.session
      /\ Polite(m) => \A v : Resumes(Goto(m, scr), v)
  BY <1>1, Gone
<1>3. QED
  BY <1>1, <1>2, FollowsThen

\* An answer that shows a screen keeps the invariant, if it shows who is unlocked;
LEMMA AnswerGoes ==
  ASSUME Inv, el.calls # <<>>, Asked.op \notin OfferOps, NEW m, Alike(Rest, m),
         NEW scr \in Screens, Hear(Goto(m, scr)), worker' \in Worker, asks' = asks,
         Shown(el.session, worker.signer) => Shown(m.session, worker'.signer)
  PROVE  Inv'
<1>1. Rest \in Page /\ \A v : Resumes(el, v) => Polite(Rest)
  BY RestOfQueue, RestResumes DEF Inv, Served
<1>2. /\ Follows(Rest, Goto(m, scr)) /\ Goto(m, scr).session = m.session
      /\ Polite(Rest) => \A v : Resumes(Goto(m, scr), v)
  BY <1>1, Arrives
<1>3. QED
  BY <1>1, <1>2, AnswerKeeps

\* The answers a request waits for.
Navigates == {"request_status", "vault_status", "find"}

\* one that stays on its screen does,
LEMMA AnswerStays ==
  ASSUME Inv, el.calls # <<>>, Asked.op \notin OfferOps \cup Navigates, NEW m, Alike(Rest, m),
         Hear(m), UNCHANGED <<worker, asks>>, m.session = el.session
  PROVE  Inv'
<1>1. Rest \in Page /\ \A v : Resumes(el, v) => Resumes(Rest, v)
  BY RestOfQueue, RestResumes DEF Inv, Served, Navigates
<1>2. Follows(Rest, m) /\ \A v : Resumes(Rest, v) => Resumes(m, v)
  BY <1>1, AlikeKept
<1>3. QED
  BY <1>1, <1>2, AnswerKeeps DEF Inv, TypeOK, Worker

\* and one that posts another call.
LEMMA AnswerSends ==
  ASSUME Inv, el.calls # <<>>, Asked.op \notin OfferOps \cup Navigates, NEW m, Alike(Rest, m),
         NEW c \in FreshCall, Hear(Post(m, c)), UNCHANGED <<worker, asks>>, m.session = el.session
  PROVE  Inv'
<1>1. Rest \in Page /\ \A v : Resumes(el, v) => Resumes(Rest, v)
  BY RestOfQueue, RestResumes DEF Inv, Served, Navigates
<1>2. /\ Follows(Rest, Post(m, c)) /\ Post(m, c).session = m.session
      /\ \A v : Resumes(Rest, v) => Resumes(Post(m, c), v)
  BY <1>1, PostFollows
<1>3. QED
  BY <1>1, <1>2, AnswerKeeps DEF Inv, TypeOK, Worker

\* So do clicks that show a screen,
LEMMA ClickGoes ==
  ASSUME Inv, Room, NEW m, Alike(el, m), NEW scr \in Screens, el' = Goto(m, scr),
         UNCHANGED <<worker, asks>>, m.session \in {el.session, None, Extension}
  PROVE  Inv'
<1>1. el \in Page /\ (\A v : Resumes(el, v) => Polite(el)) /\ Tallied'
  BY DEF Inv, TypeOK, Resumes, Tallied
<1>2. /\ Follows(el, Goto(m, scr)) /\ Goto(m, scr).session = m.session
      /\ Polite(el) => \A v : Resumes(Goto(m, scr), v)
  BY <1>1, Arrives
<1>3. Shown(el.session, worker.signer) => Shown(Goto(m, scr).session, worker.signer)
  BY <1>2, ElementAssumption DEF Shown
<1>4. QED
  BY <1>1, <1>2, <1>3, ClickKeeps

\* that only change what the form shows,
LEMMA ClickStays ==
  ASSUME Inv, NEW m, Alike(el, m), el' = m, UNCHANGED <<worker, asks>>,
         m.session = el.session
  PROVE  Inv'
<1>1. el \in Page /\ Tallied' /\ m.calls = el.calls
  BY DEF Inv, TypeOK, Tallied, Alike
<1>2. QED
  BY <1>1, AlikeKept, ClickKeeps

\* or that post a call.
LEMMA ClickSends ==
  ASSUME Inv, Room, NEW m, Alike(el, m), NEW c \in FreshCall, el' = Post(m, c),
         UNCHANGED <<worker, asks>>, m.session = el.session
  PROVE  Inv'
<1>1. el \in Page /\ Tallied'
  BY DEF Inv, TypeOK, Tallied
<1>2. /\ Follows(el, Post(m, c)) /\ Post(m, c).session = m.session
      /\ \A v : Resumes(el, v) => Resumes(Post(m, c), v)
  BY <1>1, PostFollows
<1>3. QED
  BY <1>1, <1>2, ClickKeeps

\* A form that is no longer busy is alike,
LEMMA Idles ==
  ASSUME NEW s \in Page
  PROVE  /\ Alike(s, Idle(s)) /\ Idle(s) \in Page /\ Idle(s).session = s.session
         /\ Alike(s, s)
  BY DEF Alike, Idle, Page

\* as is a page that has told the host of a sign-in,
LEMMA Dispatched ==
  ASSUME NEW s \in Page, NEW m, Alike(s, m)
  PROVE  Alike(s, DispatchLogin(m)) /\ DispatchLogin(m).session = m.session
  BY DEF Alike, DispatchLogin, Page

\* or that shows another account.
LEMMA TakesSession ==
  ASSUME NEW s \in Page, NEW i \in Someone \cup {Extension}
  PROVE  LET m == [Idle(s) EXCEPT !.session = i]
             n == [s EXCEPT !.session = i]
         IN  Alike(s, m) /\ m.session = i /\ Alike(s, n) /\ n.session = i
  BY DEF Alike, Idle, Page

-----------------------------------------------------------------------------
(* The clicks of WidgetSignIn; from here on, a lemma for each action.        *)

\* Links between screens,
LEMMA NavigateKeeps == ASSUME Inv, Navigate PROVE Inv'
<1>1. PICK scr \in Screens : Click(Goto(el, scr))
  BY DEF Navigate, Screens
<1>2. QED
  BY <1>1, ClickGoes, Idles DEF Click, Inv, TypeOK

\* the back button,
LEMMA BackKeeps == ASSUME Inv, Back PROVE Inv'
<1> DEFINE m == [el EXCEPT !.rollback = None, !.ext = FALSE, !.passkey = None]
<1>1. Alike(el, m) /\ m.session = el.session
  BY DEF Alike, Inv, TypeOK, Page, Someone
<1>2. "welcome" \in Screens /\ Room /\ el' = Goto(m, "welcome") /\ UNCHANGED <<worker, asks>>
  BY DEF Back, Click, Screens
<1>3. QED
  <2> HIDE DEF m
  <2> QED
    BY <1>1, <1>2, ClickGoes

\* a form that is sent,
LEMMA StartKeeps ==
  ASSUME Inv, NEW m, Alike(el, m), m.session = el.session, NEW c \in FreshCall,
         Click(Start(m, c))
  PROVE  Inv'
<1> DEFINE n == [m EXCEPT !.busy = TRUE]
<1>1. Alike(el, n) /\ n.session = el.session
  BY DEF Alike, Page
<1>2. el' = Post(n, c)
  BY DEF Click, Start, Post, Alike, Page
<1>3. QED
  <2> HIDE DEF n
  <2> QED
    BY <1>1, <1>2, ClickSends DEF Click

\* whichever it is.
LEMMA SubmitKeeps == ASSUME Inv, Submit PROVE Inv'
<1>1. PICK f \in Forms, i \in Someone : Click(Start(el, Call(f[2], i)))
  BY DEF Submit, Someone
<1>2. f[2] \in OtherOps
  BY <1>1 DEF Forms, OtherOps
<1>3. QED
  BY <1>1, <1>2, CallIsFresh, StartKeeps, Idles DEF Inv, TypeOK

-----------------------------------------------------------------------------
(* Signing in and registering.                                               *)

\* The answers that wallet promises depend on; the handlers below answer others.
Settling == OfferOps \cup Navigates

\* What every handler of an answer knows.
LEMMA Answering ==
  ASSUME Inv, el.calls # <<>>
  PROVE  /\ Rest \in Page /\ Rest.session = el.session
         /\ Asked \in SentCall /\ Asked.who \in Someone
         /\ worker \in Worker
  BY RestOfQueue, SentCalls DEF Inv, Served, TypeOK, Worker

\* A sign-in unlocks the one it says.
LEMMA UnlockedIsTyped ==
  ASSUME NEW i \in Someone, NEW w \in Unlocked(i)
  PROVE  w \in Worker /\ w.signer = i
<1>1. PICK v \in BOOLEAN : w = [signer |-> i, pend |-> FALSE, vault |-> v]
  BY Zenon DEF Unlocked
<1>2. QED
  BY <1>1 DEF Worker

\* A call that failed,
LEMMA FailKeeps ==
  ASSUME Inv, el.calls # <<>>, Asked.op \notin Settling, NEW m, Alike(Rest, m),
         m.session = el.session, Hear(Fail(m)), UNCHANGED <<worker, asks>>
  PROVE  Inv'
<1>1. Alike(Rest, Fail(m)) /\ Fail(m).session = el.session
  BY DEF Alike, Fail, Idle, Page
<1>2. QED
  BY <1>1, AnswerStays DEF Settling

\* a sign-in, which shows the account it unlocked,
LEMMA SignedInKeeps ==
  ASSUME Inv, el.calls # <<>>, Asked.op \notin Settling, NEW i \in Someone,
         worker' \in Unlocked(i), Hear(SignedIn(Rest, i)), asks' = asks
  PROVE  Inv'
<1> DEFINE n == [Idle(Rest) EXCEPT !.session = i]
           m == DispatchLogin(n)
<1>1. Alike(Rest, m) /\ m.session = i
  <2>1. Alike(Rest, n) /\ n.session = i /\ Rest \in Page
    BY Answering, TakesSession
  <2>2. QED
    <3> HIDE DEF n
    <3> QED
      BY <2>1, Dispatched
<1>2. Hear(Goto(m, "dashboard")) /\ "dashboard" \in Screens
  BY DEF SignedIn, Screens
<1>3. worker' \in Worker /\ Shown(i, worker'.signer)
  BY UnlockedIsTyped DEF Shown
<1>4. QED
  <2> HIDE DEF m
  <2> QED
    BY <1>1, <1>2, <1>3, AnswerGoes DEF Settling

\* a registration, which goes on to the phrase,
LEMMA RegisteredKeeps ==
  ASSUME Inv, el.calls # <<>>, Asked.op \notin Settling, NEW i \in Someone, NEW n, Alike(Rest, n),
         worker' \in Unlocked(i), Hear(Registered(n, i)), asks' = asks
  PROVE  Inv'
<1> DEFINE m == [Idle(n) EXCEPT !.session = i]
<1>1. Alike(Rest, m) /\ m.session = i
  BY TakesSession DEF Alike
<1>2. Hear(Goto(m, "confirm-phrase")) /\ "confirm-phrase" \in Screens
  BY DEF Registered, Screens
<1>3. worker' \in Worker /\ Shown(i, worker'.signer)
  BY UnlockedIsTyped DEF Shown
<1>4. QED
  <2> HIDE DEF m
  <2> QED
    BY <1>1, <1>2, <1>3, AnswerGoes DEF Settling

\* and the question about a rollback keep the invariant.
LEMMA RollbackKeeps ==
  ASSUME Inv, el.calls # <<>>, Asked.op \notin Settling, NEW op \in {"login", "change"},
         NEW i \in Someone, Hear(AskRollback(Rest, op, i)), UNCHANGED <<worker, asks>>
  PROVE  Inv'
<1> DEFINE m == [Idle(Rest) EXCEPT !.rollback = [op |-> op, who |-> i]]
<1>1. [op |-> op, who |-> i] \in Rollback
  BY DEF Rollback
<1>2. Alike(Rest, m) /\ m.session = el.session
  BY <1>1, Answering DEF Alike, Idle, Page
<1>3. Hear(Goto(m, "rollback-confirm")) /\ "rollback-confirm" \in Screens
  BY DEF AskRollback, Screens
<1>4. QED
  <2> HIDE DEF m
  <2> QED
    BY <1>2, <1>3, Answering, AnswerGoes DEF Settling

\* Signing in.
LEMMA LoginKeeps == ASSUME Inv, Login, UNCHANGED asks PROVE Inv'
<1>1. el.calls # <<>> /\ Asked.op \notin Settling
  BY DEF Login, Answers, Settling, OfferOps, Navigates
<1>2. CASE worker' \in Unlocked(Asked.who) /\ Hear(SignedIn(Rest, Asked.who))
  BY <1>1, <1>2, Answering, SignedInKeeps
<1>3. CASE Hear(AskRollback(Rest, "login", Asked.who)) /\ UNCHANGED worker
  BY <1>1, <1>3, Answering, RollbackKeeps
<1>4. CASE Hear(Fail(Rest)) /\ UNCHANGED worker
  BY <1>1, <1>4, Answering, Idles, FailKeeps
<1>5. QED
  BY <1>2, <1>3, <1>4 DEF Login

\* The user has another look at the relays,
LEMMA RollbackRetryKeeps == ASSUME Inv, RollbackRetry PROVE Inv'
<1> DEFINE m == [el EXCEPT !.rollback = None]
<1>1. PICK scr \in Screens : Click(Goto(m, scr))
  BY DEF RollbackRetry, Screens
<1>2. Alike(el, m) /\ m.session = el.session
  BY DEF Alike, Inv, TypeOK, Page
<1>3. QED
  <2> HIDE DEF m
  <2> QED
    BY <1>1, <1>2, ClickGoes DEF Click

\* or accepts the older credential.
LEMMA RollbackContinueKeeps == ASSUME Inv, RollbackContinue PROVE Inv'
<1>1. CASE el.rollback = None
  <2>1. Click(Goto(el, "welcome")) /\ "welcome" \in Screens
    BY <1>1 DEF RollbackContinue, Screens
  <2>2. QED
    BY <2>1, Idles, ClickGoes DEF Click, Inv, TypeOK
<1>2. CASE el.rollback # None
  <2> DEFINE m == [el EXCEPT !.rollback = None]
             c == [Call(el.rollback.op, el.rollback.who) EXCEPT !.ack = TRUE]
  <2>1. el.rollback.op \in OtherOps /\ el.rollback.who \in Someone
    BY <1>2 DEF Inv, TypeOK, Page, Rollback, OtherOps
  <2>2. c \in FreshCall
    BY <2>1 DEF Call, FreshCall, OtherCall
  <2>3. Alike(el, m) /\ m.session = el.session
    BY DEF Alike, Inv, TypeOK, Page
  <2>4. Click(Start(m, c))
    BY <1>2 DEF RollbackContinue
  <2>5. QED
    <3> HIDE DEF m, c
    <3> QED
      BY <2>2, <2>3, <2>4, StartKeeps
<1>3. QED
  BY <1>1, <1>2

\* The element has configured its worker, and restores.
LEMMA ConfigureKeeps == ASSUME Inv, Configure, UNCHANGED asks PROVE Inv'
<1>1. el.calls # <<>> /\ Asked.op \notin Settling
  BY DEF Configure, Answers, Settling, OfferOps, Navigates
<1>2. Call("restore", None) \in FreshCall
  BY CallIsFresh DEF OtherOps, Someone
<1>3. QED
  BY <1>1, <1>2, Answering, Idles, AnswerSends DEF Configure, Settling

\* A session is restored, over whatever screen there is by now.
LEMMA RestoreKeeps == ASSUME Inv, Restore, UNCHANGED asks PROVE Inv'
<1>1. el.calls # <<>> /\ Asked.op \notin Settling
  BY DEF Restore, Answers, Settling, OfferOps, Navigates
<1>2. ASSUME NEW i \in Ident, worker' \in Unlocked(i),
             Hear(Goto(DispatchLogin([Rest EXCEPT !.session = i]), "dashboard"))
      PROVE  Inv'
  <2> DEFINE m == DispatchLogin([Rest EXCEPT !.session = i])
  <2>1. Alike(Rest, m) /\ m.session = i /\ i \in Someone
    BY <1>1, Answering, TakesSession, Dispatched DEF Someone
  <2>2. worker' \in Worker /\ Shown(i, worker'.signer)
    BY <1>2, <2>1, UnlockedIsTyped DEF Shown
  <2>3. Hear(Goto(m, "dashboard")) /\ "dashboard" \in Screens
    BY <1>2 DEF Screens
  <2>4. QED
    <3> HIDE DEF m
    <3> QED
      BY <1>1, <2>1, <2>2, <2>3, AnswerGoes DEF Settling
<1>3. CASE Hear(Rest) /\ UNCHANGED worker
  BY <1>1, <1>3, Answering, Idles, AnswerStays DEF Settling
<1>4. QED
  BY <1>2, <1>3 DEF Restore

\* Registering.
LEMMA RegisterKeeps == ASSUME Inv, Register, UNCHANGED asks PROVE Inv'
<1>1. el.calls # <<>> /\ Asked.op \notin Settling
  BY DEF Register, Answers, Settling, OfferOps, Navigates
<1>2. CASE worker' \in Unlocked(Asked.who) /\ Hear(Registered(Rest, Asked.who))
  BY <1>1, <1>2, Answering, Idles, RegisteredKeeps
<1>3. CASE Hear(Fail(Rest)) /\ UNCHANGED worker
  BY <1>1, <1>3, Answering, Idles, FailKeeps
<1>4. QED
  BY <1>2, <1>3 DEF Register

\* The phrase is verified.
LEMMA VerifyPhraseKeeps == ASSUME Inv, VerifyPhrase PROVE Inv'
<1>1. Alike(el, DispatchLogin(el)) /\ DispatchLogin(el).session = el.session
  BY Idles, Dispatched DEF Inv, TypeOK
<1>2. Click(Goto(DispatchLogin(el), "dashboard")) /\ "dashboard" \in Screens
  BY DEF VerifyPhrase, Screens
<1>3. QED
  BY <1>1, <1>2, ClickGoes DEF Click

-----------------------------------------------------------------------------
(* Recovery, rotation and passkeys.                                          *)

\* A recovery unlocks the one it says, with a credential yet to come.
LEMMA PendingIsTyped ==
  ASSUME NEW i \in Someone, NEW w \in {[u EXCEPT !.pend = TRUE] : u \in Unlocked(i)}
  PROVE  w \in Worker /\ w.signer = i
<1>1. PICK u \in Unlocked(i) : w = [u EXCEPT !.pend = TRUE]
  OBVIOUS
<1>2. QED
  BY <1>1, UnlockedIsTyped DEF Worker

\* Recovering.
LEMMA RecoverKeeps == ASSUME Inv, Recover, UNCHANGED asks PROVE Inv'
<1>1. el.calls # <<>> /\ Asked.op \notin Settling
  BY DEF Recover, Answers, Settling, OfferOps, Navigates
<1>2. CASE /\ worker' \in {[w EXCEPT !.pend = TRUE] : w \in Unlocked(Asked.who)}
           /\ Hear(Goto([Idle(Rest) EXCEPT !.session = Asked.who], "recover-new-credentials"))
  <2> DEFINE m == [Idle(Rest) EXCEPT !.session = Asked.who]
  <2>1. Alike(Rest, m) /\ m.session = Asked.who
    BY <1>1, Answering, TakesSession
  <2>2. worker' \in Worker /\ Shown(Asked.who, worker'.signer)
    BY <1>1, <1>2, Answering, PendingIsTyped DEF Shown
  <2>3. Hear(Goto(m, "recover-new-credentials")) /\ "recover-new-credentials" \in Screens
    BY <1>2 DEF Screens
  <2>4. QED
    <3> HIDE DEF m
    <3> QED
      BY <1>1, <2>1, <2>2, <2>3, AnswerGoes DEF Settling
<1>3. CASE Hear(Fail(Rest)) /\ UNCHANGED worker
  BY <1>1, <1>3, Answering, Idles, FailKeeps
<1>4. QED
  BY <1>2, <1>3 DEF Recover

\* Completing a recovery, which shows the identity it recovered.
LEMMA CompleteRecoveryKeeps == ASSUME Inv, CompleteRecovery, UNCHANGED asks PROVE Inv'
<1>1. el.calls # <<>> /\ Asked.op \notin Settling
  BY DEF CompleteRecovery, Answers, Settling, OfferOps, Navigates
<1>2. CASE /\ worker' = [worker EXCEPT !.pend = FALSE]
           /\ Hear(Goto(DispatchLogin(Idle(Rest)), "dashboard"))
  <2>1. Alike(Rest, DispatchLogin(Idle(Rest))) /\ DispatchLogin(Idle(Rest)).session = el.session
    BY <1>1, Answering, Idles, Dispatched
  <2>2. worker' \in Worker /\ worker'.signer = worker.signer
    BY <1>1, <1>2, Answering DEF Worker
  <2>3. "dashboard" \in Screens
    BY DEF Screens
  <2>4. QED
    BY <1>1, <1>2, <2>1, <2>2, <2>3, AnswerGoes DEF Settling
<1>3. CASE Hear(Fail(Rest)) /\ UNCHANGED worker
  BY <1>1, <1>3, Answering, Idles, FailKeeps
<1>4. QED
  BY <1>2, <1>3 DEF CompleteRecovery

\* Changing the password.
LEMMA ChangePasswordKeeps == ASSUME Inv, ChangePassword, UNCHANGED asks PROVE Inv'
<1>1. /\ el.calls # <<>> /\ Asked.op \notin Settling
      /\ "dashboard" \in Screens /\ None \in Someone
  BY DEF ChangePassword, Answers, Settling, OfferOps, Navigates, Screens, Someone
<1>2. CASE Hear(Goto(Idle(Rest), "dashboard"))
  BY <1>1, <1>2, Answering, Idles, AnswerGoes DEF Settling, ChangePassword
<1>3. CASE Hear(AskRollback(Rest, "change", None))
  BY <1>1, <1>3, RollbackKeeps DEF ChangePassword
<1>4. CASE Hear(Fail(Rest))
  BY <1>1, <1>4, Answering, Idles, FailKeeps DEF ChangePassword
<1>5. QED
  BY <1>2, <1>3, <1>4 DEF ChangePassword

\* The passkey screens are shown.
LEMMA GotoPasskeyKeeps == ASSUME Inv, GotoPasskey PROVE Inv'
<1> DEFINE m == [el EXCEPT !.passkey = None]
<1>1. Alike(el, m) /\ m.session = el.session
  BY DEF Alike, Inv, TypeOK, Page, Someone
<1>2. Click(Goto(m, "passkey")) /\ "passkey" \in Screens
  BY DEF GotoPasskey, Screens
<1>3. QED
  <2> HIDE DEF m
  <2> QED
    BY <1>1, <1>2, ClickGoes DEF Click

\* The browser's sheet opens,
LEMMA CeremonyKeeps == ASSUME Inv, NEW kind \in {"get", "create"}, Ceremony(kind) PROVE Inv'
<1> DEFINE m == [el EXCEPT !.busy = TRUE, !.prompts = @ \cup {kind}]
<1>1. Alike(el, m) /\ m.session = el.session
  BY DEF Alike, Inv, TypeOK, Page
<1>2. Click(m)
  BY DEF Ceremony
<1>3. QED
  <2> HIDE DEF m
  <2> QED
    BY <1>1, <1>2, ClickStays DEF Click

\* and closes, which no promise depends on,
LEMMA ClosedIsAlike ==
  ASSUME Inv, NEW kind
  PROVE  /\ Alike(el, Closed(kind)) /\ Closed(kind).session = el.session
         /\ Alike(el, Idle(Closed(kind))) /\ Idle(Closed(kind)).session = el.session
  BY DEF Alike, Closed, Idle, Inv, TypeOK, Page

\* with an answer or without.
LEMMA CeremonyEndsKeeps ==
  ASSUME Inv, NEW kind \in {"get", "create"}, CeremonyEnds(kind)
  PROVE  Inv'
<1>1. Room /\ UNCHANGED <<worker, asks>>
  BY DEF CeremonyEnds
<1>2. CASE el' = Fail(Closed(kind))
  BY <1>1, <1>2, ClosedIsAlike, ClickStays DEF Fail
<1>3. ASSUME NEW i \in Ident, kind = "get", el' = Post(Closed(kind), Call("passkey_login", i))
      PROVE  Inv'
  <2>1. Call("passkey_login", i) \in FreshCall
    BY CallIsFresh DEF OtherOps, Someone
  <2>2. QED
    BY <1>1, <1>3, <2>1, ClosedIsAlike, ClickSends
<1>4. ASSUME NEW i \in Ident,
             el' = Goto([Idle(Closed(kind)) EXCEPT !.passkey = i], "passkey-create")
      PROVE  Inv'
  <2> DEFINE m == [Idle(Closed(kind)) EXCEPT !.passkey = i]
  <2>1. Alike(el, m) /\ m.session = el.session
    BY ClosedIsAlike DEF Alike, Page, Someone
  <2>2. el' = Goto(m, "passkey-create") /\ "passkey-create" \in Screens
    BY <1>4 DEF Screens
  <2>3. QED
    <3> HIDE DEF m
    <3> QED
      BY <1>1, <2>1, <2>2, ClickGoes
<1>5. QED
  BY <1>2, <1>3, <1>4 DEF CeremonyEnds

\* Signing in with a passkey.
LEMMA PasskeyLoginKeeps == ASSUME Inv, PasskeyLogin, UNCHANGED asks PROVE Inv'
<1>1. el.calls # <<>> /\ Asked.op \notin Settling
  BY DEF PasskeyLogin, Answers, Settling, OfferOps, Navigates
<1>2. CASE worker' \in Unlocked(Asked.who) /\ Hear(SignedIn(Rest, Asked.who))
  BY <1>1, <1>2, Answering, SignedInKeeps
<1>3. CASE /\ Hear(Goto([Idle(Rest) EXCEPT !.passkey = Asked.who], "passkey-create"))
           /\ UNCHANGED worker
  <2> DEFINE m == [Idle(Rest) EXCEPT !.passkey = Asked.who]
  <2>1. Alike(Rest, m) /\ m.session = el.session
    BY <1>1, Answering DEF Alike, Idle, Page
  <2>2. Hear(Goto(m, "passkey-create")) /\ "passkey-create" \in Screens
    BY <1>3 DEF Screens
  <2>3. QED
    <3> HIDE DEF m
    <3> QED
      BY <1>1, <1>3, <2>1, <2>2, Answering, AnswerGoes DEF Settling
<1>4. CASE Hear(AskRollback(Rest, "login", Asked.who)) /\ UNCHANGED worker
  BY <1>1, <1>4, Answering, RollbackKeeps
<1>5. CASE Hear(Fail(Rest)) /\ UNCHANGED worker
  BY <1>1, <1>5, Answering, Idles, FailKeeps
<1>6. QED
  BY <1>2, <1>3, <1>4, <1>5 DEF PasskeyLogin

\* A new passkey is asked for,
LEMMA PasskeyNewKeeps == ASSUME Inv, PasskeyNew PROVE Inv'
<1>1. Call("passkey_register", el.passkey) \in FreshCall
  BY CallIsFresh DEF OtherOps, Inv, TypeOK, Page
<1>2. QED
  BY <1>1, Idles, StartKeeps DEF PasskeyNew, Inv, TypeOK

\* and registered with.
LEMMA PasskeyRegisterKeeps == ASSUME Inv, PasskeyRegister, UNCHANGED asks PROVE Inv'
<1> DEFINE m == [Rest EXCEPT !.passkey = None]
           n == [m EXCEPT !.busy = TRUE]
<1>1. el.calls # <<>> /\ Asked.op \notin Settling
  BY DEF PasskeyRegister, Answers, Settling, OfferOps, Navigates
<1>2. Alike(Rest, m) /\ m.session = el.session
  BY <1>1, Answering DEF Alike, Page, Someone
<1>3. CASE worker' \in Unlocked(Asked.who) /\ Hear(Registered(m, Asked.who))
  <2> HIDE DEF m
  <2> QED
    BY <1>1, <1>2, <1>3, Answering, RegisteredKeeps
<1>4. CASE Hear(Start(m, Call("login", Asked.who))) /\ UNCHANGED worker
  <2>1. Call("login", Asked.who) \in FreshCall
    BY <1>1, Answering, CallIsFresh DEF OtherOps
  <2>2. Alike(Rest, n) /\ n.session = el.session
    BY <1>2 DEF Alike, Page
  <2>3. Start(m, Call("login", Asked.who)) = Post(n, Call("login", Asked.who))
    BY <1>2 DEF Start, Post, Alike, Page
  <2>4. QED
    <3> HIDE DEF m, n
    <3> QED
      BY <1>1, <1>4, <2>1, <2>2, <2>3, AnswerSends DEF Settling
<1>5. CASE Hear(Fail(Rest)) /\ UNCHANGED worker
  BY <1>1, <1>5, Answering, Idles, FailKeeps
<1>6. QED
  BY <1>3, <1>4, <1>5 DEF PasskeyRegister

-----------------------------------------------------------------------------
(* The extension, and logging out.                                           *)

\* The extension is asked who it is.
LEMMA ExtensionSignInKeeps == ASSUME Inv, ExtensionSignIn PROVE Inv'
<1> DEFINE m == [el EXCEPT !.busy = TRUE, !.prompts = @ \cup {"extension"}]
<1>1. Alike(el, m) /\ m.session = el.session
  BY DEF Alike, Inv, TypeOK, Page
<1>2. Click(m)
  BY DEF ExtensionSignIn
<1>3. QED
  <2> HIDE DEF m
  <2> QED
    BY <1>1, <1>2, ClickStays DEF Click

\* It answers, whatever is shown by now.
LEMMA ExtensionAnswersKeeps == ASSUME Inv, ExtensionAnswers PROVE Inv'
<1> DEFINE x == Closed("extension")
<1>1. x \in Page /\ Alike(el, x) /\ x.session = el.session
  BY ClosedIsAlike DEF Alike
<1>2. CASE el' = Fail([x EXCEPT !.ext = FALSE])
  <2> DEFINE m == Fail([x EXCEPT !.ext = FALSE])
  <2>1. Alike(el, m) /\ m.session = el.session
    BY <1>1 DEF Alike, Fail, Idle, Page
  <2>2. QED
    <3> HIDE DEF m
    <3> QED
      BY <1>2, <2>1, ClickStays DEF ExtensionAnswers, m
<1>3. CASE el' = Goto([Idle(x) EXCEPT !.ext = TRUE], "extension-confirm")
  <2> DEFINE m == [Idle(x) EXCEPT !.ext = TRUE]
             r == Show(m, "extension-confirm")
  <2>1. Alike(el, m) /\ m.session = el.session
    BY <1>1 DEF Alike, Idle, Page
  <2>2. el' = r
    BY <1>3 DEF Goto
  <2>3. el \in Page /\ m \in Page /\ Follows(el, m) /\ m.calls = el.calls /\ Tallied'
    BY <2>1, AlikeKept DEF Alike, Inv, TypeOK, Tallied, ExtensionAnswers
  <2>4. /\ Follows(m, r) /\ r.calls = m.calls /\ r.session = m.session
        /\ r.screen = "extension-confirm"
    <3> HIDE DEF m
    <3> QED
      BY <2>3, Shows DEF Screens
  <2>5. QED
    <3> HIDE DEF m, r
    <3>1. Follows(el, r) /\ \A v : Resumes(r, v)
      BY <2>3, <2>4, FollowsThen DEF Resumes, Polite
    <3>2. QED
      BY <2>1, <2>2, <2>3, <2>4, <3>1, ClickKeeps DEF ExtensionAnswers
<1>4. QED
  BY <1>2, <1>3 DEF ExtensionAnswers

\* Its identity is taken, over an account that is signed in or not.
LEMMA ExtensionConfirmKeeps == ASSUME Inv, ExtensionConfirm PROVE Inv'
<1>1. "welcome" \in Screens /\ "dashboard" \in Screens /\ el \in Page /\ Tallied'
  BY DEF Screens, Inv, TypeOK, Tallied, ExtensionConfirm, Click
<1>2. CASE ~ el.ext
  BY <1>1, <1>2, Idles, ClickGoes DEF ExtensionConfirm, Click
<1>3. CASE el.ext
  <2> DEFINE m == [el EXCEPT !.ext = FALSE, !.alt = TRUE, !.session = Extension]
             f == FinishVaultRequest(m)
             r == Goto(DispatchLogin(f), "dashboard")
  <2>1. el' = r /\ Room /\ UNCHANGED <<worker, asks>>
    BY <1>3 DEF ExtensionConfirm, Click
  <2>2. Alike(el, m) /\ m.session = Extension
    BY <1>1 DEF Alike, Page
  <2>3. /\ m \in Page /\ m.calls = el.calls /\ Follows(el, m)
        /\ (Polite(el) => Polite(m))
    BY <1>1, <2>2, AlikeKept DEF Alike, Polite
  <2>4. /\ Follows(m, f) /\ f \in Page /\ f.calls = m.calls /\ f.session = m.session
        /\ (Polite(m) => Polite(f))
    <3> HIDE DEF m
    <3> QED
      BY <2>3, FinishedRequest DEF Follows, Resumes
  <2>5. /\ Follows(f, r) /\ r.session = f.session
        /\ (Polite(f) => \A v : Resumes(r, v))
    <3> HIDE DEF f
    <3> QED
      BY <1>1, <2>4, Idles, Dispatched, Arrives
  <2>6. QED
    <3> HIDE DEF m, f, r
    <3>1. Follows(el, r)
      BY <2>3, <2>4, <2>5, FollowsThen
    <3>2. \A v : Resumes(el, v) => Resumes(r, v)
      BY <2>3, <2>4, <2>5 DEF Resumes
    <3>3. Shown(r.session, worker.signer)
      BY <2>2, <2>4, <2>5, ElementAssumption DEF Shown
    <3>4. QED
      BY <1>1, <2>1, <3>1, <3>2, <3>3, ClickKeeps
<1>4. QED
  BY <1>2, <1>3 DEF Inv, TypeOK, Page

\* Signing out is a navigation to welcome.
LEMMA SignsOut ==
  ASSUME NEW s \in Page
  PROVE  LET m == [s EXCEPT !.session = None, !.active = None]
         IN  Alike(s, m) /\ m.session = None /\ SignedOut(s) = Goto(m, "welcome")
  BY DEF Alike, Page, Someone, SignedOut

\* Logging out, by the user or the host.
LEMMA LogoutKeeps == ASSUME Inv, Logout PROVE Inv'
<1>1. /\ "welcome" \in Screens /\ el \in Page /\ Room
      /\ Call("logout", None) \in FreshCall /\ UNCHANGED <<worker, asks>>
  BY CallIsFresh DEF Screens, Inv, TypeOK, OtherOps, Someone, Logout
<1>2. CASE el.alt
  <2> DEFINE s == [el EXCEPT !.alt = FALSE]
             m == [s EXCEPT !.session = None, !.active = None]
  <2>1. Alike(el, s) /\ s \in Page
    BY <1>1 DEF Alike, Page
  <2>2. Alike(s, m) /\ m.session = None /\ SignedOut(s) = Goto(m, "welcome")
    <3> HIDE DEF s
    <3> QED
      BY <2>1, SignsOut
  <2>3. el' = SignedOut(s)
    BY <1>2 DEF Logout
  <2>4. QED
    <3> HIDE DEF m, s
    <3>1. Alike(el, m)
      BY <2>1, <2>2 DEF Alike
    <3>2. QED
      BY <1>1, <2>2, <2>3, <3>1, ClickGoes
<1>3. CASE ~ el.alt
  BY <1>1, <1>3, Idles, ClickSends DEF Logout
<1>4. QED
  BY <1>2, <1>3 DEF Inv, TypeOK, Page

\* The worker has locked the session.
LEMMA LoggedOutKeeps == ASSUME Inv, LoggedOut, UNCHANGED asks PROVE Inv'
<1> DEFINE m == [Rest EXCEPT !.session = None, !.active = None]
<1>1. el.calls # <<>> /\ Asked.op \notin Settling
  BY DEF LoggedOut, Answers, Settling, OfferOps, Navigates
<1>2. Alike(Rest, m) /\ m.session = None /\ SignedOut(Rest) = Goto(m, "welcome")
  BY <1>1, Answering, SignsOut
<1>3. worker' \in Worker /\ "welcome" \in Screens
  BY DEF LoggedOut, Locked, Worker, Someone, Screens
<1>4. Shown(None, worker'.signer)
  BY ElementAssumption DEF Shown
<1>5. QED
  <2> HIDE DEF m
  <2> QED
    BY <1>1, <1>2, <1>3, <1>4, AnswerGoes DEF LoggedOut, Settling

\* Whatever happens on the sign-in screens keeps the invariant.
LEMMA SignInKeeps ==
  ASSUME Inv, SignInClick \/ (SignInAnswer /\ UNCHANGED asks)
  PROVE  Inv'
<1>1. CASE SignInClick
  BY <1>1, NavigateKeeps, BackKeeps, SubmitKeeps, RollbackRetryKeeps, RollbackContinueKeeps,
     VerifyPhraseKeeps, GotoPasskeyKeeps, CeremonyKeeps, PasskeyNewKeeps, ExtensionSignInKeeps,
     ExtensionConfirmKeeps, LogoutKeeps
  DEF SignInClick
<1>2. CASE SignInAnswer /\ UNCHANGED asks
  BY <1>2, LoginKeeps, ConfigureKeeps, RestoreKeeps, RegisterKeeps, RecoverKeeps,
     CompleteRecoveryKeeps, ChangePasswordKeeps, PasskeyLoginKeeps, PasskeyRegisterKeeps,
     LoggedOutKeeps
  DEF SignInAnswer
<1>3. QED
  BY <1>1, <1>2

-----------------------------------------------------------------------------
(* What a host asks for.                                                     *)

\* A promise a host asks for has a number of its own.
LEMMA AskIsTyped ==
  ASSUME Inv, Event, asks' = [asks EXCEPT !.made = @ + 1]
  PROVE  /\ asks.made + 1 \in Ids /\ asks.made + 1 # 0
         /\ Tallied' /\ asks'.faults = asks.faults
  BY ElementAssumption DEF Inv, TypeOK, Event, Tallied, Ids

\* A host asks for a wallet.
LEMMA RequestNwcKeeps == ASSUME Inv, RequestNwc PROVE Inv'
<1> DEFINE id == asks.made + 1
           c == Call("request_status", None)
           m == [el EXCEPT !.request = [id |-> id, stage |-> "auth"],
                           !.open = @ \cup {Promise("request", id)}]
<1>1. /\ Room /\ el.request = None /\ worker' = worker /\ el \in Page
      /\ id \in Ids /\ Tallied' /\ asks'.faults = asks.faults
  BY AskIsTyped DEF RequestNwc, Ask, Inv, TypeOK
<1>2. c \in FreshCall /\ c.op = "request_status"
  BY CallIsFresh DEF OtherOps, Someone
<1>3. [id |-> id, stage |-> "auth"] \in Request /\ Promise("request", id) \in [kind : {"request", "offer"}, id : Ids]
  BY <1>1 DEF Request, Promise
<1>4. /\ m \in Page /\ m.calls = el.calls /\ m.offer = el.offer
      /\ m.request = [id |-> id, stage |-> "auth"] /\ m.session = el.session
      /\ m.open = el.open \cup {Promise("request", id)} /\ m.screen = el.screen
  BY <1>1, <1>3 DEF Page
<1>5. el' = Post(m, c)
  BY <1>1 DEF RequestNwc, Ask, Post, Page
<1>6. Follows(el, m)
  <2>1. Asking(m) = Asking(el)
    BY <1>4 DEF Asking, Outstanding
  <2>2. m.request # None /\ m.request.id = id
    BY <1>3, <1>4, RequestsArePending
  <2>3. \A p : InHand(el, p) => InHand(m, p)
    BY <1>1, <1>4, <2>1 DEF InHand
  <2>4. InHand(m, Promise("request", id))
    BY <2>2 DEF InHand
  <2>5. Promise("request", id).kind # "offer"
    BY DEF Promise
  <2>6. Kept(el) => Kept(m)
    <3> HIDE DEF m, id
    <3> QED
      BY <1>4, <2>1, <2>3, <2>4, <2>5 DEF Kept
  <2>7. QED
    BY <1>4, <2>6 DEF Follows, Extended
<1>7. /\ Follows(m, Post(m, c)) /\ Post(m, c).session = m.session
      /\ Under(Post(m, c), "request_status")
      /\ Post(m, c).offer = m.offer /\ Post(m, c).screen = m.screen
  <2> HIDE DEF m, c
  <2> QED
    BY <1>2, <1>4, Idles, PostFollows
<1>8. QED
  <2> HIDE DEF m, c
  <2>1. Follows(el, Post(m, c))
    BY <1>4, <1>6, <1>7, FollowsThen
  <2>2. \A v : Resumes(el, v) => Resumes(Post(m, c), v)
    BY <1>4, <1>7 DEF Resumes, Polite
  <2>3. QED
    BY <1>1, <1>4, <1>5, <1>7, <2>1, <2>2, ClickKeeps

\* What posting a call does, an offer's call too.
LEMMA Sent ==
  ASSUME NEW s \in Page, NEW c \in SentCall
  PROVE  /\ Post(s, c) \in Page
         /\ Len(Post(s, c).calls) = Len(s.calls) + 1
         /\ Len(s.calls) \in Nat
         /\ Outstanding(Post(s, c)) = Outstanding(s) \cup {Len(s.calls) + 1}
         /\ \A i \in Outstanding(s) : Post(s, c).calls[i] = s.calls[i] /\ i # Len(s.calls) + 1
         /\ Post(s, c).calls[Len(s.calls) + 1] = c
         /\ Post(s, c).request = s.request /\ Post(s, c).offer = s.offer
         /\ Post(s, c).open = s.open /\ Post(s, c).screen = s.screen
         /\ Post(s, c).session = s.session
<1>1. s.calls \in Seq(SentCall)
  BY DEF Page
<1>2. /\ Append(s.calls, c) \in Seq(SentCall)
      /\ Len(Append(s.calls, c)) = Len(s.calls) + 1
      /\ \A i \in 1..Len(s.calls) : Append(s.calls, c)[i] = s.calls[i]
      /\ Append(s.calls, c)[Len(s.calls) + 1] = c
      /\ Len(s.calls) \in Nat
  BY <1>1
<1>3. /\ Post(s, c) \in Page /\ Post(s, c).calls = Append(s.calls, c)
      /\ Post(s, c).request = s.request /\ Post(s, c).offer = s.offer
      /\ Post(s, c).open = s.open /\ Post(s, c).screen = s.screen
      /\ Post(s, c).session = s.session
  BY <1>2 DEF Post, Page
<1>4. QED
  BY <1>2, <1>3 DEF Outstanding

\* It forgets no request.
LEMMA SentResumes ==
  ASSUME NEW s \in Page, NEW c \in SentCall
  PROVE  /\ \A v : Resumes(s, v) => Resumes(Post(s, c), v)
         /\ c.heard /\ (\A i \in Outstanding(s) : s.calls[i].heard)
              => \A i \in Outstanding(Post(s, c)) : Post(s, c).calls[i].heard
<1> DEFINE r == Post(s, c)
<1>1. /\ Outstanding(r) = Outstanding(s) \cup {Len(s.calls) + 1}
      /\ \A i \in Outstanding(s) : r.calls[i] = s.calls[i]
      /\ r.calls[Len(s.calls) + 1] = c
      /\ r.request = s.request /\ r.offer = s.offer /\ r.screen = s.screen
  BY Sent
<1>2. \A op : Under(s, op) => Under(r, op)
  BY <1>1 DEF Under
<1>3. QED
  <2> HIDE DEF r
  <2> QED
    BY <1>1, <1>2 DEF Resumes, Polite, Waiting, r

\* A call for the promise p of an offer nobody else holds.
LEMMA SentForOffer ==
  ASSUME NEW s \in Page, NEW c \in SentCall, c.op \in OfferOps, c.heard,
         Asking(s) = {}, s.offer = None,
         NEW r \in Page, r.calls = Post(s, c).calls, r.request = s.request, r.offer = None,
         Promise("offer", c.ask) \in r.open,
         \A p \in r.open : InHand(s, p) \/ p = Promise("offer", c.ask),
         \A p, q \in r.open : p.kind = "offer" /\ q.kind = "offer" => p = q
  PROVE  Kept(r)
<1> DEFINE n == Len(s.calls) + 1
<1>1. Asking(r) = {n} /\ r.calls[n] = c
  <2>1. /\ Outstanding(r) = Outstanding(s) \cup {n} /\ r.calls[n] = c
        /\ \A i \in Outstanding(s) : r.calls[i] = s.calls[i]
    BY Sent DEF Outstanding
  <2>2. QED
    <3> HIDE DEF n
    <3> QED
      BY <2>1 DEF Asking
<1>2. \A p \in r.open : InHand(r, p)
  <2> SUFFICES ASSUME NEW p \in r.open PROVE InHand(r, p)
    OBVIOUS
  <2>1. CASE InHand(s, p)
    BY <2>1 DEF InHand
  <2>2. CASE p = Promise("offer", c.ask)
    BY <1>1, <2>2 DEF InHand
  <2>3. QED
    BY <2>1, <2>2
<1>3. QED
  BY <1>1, <1>2 DEF Kept

\* A host offers a wallet: no other offer has a promise open (element.ts, offerInFlight).
LEMMA OfferNwcKeeps == ASSUME Inv, OfferNwc PROVE Inv'
<1> DEFINE id == asks.made + 1
           c == [Call("offer_status", None) EXCEPT !.ask = id]
           p == Promise("offer", id)
           s == Post(el, c)
<1>1. /\ Room /\ el.request = None /\ el.offer = None /\ ~ Offering
      /\ worker' = worker /\ el \in Page
      /\ id \in Ids /\ Tallied' /\ asks'.faults = asks.faults
      /\ el' = [s EXCEPT !.open = @ \cup {p}]
  BY AskIsTyped DEF OfferNwc, StartOffer, Ask, Inv, TypeOK
<1>2. c \in SentCall /\ c.op \in OfferOps /\ c.heard /\ c.ask = id
  BY <1>1 DEF Call, SentCall, OfferCall, OfferOps, Someone
<1>3. p \in [kind : {"request", "offer"}, id : Ids] /\ p.kind = "offer"
  BY <1>1 DEF Promise
<1>4. /\ s \in Page /\ Len(s.calls) = Len(el.calls) + 1 /\ Len(el.calls) \in Nat
      /\ s.request = None /\ s.offer = None /\ s.open = el.open /\ s.screen = el.screen
      /\ s.session = el.session
  <2> HIDE DEF c
  <2> QED
    BY <1>1, <1>2, Sent
<1>5. /\ el' \in Page /\ el'.calls = s.calls /\ el'.request = None /\ el'.offer = None
      /\ el'.open = el.open \cup {p} /\ el'.screen = el.screen /\ el'.session = el.session
  <2> HIDE DEF s, p
  <2> QED
    BY <1>1, <1>3, <1>4 DEF Page
<1>6. TypeOK'
  <2>1. Len(el'.calls) <= MaxCalls
    BY <1>1, <1>4, <1>5, ElementAssumption DEF Room
  <2>2. QED
    BY <1>1, <1>5, <2>1 DEF Inv, TypeOK, Tallied
<1>7. Asking(el) = {}
  <2>1. \A i \in Asking(el) : Promise("offer", el.calls[i].ask) \in el.open
    BY DEF Inv, Kept
  <2>2. QED
    BY <1>1, <2>1 DEF Offering, Promise
<1>8. Kept(el)'
  <2>1. \A q \in el.open : InHand(el, q) /\ q.kind # "offer"
    BY <1>1 DEF Inv, Kept, Offering
  <2> HIDE DEF c, p, s
  <2>2. PICK r : r = el'
    OBVIOUS
  <2>3. Kept(r)
    BY <1>1, <1>2, <1>5, <1>7, <2>1, <2>2, SentForOffer DEF p, s
  <2>4. QED
    BY <2>2, <2>3 DEF Kept, InHand, Asking, Outstanding
<1>9. Smooth => Smooth'
  <2> SUFFICES ASSUME Smooth PROVE Smooth'
    OBVIOUS
  <2> HIDE DEF c
  <2>1. Resumes(s, worker.vault) /\ \A i \in Outstanding(s) : s.calls[i].heard
    BY <1>1, <1>2, SentResumes DEF Smooth
  <2>2. QED
    <3> HIDE DEF s
    <3> QED
      BY <1>1, <1>4, <1>5, <2>1
      DEF Smooth, Shown, Resumes, Polite, Waiting, Under, Outstanding
<1>10. QED
  BY <1>1, <1>6, <1>8, <1>9 DEF Inv

-----------------------------------------------------------------------------
(* The request.                                                              *)

\* What a handler that reads the worker knows.
LEMMA Reading ==
  ASSUME Inv, el.calls # <<>>, UNCHANGED worker
  PROVE  /\ Rest \in Page /\ Rest.session = el.session /\ worker' \in Worker
         /\ Alike(Rest, Rest) /\ \A v : Resumes(el, v) => Polite(Rest)
  BY Answering, Idles, RestResumes DEF Inv, Served

\* Is anybody signed in?  If not, the request goes to the sign-in.
LEMMA RequestStatusKeeps == ASSUME Inv, RequestStatus, UNCHANGED asks PROVE Inv'
<1>1. el.calls # <<>> /\ Asked.op \notin OfferOps /\ UNCHANGED worker
  BY DEF RequestStatus, Answers, OfferOps, Read
<1>2. CASE Hear(Goto(Rest, "login"))
  <2>1. "login" \in Screens
    BY DEF Screens
  <2>2. QED
    BY <1>1, <1>2, <2>1, Reading, AnswerGoes
<1>3. CASE Hear(ContinueVaultRequest(Rest))
  <2> DEFINE r == ContinueVaultRequest(Rest)
  <2>1. /\ Follows(Rest, r) /\ ~ Waiting(r)
        /\ r.offer = Rest.offer /\ r.session = Rest.session /\ r.screen = Rest.screen
        /\ r.request # None => Under(r, "vault_status")
    BY <1>1, Reading, Continued
  <2>2. Polite(Rest) => \A v : Resumes(r, v)
    <3> HIDE DEF r
    <3> QED
      BY <2>1 DEF Resumes, Polite
  <2>3. QED
    <3> HIDE DEF r
    <3> QED
      BY <1>1, <1>3, <2>1, <2>2, Reading, AnswerKeeps DEF r
<1>4. QED
  BY <1>2, <1>3 DEF RequestStatus

\* Is there a vault?
LEMMA VaultStatusKeeps == ASSUME Inv, VaultStatus, UNCHANGED asks PROVE Inv'
<1>1. /\ el.calls # <<>> /\ Asked.op \notin OfferOps /\ UNCHANGED worker
      /\ Asked.op = "vault_status" /\ "vault-import" \in Screens
  BY DEF VaultStatus, Answers, OfferOps, Read, Screens
<1>2. CASE worker.vault /\ Hear(Post([Rest EXCEPT !.unsaved = FALSE], Call("find", None)))
  <2> DEFINE m == [Rest EXCEPT !.unsaved = FALSE]
             c == Call("find", None)
             r == Post(m, c)
  <2>1. Alike(Rest, m) /\ m.session = el.session /\ Rest \in Page
    BY <1>1, Reading DEF Alike, Page
  <2>2. c \in FreshCall /\ c.op = "find"
    BY CallIsFresh DEF OtherOps, Someone
  <2>3. /\ Follows(Rest, r) /\ r.session = m.session /\ Under(r, "find")
        /\ \A op : Under(Rest, op) => Under(r, op)
        /\ r.request = Rest.request /\ r.offer = Rest.offer /\ r.screen = Rest.screen
    <3> HIDE DEF m, c
    <3> QED
      BY <2>1, <2>2, PostFollows
  <2>4. Resumes(el, worker.vault) => Resumes(r, worker.vault)
    <3>1. \A op : Under(el, op) /\ op # "vault_status" => Under(r, op)
      BY <1>1, <2>3, RestUnder DEF Inv, Served
    <3>2. r.request = el.request /\ r.offer = el.offer /\ r.screen = el.screen
      BY <1>1, <2>3, RestOfQueue DEF Inv, Served
    <3> HIDE DEF r
    <3>3. QED
      BY <1>2, <2>3, <3>1, <3>2 DEF Resumes, Polite, Waiting
  <2>5. QED
    <3> HIDE DEF r, m
    <3> QED
      BY <1>1, <1>2, <2>1, <2>3, <2>4, Reading, AnswerKeeps DEF r, m
<1>3. CASE Hear(Goto([Rest EXCEPT !.unsaved = TRUE], "vault-import"))
  <2> DEFINE m == [Rest EXCEPT !.unsaved = TRUE]
  <2>1. Alike(Rest, m) /\ m.session = el.session
    BY <1>1, Reading DEF Alike, Page
  <2>2. QED
    <3> HIDE DEF m
    <3> QED
      BY <1>1, <1>3, <2>1, Reading, AnswerGoes DEF m
<1>4. QED
  BY <1>2, <1>3 DEF VaultStatus

\* Is there a wallet for this origin?
LEMMA FindKeeps == ASSUME Inv, Find, UNCHANGED asks PROVE Inv'
<1>1. /\ el.calls # <<>> /\ Asked.op \notin OfferOps /\ UNCHANGED worker
      /\ "vault-import" \in Screens /\ "vault-consent" \in Screens
  BY DEF Find, Answers, OfferOps, Read, Screens
<1> DEFINE m == [Rest EXCEPT !.candidate = TRUE]
<1>2. Alike(Rest, m) /\ m.session = el.session
  BY <1>1, Reading DEF Alike, Page
<1>3. Hear(Goto(m, "vault-consent")) \/ Hear(Goto(Rest, "vault-import"))
  BY DEF Find, Found
<1>4. QED
  <2> HIDE DEF m
  <2> QED
    BY <1>1, <1>2, <1>3, Reading, AnswerGoes

\* The user shares it,
LEMMA ApproveKeeps == ASSUME Inv, Approve PROVE Inv'
<1>1. Call("reveal", None) \in FreshCall
  BY CallIsFresh DEF OtherOps, Someone
<1>2. QED
  BY <1>1, Idles, StartKeeps DEF Approve, Inv, TypeOK

\* wants another one,
LEMMA DifferentKeeps == ASSUME Inv, Different PROVE Inv'
<1> DEFINE m == [el EXCEPT !.candidate = FALSE]
<1>1. Alike(el, m) /\ m.session = el.session
  BY DEF Alike, Inv, TypeOK, Page
<1>2. Click(Goto(m, "vault-import")) /\ "vault-import" \in Screens
  BY DEF Different, Screens
<1>3. QED
  <2> HIDE DEF m
  <2> QED
    BY <1>1, <1>2, ClickGoes DEF Click

\* A request that is finished from an alike page.
LEMMA EndsRequest ==
  ASSUME NEW s \in Page, NEW m, Alike(s, m)
  PROVE  LET f == FinishVaultRequest(m) IN
         /\ Follows(s, f) /\ f.calls = s.calls /\ f.session = m.session
         /\ \A v : Resumes(s, v) => Resumes(f, v)
         /\ Polite(s) => Polite(f)
<1>1. /\ m \in Page /\ m.calls = s.calls /\ Follows(s, m) /\ (Polite(s) => Polite(m))
      /\ \A v : Resumes(s, v) => Resumes(m, v)
  BY AlikeKept DEF Alike, Polite
<1> DEFINE f == FinishVaultRequest(m)
<1>2. /\ Follows(m, f) /\ f.calls = m.calls /\ f.session = m.session
      /\ \A v : Resumes(m, v) => Resumes(f, v)
      /\ (Polite(m) => Polite(f))
  BY <1>1, FinishedRequest DEF Resumes
<1>3. QED
  BY <1>1, <1>2, FollowsThen

\* or cancels.
LEMMA CancelKeeps == ASSUME Inv, Cancel PROVE Inv'
<1> DEFINE f == FinishVaultRequest(el)
<1>1. /\ Follows(el, f) /\ f.calls = el.calls /\ f.session = el.session
      /\ (\A v : Resumes(el, v) => Resumes(f, v)) /\ Tallied'
  BY Idles, EndsRequest DEF Inv, TypeOK, Tallied, Cancel, Click
<1>2. QED
  BY <1>1, ClickKeeps DEF Cancel, Click

\* Whichever request is there is settled.
LEMMA GrantedKeeps ==
  ASSUME Inv, el.calls # <<>>, Asked.op \notin OfferOps, Hear(Granted(Rest)),
         UNCHANGED <<worker, asks>>
  PROVE  Inv'
<1> DEFINE i == Idle(Rest)
           f == FinishVaultRequest(i)
           r == Goto(f, f.screen)
<1>1. /\ Rest \in Page /\ Alike(Rest, i) /\ i.session = el.session
      /\ \A v : Resumes(el, v) => Polite(Rest)
  BY Reading, Idles
<1>2. /\ Follows(Rest, f) /\ f.calls = Rest.calls /\ f.session = el.session
      /\ (Polite(Rest) => Polite(f)) /\ f \in Page
  <2> HIDE DEF i
  <2> QED
    BY <1>1, EndsRequest DEF Follows
<1>3. f.screen \in Screens
  BY <1>2 DEF Page
<1>4. /\ Follows(f, r) /\ r.session = f.session
      /\ Polite(f) => \A v : Resumes(r, v)
  <2> HIDE DEF f
  <2> QED
    BY <1>2, <1>3, Gone
<1>5. Hear(r)
  BY DEF Granted, Flash
<1>6. QED
  <2> HIDE DEF f, r
  <2>1. Follows(Rest, r)
    BY <1>2, <1>4, FollowsThen
  <2>2. QED
    BY <1>1, <1>2, <1>4, <1>5, <2>1, Reading, AnswerKeeps

\* The wallet is revealed,
LEMMA RevealKeeps == ASSUME Inv, Reveal, UNCHANGED asks PROVE Inv'
<1>1. el.calls # <<>> /\ Asked.op \notin Settling /\ UNCHANGED worker
  BY DEF Reveal, Answers, Settling, OfferOps, Navigates, Read
<1>2. QED
  BY <1>1, Answering, Idles, FailKeeps, GrantedKeeps DEF Reveal, Settling

\* or a new one saved.
LEMMA SaveRequestKeeps == ASSUME Inv, SaveRequest, UNCHANGED asks PROVE Inv'
<1>1. el.calls # <<>> /\ Asked.op \notin Settling /\ UNCHANGED worker
  BY DEF SaveRequest, Answers, Settling, OfferOps, Navigates, Read
<1>2. QED
  BY <1>1, Answering, Idles, FailKeeps, GrantedKeeps DEF SaveRequest, Settling

\* What the import form and the wallet chooser end with.
LEMMA SaveAndShareFollows ==
  ASSUME NEW s \in Page, NEW m, Alike(s, m)
  PROVE  LET r == SaveAndShare(m) IN
         /\ Follows(s, r) /\ r.session = m.session
         /\ \A v : Resumes(s, v) => Resumes(r, v)
<1>1. CASE m.request = None
  BY <1>1, AlikeKept DEF SaveAndShare
<1>2. CASE m.request # None /\ m.unsaved
  <2>1. Alike(s, Idle(m)) /\ Idle(m).session = m.session
    BY DEF Alike, Idle, Page
  <2>2. SaveAndShare(m) = FinishVaultRequest(Idle(m))
    BY <1>2 DEF SaveAndShare
  <2>3. QED
    BY <2>1, <2>2, EndsRequest
<1>3. CASE m.request # None /\ ~ m.unsaved
  <2>1. Call("save_request", None) \in FreshCall
    BY CallIsFresh DEF OtherOps, Someone
  <2>2. SaveAndShare(m) = Post(m, Call("save_request", None))
    BY <1>3 DEF SaveAndShare
  <2>3. QED
    BY <2>1, <2>2, PostFollows
<1>4. QED
  BY <1>1, <1>2, <1>3 DEF Alike, Page

\* It keeps the invariant,
LEMMA SaveAndShareKeeps ==
  ASSUME Inv, Room, NEW m, Alike(el, m), m.session = el.session, el' = SaveAndShare(m),
         UNCHANGED <<worker, asks>>
  PROVE  Inv'
<1>1. el \in Page /\ Tallied'
  BY DEF Inv, TypeOK, Tallied
<1>2. QED
  BY <1>1, SaveAndShareFollows, ClickKeeps

\* from the form,
LEMMA ImportSubmitKeeps == ASSUME Inv, ImportSubmit PROVE Inv'
<1> DEFINE m == [el EXCEPT !.busy = TRUE]
<1>1. Alike(el, m) /\ m.session = el.session
  BY DEF Alike, Inv, TypeOK, Page
<1>2. QED
  <2> HIDE DEF m
  <2> QED
    BY <1>1, SaveAndShareKeeps DEF ImportSubmit, Click, m

\* and the chooser, which opens
LEMMA OpenChooserKeeps == ASSUME Inv, OpenChooser PROVE Inv'
<1> DEFINE m == [el EXCEPT !.busy = TRUE, !.prompts = @ \cup {"chooser"}]
<1>1. Alike(el, m) /\ m.session = el.session
  BY DEF Alike, Inv, TypeOK, Page
<1>2. QED
  <2> HIDE DEF m
  <2> QED
    BY <1>1, ClickStays DEF OpenChooser, Click, m

\* and closes.
LEMMA ChooserClosesKeeps == ASSUME Inv, ChooserCloses PROVE Inv'
  BY ClosedIsAlike, ClickStays, SaveAndShareKeeps DEF ChooserCloses

-----------------------------------------------------------------------------
(* The offer, and managing the connections.                                  *)

\* The answer to an offer's call is about the one promise of an offer there is.
LEMMA OfferInHand ==
  ASSUME Inv, el.calls # <<>>, Asked.op \in OfferOps, Asked.heard
  PROVE  /\ Asking(Rest) = {} /\ Rest.offer = None
         /\ Promise("offer", Asked.ask) \in Rest.open
         /\ \A p \in Rest.open : InHand(Rest, p) \/ p = Promise("offer", Asked.ask)
         /\ \A p, q \in Rest.open : p.kind = "offer" /\ q.kind = "offer" => p = q
<1>1. Served
  BY DEF Inv, Served
<1>2. 1 \in Asking(el) /\ Asked = el.calls[1]
  BY <1>1, RestOfQueue DEF Asking
<1>3. Asking(el) = {1}
  BY <1>2 DEF Inv, Kept
<1>4. Asking(Rest) = {}
  <2> SUFFICES ASSUME NEW i \in Asking(Rest) PROVE FALSE
    OBVIOUS
  <2>1. i + 1 \in Asking(el) /\ i \in Nat /\ i >= 1
    BY <1>1, RestOfQueue DEF Asking, Outstanding
  <2>2. QED
    BY <1>3, <2>1
<1>5. Rest.open = el.open /\ Rest.offer = el.offer /\ Rest.request = el.request
  BY <1>1, RestOfQueue
<1>6. el.offer = None /\ Promise("offer", Asked.ask) \in el.open
  BY <1>2 DEF Inv, Kept
<1>7. \A p \in Rest.open : InHand(Rest, p) \/ p = Promise("offer", Asked.ask)
  BY <1>2, <1>3, <1>5 DEF Inv, Kept, InHand
<1>8. QED
  BY <1>4, <1>5, <1>6, <1>7 DEF Inv, Kept

\* What every handler of an offer's answer knows.
LEMMA OfferServed ==
  ASSUME Inv, el.calls # <<>>, Asked.op \in OfferOps
  PROVE  /\ Rest \in Page /\ Rest.session = el.session
         /\ Len(Rest.calls) + 1 = Len(el.calls) /\ Len(Rest.calls) \in Nat
         /\ Asked \in OfferCall /\ Asked.ask \in Ids /\ worker \in Worker
         /\ Smooth => /\ Resumes(Rest, worker.vault)
                      /\ \A i \in Outstanding(Rest) : Rest.calls[i].heard
<1>1. Served
  BY DEF Inv, Served
<1>2. Asked.op \notin Navigates
  BY DEF OfferOps, Navigates
<1>3. Smooth => /\ Resumes(Rest, worker.vault)
                /\ \A i \in Outstanding(Rest) : Rest.calls[i].heard
  BY <1>1, <1>2, RestResumes, RestHeard DEF Smooth, Navigates
<1>4. QED
  BY <1>1, <1>3, RestOfQueue, SentCalls DEF Inv, TypeOK, Worker

\* An offer's promise is settled, and no other.
LEMMA SettlesOffer ==
  ASSUME NEW s \in Page, NEW id
  PROVE  LET m == Settle(s, "offer", id) IN
         /\ m \in Page /\ m.calls = s.calls /\ m.session = s.session /\ m.screen = s.screen
         /\ m.request = s.request /\ m.offer = s.offer
         /\ m.open = s.open \ {Promise("offer", id)}
  BY DEF Settle, Page

\* An offer that cannot be shown is settled,
LEMMA UnavailableKeeps ==
  ASSUME Inv, el.calls # <<>>, Asked.op \in OfferOps, Hear(Settle(Rest, "offer", Asked.ask)),
         UNCHANGED worker, Tallied', asks'.faults = 0 => asks.faults = 0
  PROVE  Inv'
<1> DEFINE r == Settle(Rest, "offer", Asked.ask)
<1>1. /\ r \in Page /\ r.calls = Rest.calls /\ r.session = Rest.session /\ r.screen = Rest.screen
      /\ r.request = Rest.request /\ r.offer = Rest.offer
      /\ r.open = Rest.open \ {Promise("offer", Asked.ask)}
  BY OfferServed, SettlesOffer
<1> HIDE DEF r
<1>2. Asked.heard => Kept(r)
  <2> SUFFICES ASSUME Asked.heard PROVE Kept(r)
    OBVIOUS
  <2>1. Asking(r) = {}
    BY <1>1, OfferInHand DEF Asking, Outstanding
  <2>2. \A p \in r.open : InHand(r, p)
    BY <1>1, OfferInHand, <2>1 DEF InHand
  <2>3. QED
    BY <1>1, <2>1, <2>2, OfferInHand DEF Kept
<1>3. Smooth => /\ \A i \in Outstanding(r) : r.calls[i].heard
                /\ Shown(r.session, worker'.signer)
                /\ Resumes(r, worker'.vault)
  BY <1>1, OfferServed DEF Outstanding, Smooth, Resumes, Polite, Waiting, Under
<1>4. Hear(r) /\ Len(r.calls) <= Len(el.calls) /\ worker' \in Worker
  BY <1>1, OfferServed DEF r
<1>5. QED
  BY <1>1, <1>2, <1>3, <1>4, HearKeeps

\* one that needs another call hands its promise on,
LEMMA NextKeeps ==
  ASSUME Inv, el.calls # <<>>, Asked.op \in OfferOps, NEW op \in OfferOps,
         Hear(NextOf(Rest, op)), UNCHANGED <<worker, asks>>
  PROVE  Inv'
<1> DEFINE c == [Asked EXCEPT !.op = op]
           r == Post(Rest, c)
<1>1. c \in SentCall /\ c.op = op /\ c.ask = Asked.ask /\ c.heard = Asked.heard
  BY OfferServed DEF OfferCall, SentCall
<1>2. Hear(r)
  BY DEF NextOf
<1> HIDE DEF c
<1>3. /\ r \in Page /\ Len(r.calls) <= Len(el.calls)
      /\ r.request = Rest.request /\ r.offer = Rest.offer /\ r.open = Rest.open
      /\ r.session = Rest.session
  BY <1>1, OfferServed, Sent
<1>4. Asked.heard => Kept(r)
  <2> SUFFICES ASSUME Asked.heard PROVE Kept(r)
    OBVIOUS
  <2>1. r.calls = Post(Rest, c).calls
    OBVIOUS
  <2> HIDE DEF r
  <2>2. QED
    BY <1>1, <1>3, <2>1, OfferServed, OfferInHand, SentForOffer
<1>5. Smooth => Asked.heard
  BY RestHeard DEF Inv, Served
<1>6. Smooth => /\ \A i \in Outstanding(r) : r.calls[i].heard
                /\ Shown(r.session, worker'.signer)
                /\ Resumes(r, worker'.vault)
  <2> SUFFICES ASSUME Smooth PROVE /\ \A i \in Outstanding(r) : r.calls[i].heard
                                   /\ Shown(r.session, worker'.signer)
                                   /\ Resumes(r, worker'.vault)
    OBVIOUS
  <2>1. Resumes(Rest, worker.vault) /\ \A i \in Outstanding(Rest) : Rest.calls[i].heard
    BY OfferServed
  <2>2. Shown(r.session, worker'.signer)
    BY <1>3, OfferServed DEF Smooth
  <2>3. QED
    BY <1>1, <1>5, <2>1, <2>2, OfferServed, SentResumes
<1>7. QED
  <2> HIDE DEF r
  <2> QED
    BY <1>2, <1>3, <1>4, <1>6, OfferServed, HearKeeps DEF Inv, TypeOK, Tallied

\* and one that is shown puts it in the slot.
LEMMA AppearsKeeps ==
  ASSUME Inv, el.calls # <<>>, Asked.op \in OfferOps,
         Hear(Goto([Rest EXCEPT !.offer = Asked.ask], "vault-offer")), UNCHANGED <<worker, asks>>
  PROVE  Inv'
<1> DEFINE m == [Rest EXCEPT !.offer = Asked.ask]
           r == Show(m, "vault-offer")
<1>1. /\ m \in Page /\ m.calls = Rest.calls /\ m.open = Rest.open /\ m.request = Rest.request
      /\ m.offer = Asked.ask /\ m.session = Rest.session /\ m.offer # None
  BY OfferServed, RequestsArePending DEF Page
<1>2. Hear(r)
  BY DEF Goto
<1>3. Asked.heard => Kept(m)
  <2> SUFFICES ASSUME Asked.heard PROVE Kept(m)
    OBVIOUS
  <2> HIDE DEF m
  <2>1. Asking(m) = {}
    BY <1>1, OfferInHand DEF Asking, Outstanding
  <2>2. \A p \in m.open : p # Promise("offer", None)
    BY <1>1, RequestsArePending DEF Page, Promise
  <2>3. \A p \in m.open : InHand(m, p)
    BY <1>1, <2>1, <2>2, OfferInHand DEF InHand
  <2>4. QED
    BY <1>1, <2>1, <2>3, OfferInHand DEF Kept
<1>4. /\ Follows(m, r) /\ r.calls = m.calls /\ r.session = m.session /\ r.screen = "vault-offer"
  <2> HIDE DEF m
  <2> QED
    BY <1>1, Shows DEF Screens
<1> HIDE DEF m, r
<1>5. Asked.heard => Kept(r)
  BY <1>3, <1>4 DEF Follows
<1>6. r \in Page /\ Len(r.calls) <= Len(el.calls)
  BY <1>1, <1>4, OfferServed DEF Follows
<1>7. Smooth => /\ \A i \in Outstanding(r) : r.calls[i].heard
                /\ Shown(r.session, worker'.signer)
                /\ Resumes(r, worker'.vault)
  BY <1>1, <1>4, OfferServed DEF Outstanding, Smooth, Resumes, Polite
<1>8. QED
  BY <1>2, <1>5, <1>6, <1>7, OfferServed, HearKeeps DEF Inv, TypeOK, Tallied

\* Is anybody signed in?
LEMMA OfferStatusKeeps == ASSUME Inv, OfferStatus, UNCHANGED asks PROVE Inv'
<1>1. /\ el.calls # <<>> /\ Asked.op \in OfferOps /\ "offer_vault" \in OfferOps /\ UNCHANGED worker
      /\ Tallied'
  BY DEF OfferStatus, Answers, OfferOps, Read, Inv, TypeOK, Tallied
<1>2. QED
  BY <1>1, UnavailableKeeps, NextKeeps DEF OfferStatus, Unavailable

\* Is there a vault?
LEMMA OfferVaultKeeps == ASSUME Inv, OfferVault, UNCHANGED asks PROVE Inv'
<1>1. /\ el.calls # <<>> /\ Asked.op \in OfferOps /\ "offer_check" \in OfferOps /\ UNCHANGED worker
      /\ Tallied'
  BY DEF OfferVault, Answers, OfferOps, Read, Inv, TypeOK, Tallied
<1>2. QED
  BY <1>1, UnavailableKeeps, NextKeeps DEF OfferVault, Unavailable

\* Is the wallet there already?
LEMMA OfferCheckKeeps == ASSUME Inv, OfferCheck, UNCHANGED asks PROVE Inv'
<1>1. el.calls # <<>> /\ Asked.op \in OfferOps /\ UNCHANGED worker /\ Tallied'
  BY DEF OfferCheck, Answers, OfferOps, Read, Inv, TypeOK, Tallied
<1>2. QED
  BY <1>1, UnavailableKeeps, AppearsKeeps DEF OfferCheck, Unavailable

\* The user accepts,
LEMMA SaveOfferKeeps == ASSUME Inv, SaveOffer PROVE Inv'
<1>1. Call("save_offer", None) \in FreshCall
  BY CallIsFresh DEF OtherOps, Someone
<1>2. QED
  BY <1>1, Idles, StartKeeps DEF SaveOffer, Inv, TypeOK

\* or declines.
LEMMA DeclineOfferKeeps == ASSUME Inv, DeclineOffer PROVE Inv'
<1> DEFINE f == FinishVaultOffer(el)
<1>1. /\ Follows(el, f) /\ f.session = el.session
      /\ \A v : Resumes(el, v) => Resumes(f, v)
  BY FinishedOffer DEF Inv, TypeOK, Resumes
<1>2. Tallied'
  BY DEF Inv, TypeOK, Tallied, DeclineOffer, Click
<1>3. QED
  BY <1>1, <1>2, ClickKeeps DEF DeclineOffer, Click

\* The wallet is saved; its offer is settled.
LEMMA OfferSavedKeeps == ASSUME Inv, OfferSaved, UNCHANGED asks PROVE Inv'
<1> DEFINE i == Idle(Rest)
           f == FinishVaultOffer(i)
           r == Goto(f, f.screen)
<1>1. el.calls # <<>> /\ Asked.op \notin Settling /\ UNCHANGED worker
  BY DEF OfferSaved, Answers, Settling, OfferOps, Navigates, Read
<1>2. CASE Hear(Flash(f))
  <2>1. /\ Rest \in Page /\ Follows(Rest, i) /\ i.session = el.session /\ i.calls = Rest.calls
        /\ i \in Page /\ (Polite(Rest) => Polite(i))
        /\ \A v : Resumes(el, v) => Polite(Rest)
    BY <1>1, Reading, Idles, AlikeKept DEF Alike, Polite
  <2>2. /\ Follows(i, f) /\ f.session = i.session /\ f \in Page
        /\ (Polite(i) => Polite(f))
        /\ f.calls = i.calls \/ ~ Waiting(f)
    <3> HIDE DEF i
    <3> QED
      BY <2>1, FinishedOffer DEF Follows, Resumes
  <2>3. f.screen \in Screens
    BY <2>2 DEF Page
  <2>4. /\ Follows(f, r) /\ r.session = f.session
        /\ (Polite(f) => \A v : Resumes(r, v))
        /\ (~ Waiting(f) => r.calls = f.calls)
    <3> HIDE DEF f
    <3> QED
      BY <2>2, <2>3, Gone
  <2>5. Hear(r)
    BY <1>2 DEF Flash
  <2> HIDE DEF i, f, r
  <2>6. Follows(Rest, r)
    <3>1. Follows(i, r)
      BY <2>2, <2>4, FollowsThen
    <3>2. QED
      BY <2>1, <3>1, FollowsThen
  <2>7. Resumes(el, worker.vault) => Resumes(r, worker'.vault)
    BY <2>1, <2>2, <2>4
  <2>8. QED
    BY <1>1, <2>1, <2>2, <2>4, <2>5, <2>6, <2>7, Reading, AnswerKeeps DEF Settling
<1>3. CASE Hear(Fail(Rest))
  BY <1>1, <1>3, Answering, Idles, FailKeeps
<1>4. QED
  BY <1>2, <1>3 DEF OfferSaved

\* What the management screen does.
LEMMA ManageFollows ==
  ASSUME NEW s \in Page, NEW m, Alike(s, m)
  PROVE  LET r == LoadVaultManage(m) IN
         /\ Follows(s, r) /\ r.session = m.session
         /\ Polite(s) => \A v : Resumes(r, v)
<1> DEFINE g == Show(m, "vault-manage")
           c == Call("list", None)
           r == Post(g, c)
<1>1. LoadVaultManage(m) = r
  BY DEF LoadVaultManage, Goto
<1>2. c \in FreshCall
  BY CallIsFresh DEF OtherOps, Someone
<1>3. m \in Page /\ m.calls = s.calls /\ Follows(s, m)
  BY AlikeKept DEF Alike
<1>4. /\ Follows(m, g) /\ g \in Page /\ g.calls = m.calls /\ g.session = m.session
      /\ g.screen = "vault-manage"
  BY <1>3, Shows DEF Screens, Follows
<1>5. /\ Follows(g, r) /\ r.session = g.session /\ r.screen = g.screen
  <2> HIDE DEF g, c
  <2> QED
    BY <1>2, <1>4, Idles, PostFollows
<1> HIDE DEF g, r
<1>6. Follows(s, r) /\ \A v : Resumes(r, v)
  BY <1>3, <1>4, <1>5, FollowsThen DEF Resumes, Polite
<1>7. QED
  BY <1>1, <1>4, <1>5, <1>6

\* It is shown,
LEMMA VaultManageKeeps == ASSUME Inv, VaultManage PROVE Inv'
<1> DEFINE r == LoadVaultManage(el)
<1>1. /\ Follows(el, r) /\ r.session = el.session
      /\ \A v : Resumes(el, v) => Resumes(r, v)
  BY Idles, ManageFollows DEF Inv, TypeOK, Resumes
<1>2. Tallied'
  BY DEF Inv, TypeOK, Tallied, VaultManage, Click
<1>3. QED
  BY <1>1, <1>2, ClickKeeps DEF VaultManage, Click

\* filled,
LEMMA ListKeeps == ASSUME Inv, List, UNCHANGED asks PROVE Inv'
<1>1. el.calls # <<>> /\ Asked.op \notin Settling /\ UNCHANGED worker /\ Hear(Rest)
  BY DEF List, Answers, Settling, OfferOps, Navigates, Read
<1>2. QED
  BY <1>1, Answering, Idles, AnswerStays DEF Settling

\* and used
LEMMA UnbindKeeps == ASSUME Inv, Unbind PROVE Inv'
<1>1. Call("unbind", None) \in FreshCall
  BY CallIsFresh DEF OtherOps, Someone
<1>2. QED
  BY <1>1, Idles, StartKeeps DEF Unbind, Inv, TypeOK

\* to revoke an app's access.
LEMMA UnboundKeeps == ASSUME Inv, Unbound, UNCHANGED asks PROVE Inv'
<1> DEFINE r == LoadVaultManage(Idle(Rest))
<1>1. el.calls # <<>> /\ Asked.op \notin Settling /\ UNCHANGED worker
  BY DEF Unbound, Answers, Settling, OfferOps, Navigates, Read
<1>2. /\ Follows(Rest, r) /\ r.session = el.session
      /\ \A v, u : Resumes(el, v) => Resumes(r, u)
  BY <1>1, Reading, Idles, ManageFollows
<1>3. CASE Hear(r)
  BY <1>1, <1>2, <1>3, Reading, AnswerKeeps DEF Settling
<1>4. CASE Hear(Fail(Rest))
  BY <1>1, <1>4, Answering, Idles, FailKeeps
<1>5. QED
  BY <1>3, <1>4 DEF Unbound

\* Whatever happens to the wallet connections keeps the invariant.
LEMMA VaultKeeps ==
  ASSUME Inv, VaultClick \/ (VaultAnswer /\ UNCHANGED asks)
  PROVE  Inv'
<1>1. CASE VaultClick
  BY <1>1, ApproveKeeps, DifferentKeeps, CancelKeeps, ImportSubmitKeeps, OpenChooserKeeps,
     SaveOfferKeeps, DeclineOfferKeeps, VaultManageKeeps, UnbindKeeps
  DEF VaultClick
<1>2. CASE VaultAnswer /\ UNCHANGED asks
  BY <1>2, RequestStatusKeeps, VaultStatusKeeps, FindKeeps, RevealKeeps, SaveRequestKeeps,
     OfferStatusKeeps, OfferVaultKeeps, OfferCheckKeeps, OfferSavedKeeps, ListKeeps, UnboundKeeps
  DEF VaultAnswer
<1>3. QED
  BY <1>1, <1>2

-----------------------------------------------------------------------------
(* Faults.                                                                   *)

\* A fault is counted.
LEMMA FaultIsTallied ==
  ASSUME Inv, Fault
  PROVE  Tallied' /\ asks'.faults # 0
  BY ElementAssumption DEF Inv, TypeOK, Fault, Event, Tallied

\* A read that fails settles an offer's promise, or leaves a request on its screen.
LEMMA ReadFailsKeeps == ASSUME Inv, ReadFails PROVE Inv'
<1>1. /\ el.calls # <<>> /\ UNCHANGED worker /\ Hear(Rejected(Rest, Asked))
      /\ Asked.op \in OfferOps \/ Asked.op \in {"find", "vault_status"}
  BY DEF ReadFails, Answers, OfferOps
<1>2. Tallied' /\ (asks'.faults = 0 => asks.faults = 0)
  BY FaultIsTallied DEF ReadFails, Inv, TypeOK, Tallied
<1>3. asks'.faults = 0 => ~ worker.vault /\ Asked.op \in {"find", "offer_check"}
  BY FaultIsTallied DEF ReadFails
<1>4. CASE Asked.op \in OfferOps
  BY <1>1, <1>2, <1>4, UnavailableKeeps DEF Rejected
<1>5. CASE Asked.op \in {"find", "vault_status"}
  <2> DEFINE r == Idle(Rest)
  <2>1. Hear(r) /\ Asked.op \notin OfferOps
    BY <1>1, <1>5 DEF Rejected, Fail, OfferOps
  <2>2. /\ Rest \in Page /\ Alike(Rest, r) /\ r.session = el.session
        /\ Len(Rest.calls) + 1 = Len(el.calls) /\ Len(Rest.calls) \in Nat
        /\ worker' \in Worker /\ Kept(Rest) /\ Served
    BY <1>1, <2>1, Reading, Idles, RestOfQueue, RestKept DEF Inv, Served
  <2>3. /\ r \in Page /\ r.calls = Rest.calls /\ Kept(r)
        /\ \A v : Resumes(Rest, v) => Resumes(r, v)
    BY <2>2, AlikeKept DEF Alike, Follows
  <2>4. asks'.faults = 0 /\ Resumes(el, worker.vault) => Resumes(Rest, worker.vault)
    <3> SUFFICES ASSUME asks'.faults = 0, Resumes(el, worker.vault)
                 PROVE  Resumes(Rest, worker.vault)
      OBVIOUS
    <3>1. ~ worker.vault /\ Asked.op = "find"
      BY <1>3, <1>5, <2>1 DEF OfferOps
    <3>2. \A op : Under(el, op) /\ op # "find" => Under(Rest, op)
      BY <2>2, <3>1, RestUnder
    <3>3. /\ Rest.screen = el.screen /\ Rest.request = el.request /\ Rest.offer = el.offer
      BY <2>2, RestOfQueue
    <3>4. QED
      BY <3>1, <3>2, <3>3 DEF Resumes, Polite, Waiting
  <2>5. Smooth => \A i \in Outstanding(r) : r.calls[i].heard
    BY <2>2, <2>3, RestHeard DEF Outstanding
  <2> HIDE DEF r
  <2>6. QED
    BY <1>1, <1>2, <2>1, <2>2, <2>3, <2>4, <2>5, HearKeeps DEF Smooth
<1>6. QED
  BY <1>1, <1>4, <1>5

\* A call that is given up settles the promise it carried; its late answer settles
\* nothing.
LEMMA TimeOutKeeps == ASSUME Inv, TimeOut PROVE Inv'
<1>1. PICK i \in Outstanding(el) :
        /\ el.calls[i].heard
        /\ el' = Rejected(GiveUp(el, i), el.calls[i])
  BY DEF TimeOut, Outstanding
<1> DEFINE c == el.calls[i]
           d == [c EXCEPT !.heard = FALSE]
           q == [el.calls EXCEPT ![i] = d]
           m == GiveUp(el, i)
<1>2. Tallied' /\ asks'.faults # 0 /\ worker' = worker /\ el \in Page
  BY FaultIsTallied DEF TimeOut, Inv, TypeOK
<1>3. el.calls \in Seq(SentCall) /\ c \in SentCall
  BY <1>2 DEF Page, Outstanding
<1>4. d \in SentCall /\ ~ d.heard
  BY <1>3, SentCalls DEF SentCall, OfferCall, OtherCall
<1>5. /\ m \in Page /\ Len(m.calls) = Len(el.calls) /\ m.calls[i] = d
      /\ \A j \in Outstanding(el) : j # i => m.calls[j] = el.calls[j]
      /\ m.request = el.request /\ m.offer = el.offer /\ m.open = el.open
  <2>1. /\ q \in Seq(SentCall) /\ Len(q) = Len(el.calls) /\ q[i] = d
        /\ \A j \in Outstanding(el) : j # i => q[j] = el.calls[j]
    <3> HIDE DEF d
    <3> QED
      BY <1>3, <1>4 DEF Outstanding
  <2>2. m = [el EXCEPT !.calls = q]
    BY DEF GiveUp
  <2> HIDE DEF q, m, d
  <2>3. QED
    BY <1>2, <2>1, <2>2 DEF Page
<1>6. el' = Rejected(m, c)
  BY <1>1
<1> HIDE DEF d, m
<1>7. Asking(m) = Asking(el) \ {i}
  BY <1>4, <1>5 DEF Asking, Outstanding
<1>8. Len(el.calls) <= MaxCalls
  BY DEF Inv, TypeOK
<1>9. CASE c.op \in OfferOps
  <2> DEFINE r == Settle(m, "offer", c.ask)
  <2>1. /\ el' = r /\ r \in Page /\ r.calls = m.calls
        /\ r.request = m.request /\ r.offer = m.offer
        /\ r.open = m.open \ {Promise("offer", c.ask)}
    BY <1>5, <1>6, <1>9, SettlesOffer DEF Rejected
  <2>2. i \in Asking(el)
    BY <1>1, <1>9 DEF Asking
  <2>3. Asking(el) = {i} /\ el.offer = None
    BY <2>2 DEF Inv, Kept
  <2>4. Asking(r) = {}
    BY <1>7, <2>1, <2>3 DEF Asking, Outstanding
  <2>5. \A p \in r.open : InHand(r, p)
    BY <1>5, <2>1, <2>3, <2>4 DEF Inv, Kept, InHand
  <2>6. Kept(r)
    BY <1>5, <2>1, <2>3, <2>4, <2>5 DEF Inv, Kept
  <2> HIDE DEF r
  <2>7. Kept(el)'
    BY <2>1, <2>6 DEF Kept, InHand, Asking, Outstanding
  <2>8. QED
    BY <1>2, <1>5, <1>8, <2>1, <2>7 DEF Inv, TypeOK, Tallied
<1>10. CASE c.op \notin OfferOps
  <2>1. Alike(m, el')
    BY <1>5, <1>6, <1>10, Idles DEF Rejected, Fail
  <2>2. Asking(m) = Asking(el)
    BY <1>7, <1>10 DEF Asking
  <2>3. \A j \in Asking(el) : m.calls[j] = el.calls[j]
    BY <1>5, <1>7, <2>2 DEF Asking
  <2>4. \A p : InHand(el, p) => InHand(m, p)
    BY <1>5, <2>2, <2>3 DEF InHand
  <2>5. Kept(m)
    BY <1>5, <2>2, <2>3, <2>4 DEF Inv, Kept
  <2>6. PICK r : r = el'
    OBVIOUS
  <2>7. r \in Page /\ r.calls = m.calls /\ Kept(r)
    BY <1>5, <2>1, <2>5, <2>6, AlikeKept DEF Alike, Follows
  <2>8. Kept(el)'
    BY <2>6, <2>7 DEF Kept, InHand, Asking, Outstanding
  <2>9. QED
    BY <1>2, <1>5, <1>8, <2>6, <2>7, <2>8 DEF Inv, TypeOK, Tallied
<1>11. QED
  BY <1>9, <1>10

-----------------------------------------------------------------------------
(* The theorems.                                                             *)

\* It holds of a new element.
LEMMA InitInv == Init => Inv
<1> SUFFICES ASSUME Init PROVE Inv
  OBVIOUS
<1> DEFINE c == Call("configure", None)
<1>1. c \in FreshCall
  BY CallIsFresh DEF OtherOps, Someone
<1>2. Element \in Page /\ Element.calls = <<>>
  BY DEF Element, Page, Screens, Someone
<1>3. Outstanding(Element) = {}
  BY <1>2 DEF Outstanding
<1>4. Kept(Element)
  BY <1>3 DEF Kept, Asking, Element
<1>5. Alike(Element, Element) /\ el = Post(Element, c)
  BY <1>2, Idles DEF Init
<1> HIDE DEF c
<1>6. Follows(Element, el) /\ el.session = Element.session
  BY <1>1, <1>2, <1>5, PostFollows
<1>7. \A v : Resumes(Element, v) => Resumes(el, v)
  BY <1>1, <1>2, <1>5, PostFollows
<1>8. \A v : Resumes(Element, v)
  BY DEF Resumes, Polite, Waiting, Element
<1>9. Len(el.calls) = 1 /\ \A i \in Outstanding(el) : el.calls[i].heard
  <2>1. c \in SentCall /\ c.heard
    BY <1>1, FreshCalls
  <2>2. /\ Len(el.calls) = Len(Element.calls) + 1
        /\ Outstanding(el) = Outstanding(Element) \cup {Len(Element.calls) + 1}
        /\ el.calls[Len(Element.calls) + 1] = c
    BY <1>2, <1>5, <2>1, Sent
  <2>3. Len(Element.calls) = 0
    BY <1>2
  <2>4. QED
    BY <1>3, <2>1, <2>2, <2>3
<1>10. el \in Page /\ Kept(el)
  BY <1>4, <1>6 DEF Follows
<1>11. TypeOK
  <2>1. worker \in [signer : Someone, pend : BOOLEAN, vault : BOOLEAN]
    BY DEF Init, Locked, Someone
  <2>2. asks \in [made : Nat, faults : Nat] /\ asks.made + asks.faults <= MaxEvents
    BY ElementAssumption DEF Init
  <2>3. Len(el.calls) <= MaxCalls
    BY <1>9, ElementAssumption
  <2>4. QED
    BY <1>10, <2>1, <2>2, <2>3 DEF TypeOK
<1>12. Smooth
  BY <1>6, <1>7, <1>8, <1>9, ElementAssumption DEF Smooth, Shown, Element
<1>13. QED
  BY <1>10, <1>11, <1>12 DEF Inv

\* Every step keeps it: one case per group of actions.
LEMMA StepInv == Inv /\ [Next]_vars => Inv'
<1> SUFFICES ASSUME Inv, [Next]_vars PROVE Inv'
  OBVIOUS
<1>1. CASE UNCHANGED vars
  BY <1>1 DEF vars, Inv, TypeOK, Kept, InHand, Asking, Outstanding, Smooth, Shown, Resumes, Polite,
              Waiting, Under
<1>2. CASE SignInClick \/ VaultClick
  <2>1. CASE SignInClick
    BY <2>1, SignInKeeps
  <2>2. CASE VaultClick
    BY <2>2, VaultKeeps
  <2>3. QED
    BY <1>2, <2>1, <2>2
<1>3. CASE RequestNwc \/ OfferNwc
  BY <1>3, RequestNwcKeeps, OfferNwcKeeps
<1>4. CASE Answered
  BY <1>4, SignInKeeps, VaultKeeps, ReadFailsKeeps DEF Answered
<1>5. CASE Browser
  BY <1>5, CeremonyEndsKeeps, ExtensionAnswersKeeps, ChooserClosesKeeps DEF Browser
<1>6. CASE TimeOut
  BY <1>6, TimeOutKeeps
<1>7. QED
  BY <1>1, <1>2, <1>3, <1>4, <1>5, <1>6 DEF Next

\* Every open promise has one holder and every holder's promise is open; and while
\* nothing times out, the account shown is the one unlocked and no request is left behind
\* (element.ts).
THEOREM InvHolds == Spec => []Inv
  BY InitInv, StepInv, PTL DEF Spec

\* The type invariant that the run checks.  It says of the calls that those of an offer,
\* and they alone, name a promise.
THEOREM TypeCorrect == Spec => []TypeOK
<1>1. Inv => TypeOK
  BY DEF Inv
<1>2. QED
  BY <1>1, InvHolds, PTL

\* No promise a host holds is ever dropped: it stays with the request, the offer or a
\* call that will settle it, whatever times out, fails, is cancelled or overlaps
\* (element.ts:395-397).
THEOREM NoPromiseIsDropped == Spec => []PromisesKept
<1>1. Inv => PromisesKept
  <2> SUFFICES ASSUME Inv, NEW p \in el.open
               PROVE  \/ el.request # None /\ p = Promise("request", el.request.id)
                      \/ p = Promise("offer", el.offer)
                      \/ \E i \in 1..Len(el.calls) :
                           el.calls[i].heard /\ p = Promise("offer", el.calls[i].ask)
    BY DEF PromisesKept
  <2>1. InHand(el, p)
    BY DEF Inv, Kept
  <2>2. QED
    BY <2>1 DEF InHand, Asking, Outstanding
<1>2. QED
  BY <1>1, InvHolds, PTL

\* Once all calls have been answered, however late sign-ins, restores, recoveries and
\* logouts answer over one another, what a host has the element sign for the account
\* that is shown (element.ts:272-308) is signed by that account or, when an extension
\* was signed in before it, by the extension: never by another account.
THEOREM NoOtherAccountSignsHolds == Spec => []NoOtherAccountSigns
<1>1. Inv => NoOtherAccountSigns
  BY DEF Inv, Smooth, Shown, NoOtherAccountSigns, Signs
<1>2. QED
  BY <1>1, InvHolds, PTL

\* Who is on the welcome screen has nothing open, and who has reached the dashboard has
\* resumed the request that waited for it (element.ts:697-713).
THEOREM NothingIsLeftWaiting == Spec => []AskedFollowsSignIn
<1>1. Inv => AskedFollowsSignIn
  <2> SUFFICES ASSUME Inv, Quiet, asks.faults = 0
               PROVE  /\ On("welcome") => el.open = {}
                      /\ On("dashboard") => ~ Waiting(el)
    BY DEF AskedFollowsSignIn
  <2>1. Outstanding(el) = {}
    BY DEF Quiet, Outstanding
  <2>2. \A op : ~ Under(el, op)
    BY <2>1 DEF Under
  <2>3. Resumes(el, worker.vault) /\ el \in Page
    BY DEF Inv, Smooth, TypeOK
  <2>4. On("dashboard") => ~ Waiting(el)
    BY <2>2, <2>3 DEF Resumes, On
  <2>5. ASSUME On("welcome") PROVE el.open = {}
    <3>1. el.offer = None /\ el.request = None
      BY <2>2, <2>3, <2>5 DEF Resumes, Polite, On
    <3>2. \A p \in el.open : p = Promise("offer", None)
      BY <2>1, <3>1 DEF Inv, Kept, InHand, Asking
    <3>3. \A p \in el.open : p.id \in Ids
      BY <2>3 DEF Page
    <3>4. QED
      BY <3>2, <3>3, RequestsArePending DEF Promise
  <2>6. QED
    BY <2>4, <2>5
<1>2. QED
  BY <1>1, InvHolds, PTL
=============================================================================
