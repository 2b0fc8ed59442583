----------------------------- MODULE SignerProofs -----------------------------
(***************************************************************************)
(* Proofs about SignerSession, for any number of QR codes, pasted addresses   *)
(* and requests.                                                             *)
(***************************************************************************)
EXTENDS SignerSession, TLAPS

\* The message that makes the worker generate the key of leg l.
Birth(l) == IF l \in Scan THEN <<"start", l>> ELSE <<"connect", l>>

\* Nothing exists of a leg whose key was not generated.
Unborn(l) ==
  /\ stage[l] = "idle"
  /\ slot # l
  /\ \A m \in Leg : using[m] # l

\* The page posts the message that generates a key once, so that it finds
\* nothing of the leg in the worker: a key is generated once.
BornOnce ==
  /\ \A l \in Leg : flow[l] = "idle" => Unborn(l)
  /\ \A l \in Leg, i \in 1..Len(toWorker) :
       toWorker[i] = Birth(l) =>
         /\ flow[l] # "idle"
         /\ Unborn(l)
         /\ \A j \in 1..Len(toWorker) : toWorker[j] = Birth(l) => i = j

Has(s, m)  == \E i \in 1..Len(s) : s[i] = m
Once(s, m) == \A i, j \in 1..Len(s) : s[i] = m /\ s[j] = m => i = j

\* The worker answers the start of a QR leg once, and the page waits for it
\* once: the worker has the leg's key, and has not listened for it yet.
AwaitedOnce ==
  \A l \in Leg :
    /\ Once(toPage, <<"code", l>>)
    /\ Once(toWorker, <<"await", l>>)
    /\ Has(toPage, <<"code", l>>) =>
         stage[l] = "minted" /\ ~ Has(toWorker, <<"await", l>>)
    /\ Has(toWorker, <<"await", l>>) => stage[l] = "minted"

Inv ==
  /\ TypeOK
  /\ BornOnce
  /\ AwaitedOnce
  /\ NoOrphanKey
  /\ OwnKeyIntact
  /\ OneClient

LEMMA InitInv == Init => Inv
<1> SUFFICES ASSUME Init PROVE Inv
  OBVIOUS
<1>1. TypeOK
  <2>1. <<>> \in Seq(Asked) /\ <<>> \in Seq(Reply)
    OBVIOUS
  <2> QED BY <2>1 DEF Init, TypeOK
<1>2. BornOnce
  BY LegAssumption DEF Init, BornOnce, Unborn
<1>3. NoOrphanKey /\ OwnKeyIntact /\ OneClient
  BY LegAssumption DEF Init, NoOrphanKey, OwnKeyIntact, OneClient, Clients
<1>4. AwaitedOnce
  BY DEF Init, AwaitedOnce, Has, Once
<1> QED BY <1>1, <1>2, <1>3, <1>4 DEF Inv

-----------------------------------------------------------------------------
(* Messages.                                                                 *)

LEMMA Served ==
  ASSUME toWorker \in Seq(Asked), NEW m, Take(m)
  PROVE  /\ toWorker' \in Seq(Asked)
         /\ Len(toWorker) \in Nat \ {0}
         /\ toWorker[1] = m
         /\ Len(toWorker') = Len(toWorker) - 1
         /\ \A i \in 1..Len(toWorker') : i + 1 \in 1..Len(toWorker) /\ toWorker'[i] = toWorker[i + 1]
BY DEF Take

LEMMA Posted ==
  ASSUME toWorker \in Seq(Asked), NEW m \in Asked, Post(m)
  PROVE  /\ toWorker' \in Seq(Asked)
         /\ Len(toWorker') = Len(toWorker) + 1
         /\ toWorker'[Len(toWorker')] = m
         /\ \A i \in 1..Len(toWorker) : i \in 1..Len(toWorker') /\ toWorker'[i] = toWorker[i]
BY DEF Post

LEMMA AnswerPosted ==
  ASSUME toPage \in Seq(Reply), NEW kind \in {"code", "connected", "failed"}, NEW l \in Leg,
         Answer(kind, l)
  PROVE  toPage' \in Seq(Reply)
BY DEF Answer, Reply

LEMMA Received ==
  ASSUME toPage \in Seq(Reply), NEW kind, NEW l, Receive(kind, l)
  PROVE  toPage' \in Seq(Reply)
BY DEF Receive


LEMMA HasAppended ==
  ASSUME NEW S, NEW s \in Seq(S), NEW e \in S, NEW m
  PROVE  /\ Has(Append(s, e), m) <=> Has(s, m) \/ e = m
         /\ Once(s, m) /\ (e = m => ~ Has(s, m)) => Once(Append(s, e), m)
<1>1. /\ Len(s) \in Nat
      /\ Len(Append(s, e)) = Len(s) + 1
      /\ Append(s, e)[Len(s) + 1] = e
      /\ \A i \in 1..Len(s) : Append(s, e)[i] = s[i]
  OBVIOUS
<1>2. 1..(Len(s) + 1) = 1..Len(s) \cup {Len(s) + 1}
  BY <1>1
<1> QED BY <1>1, <1>2 DEF Has, Once

LEMMA HasLeft ==
  ASSUME NEW S, NEW s \in Seq(S), s # <<>>, NEW m
  PROVE  /\ Has(Tail(s), m) => Has(s, m)
         /\ Head(s) = m => Has(s, m)
         /\ Once(s, m) => Once(Tail(s), m)
         /\ Once(s, m) /\ Head(s) = m => ~ Has(Tail(s), m)
<1>1. /\ Len(s) \in Nat \ {0}
      /\ Head(s) = s[1]
      /\ Len(Tail(s)) = Len(s) - 1
      /\ \A i \in 1..(Len(s) - 1) : Tail(s)[i] = s[i + 1]
  OBVIOUS
<1>2. 1 \in 1..Len(s) /\ \A i \in 1..(Len(s) - 1) : i + 1 \in 1..Len(s) /\ i + 1 # 1
  BY <1>1
<1>3. \A i, j \in 1..(Len(s) - 1) : i + 1 = j + 1 => i = j
  BY <1>1
<1> QED BY <1>1, <1>2, <1>3 DEF Has, Once

\* What a message posted to the worker, or taken by it, does to the tokens.
LEMMA PostedToken ==
  ASSUME toWorker \in Seq(Asked), NEW e \in Asked, Post(e), NEW m
  PROVE  /\ Has(toWorker, m)' <=> Has(toWorker, m) \/ e = m
         /\ Once(toWorker, m) /\ (e = m => ~ Has(toWorker, m)) => Once(toWorker, m)'
BY HasAppended DEF Post

LEMMA TakenToken ==
  ASSUME toWorker \in Seq(Asked), NEW e, Take(e), NEW m
  PROVE  /\ Has(toWorker, m)' => Has(toWorker, m)
         /\ Has(toWorker, e)
         /\ Once(toWorker, m) => Once(toWorker, m)'
         /\ Once(toWorker, e) => ~ Has(toWorker, e)'
BY HasLeft DEF Take

LEMMA AnsweredToken ==
  ASSUME toPage \in Seq(Reply), NEW kind \in {"code", "connected", "failed"}, NEW l \in Leg,
         Answer(kind, l), NEW m
  PROVE  /\ Has(toPage, m)' <=> Has(toPage, m) \/ <<kind, l>> = m
         /\ Once(toPage, m) /\ (<<kind, l>> = m => ~ Has(toPage, m)) => Once(toPage, m)'
<1>1. <<kind, l>> \in Reply
  BY DEF Reply
<1> QED BY <1>1, HasAppended DEF Answer

LEMMA ReceivedToken ==
  ASSUME toPage \in Seq(Reply), NEW kind, NEW l, Receive(kind, l), NEW m
  PROVE  /\ Has(toPage, m)' => Has(toPage, m)
         /\ Has(toPage, <<kind, l>>)
         /\ Once(toPage, m) => Once(toPage, m)'
         /\ Once(toPage, <<kind, l>>) => ~ Has(toPage, <<kind, l>>)'
BY HasLeft DEF Receive

-----------------------------------------------------------------------------
(* The page never touches the worker's clients: what it posts is all there is *)
(* to show.                                                                 *)

LEMMA PageKeepsClients ==
  ASSUME Inv, UNCHANGED clients
  PROVE  NoOrphanKey' /\ OwnKeyIntact' /\ OneClient'
BY DEF Inv, clients, NoOrphanKey, OwnKeyIntact, OneClient, Clients

\* A task of the page that posts nothing.
LEMMA QuietKeepsBorn ==
  ASSUME Inv, UNCHANGED <<clients, toWorker>>,
         \A l \in Leg : flow'[l] = "idle" => flow[l] = "idle"
  PROVE  BornOnce'
<1>1. \A l \in Leg : Unborn(l)' <=> Unborn(l)
  BY DEF Unborn, clients
<1> QED BY <1>1 DEF Inv, BornOnce, Birth

\* A task of the page that posts m: the birth of a leg that was idle, or of none.
LEMMA PostKeepsBorn ==
  ASSUME Inv, UNCHANGED clients, NEW m \in Asked, Post(m),
         \A l \in Leg : flow'[l] = "idle" => flow[l] = "idle",
         \A l \in Leg : m = Birth(l) => flow[l] = "idle" /\ flow'[l] # "idle"
  PROVE  BornOnce'
<1>1. \A l \in Leg : Unborn(l)' <=> Unborn(l)
  BY DEF Unborn, clients
<1>2. /\ Len(toWorker) \in Nat
      /\ Len(toWorker') = Len(toWorker) + 1
      /\ toWorker'[Len(toWorker')] = m
      /\ \A i \in 1..Len(toWorker) : i \in 1..Len(toWorker') /\ toWorker'[i] = toWorker[i]
  BY Posted DEF Inv, TypeOK
<1>3. ASSUME NEW l \in Leg, NEW i \in 1..Len(toWorker'), toWorker'[i] = Birth(l)
      PROVE  /\ flow'[l] # "idle"
             /\ Unborn(l)
             /\ \A j \in 1..Len(toWorker') : toWorker'[j] = Birth(l) => i = j
  <2>1. CASE m = Birth(l)
    <3>1. \A j \in 1..Len(toWorker) : toWorker[j] # Birth(l)
      BY <2>1 DEF Inv, BornOnce
    <3> QED BY <1>2, <1>3, <2>1, <3>1 DEF Inv, BornOnce
  <2>2. CASE m # Birth(l)
    <3>1. i \in 1..Len(toWorker) /\ toWorker[i] = Birth(l)
      BY <1>2, <1>3, <2>2
    <3>2. flow[l] # "idle" /\ Unborn(l) /\ \A j \in 1..Len(toWorker) : toWorker[j] = Birth(l) => i = j
      BY <3>1 DEF Inv, BornOnce
    <3> QED BY <1>2, <2>2, <3>2
  <2> QED BY <2>1, <2>2
<1>4. \A l \in Leg : flow'[l] = "idle" => Unborn(l)
  BY DEF Inv, BornOnce
<1> QED BY <1>1, <1>3, <1>4 DEF BornOnce, Birth

\* The tokens of the QR legs: nothing but the start of a leg, the receipt of its
\* code and its listen touches them.
LEMMA PostKeepsAwaited ==
  ASSUME Inv, UNCHANGED <<stage, toPage>>, NEW e \in Asked, Post(e),
         \A l \in Leg : e # <<"await", l>>
  PROVE  AwaitedOnce'
<1> SUFFICES ASSUME NEW l \in Leg
             PROVE  /\ Once(toPage, <<"code", l>>)'
                    /\ Once(toWorker, <<"await", l>>)'
                    /\ Has(toPage, <<"code", l>>)' =>
                         stage'[l] = "minted" /\ ~ Has(toWorker, <<"await", l>>)'
                    /\ Has(toWorker, <<"await", l>>)' => stage'[l] = "minted"
  BY DEF AwaitedOnce
<1>1. /\ Has(toWorker, <<"await", l>>)' <=> Has(toWorker, <<"await", l>>)
      /\ Once(toWorker, <<"await", l>>) => Once(toWorker, <<"await", l>>)'
  BY PostedToken DEF Inv, TypeOK
<1> QED BY <1>1 DEF Inv, AwaitedOnce

LEMMA ReceiveKeepsAwaited ==
  ASSUME Inv, UNCHANGED <<stage, toWorker>>, NEW kind, NEW k, Receive(kind, k)
  PROVE  AwaitedOnce'
<1> SUFFICES ASSUME NEW l \in Leg
             PROVE  /\ Once(toPage, <<"code", l>>)'
                    /\ Once(toWorker, <<"await", l>>)'
                    /\ Has(toPage, <<"code", l>>)' =>
                         stage'[l] = "minted" /\ ~ Has(toWorker, <<"await", l>>)'
                    /\ Has(toWorker, <<"await", l>>)' => stage'[l] = "minted"
  BY DEF AwaitedOnce
<1>1. /\ Has(toPage, <<"code", l>>)' => Has(toPage, <<"code", l>>)
      /\ Once(toPage, <<"code", l>>) => Once(toPage, <<"code", l>>)'
  BY ReceivedToken DEF Inv, TypeOK
<1> QED BY <1>1 DEF Inv, AwaitedOnce

LEMMA ServeKeepsAwaited ==
  ASSUME Inv, UNCHANGED toPage, NEW e, Take(e),
         \A l \in Leg : stage[l] = "minted" => stage'[l] = "minted"
  PROVE  AwaitedOnce'
<1> SUFFICES ASSUME NEW l \in Leg
             PROVE  /\ Once(toPage, <<"code", l>>)'
                    /\ Once(toWorker, <<"await", l>>)'
                    /\ Has(toPage, <<"code", l>>)' =>
                         stage'[l] = "minted" /\ ~ Has(toWorker, <<"await", l>>)'
                    /\ Has(toWorker, <<"await", l>>)' => stage'[l] = "minted"
  BY DEF AwaitedOnce
<1>1. /\ Has(toWorker, <<"await", l>>)' => Has(toWorker, <<"await", l>>)
      /\ Once(toWorker, <<"await", l>>) => Once(toWorker, <<"await", l>>)'
  BY TakenToken DEF Inv, TypeOK
<1> QED BY <1>1 DEF Inv, AwaitedOnce

LEMMA AnswerKeepsAwaited ==
  ASSUME Inv, UNCHANGED toWorker, NEW kind \in {"connected", "failed"}, NEW k \in Leg,
         Answer(kind, k), \A l \in Leg : stage[l] = "minted" => stage'[l] = "minted"
  PROVE  AwaitedOnce'
<1> SUFFICES ASSUME NEW l \in Leg
             PROVE  /\ Once(toPage, <<"code", l>>)'
                    /\ Once(toWorker, <<"await", l>>)'
                    /\ Has(toPage, <<"code", l>>)' =>
                         stage'[l] = "minted" /\ ~ Has(toWorker, <<"await", l>>)'
                    /\ Has(toWorker, <<"await", l>>)' => stage'[l] = "minted"
  BY DEF AwaitedOnce
<1>0. <<kind, k>> # <<"code", l>>
  OBVIOUS
<1>1. /\ Has(toPage, <<"code", l>>)' <=> Has(toPage, <<"code", l>>)
      /\ Once(toPage, <<"code", l>>) => Once(toPage, <<"code", l>>)'
  BY <1>0, AnsweredToken DEF Inv, TypeOK
<1> QED BY <1>1 DEF Inv, AwaitedOnce

LEMMA QuietKeepsAwaited ==
  ASSUME Inv, UNCHANGED <<toWorker, toPage>>,
         \A l \in Leg : stage[l] = "minted" => stage'[l] = "minted"
  PROVE  AwaitedOnce'
BY DEF Inv, AwaitedOnce, Has, Once

LEMMA GotoBunkerInv ==
  ASSUME Inv, NEW l \in Scan, GotoBunker(l)
  PROVE  Inv'
<1> USE LegAssumption DEF GotoBunker
<1>0. NoOrphanKey' /\ OwnKeyIntact' /\ OneClient'
  BY PageKeepsClients
<1>1. <<"start", l>> \in Asked /\ Post(<<"start", l>>)
  BY DEF Asked, Leg
<1>2. TypeOK'
  BY <1>1, Posted DEF Inv, TypeOK, Leg, page, clients, requests
<1>3. BornOnce'
  BY <1>1, PostKeepsBorn DEF Inv, TypeOK, Birth, Leg, page
<1>4. AwaitedOnce'
  BY <1>1, PostKeepsAwaited DEF clients
<1> QED BY <1>0, <1>2, <1>3, <1>4 DEF Inv

LEMMA SubmitBunkerInv ==
  ASSUME Inv, NEW l \in Paste, SubmitBunker(l)
  PROVE  Inv'
<1> USE LegAssumption DEF SubmitBunker
<1>0. NoOrphanKey' /\ OwnKeyIntact' /\ OneClient'
  BY PageKeepsClients
<1>1. <<"connect", l>> \in Asked /\ Post(<<"connect", l>>)
  BY DEF Asked, Leg
<1>2. TypeOK'
  BY <1>1, Posted DEF Inv, TypeOK, Leg, page, clients, requests
<1>3. BornOnce'
  BY <1>1, PostKeepsBorn DEF Inv, TypeOK, Birth, Leg, page
<1>4. AwaitedOnce'
  BY <1>1, PostKeepsAwaited DEF clients
<1> QED BY <1>0, <1>2, <1>3, <1>4 DEF Inv

LEMMA GotoWelcomeInv ==
  ASSUME Inv, GotoWelcome
  PROVE  Inv'
<1> USE LegAssumption DEF GotoWelcome
<1>0. NoOrphanKey' /\ OwnKeyIntact' /\ OneClient'
  BY PageKeepsClients
<1>1. CASE session = None /\ (code \/ preview # None)
  <2>1. <<"disconnect", None>> \in Asked /\ Post(<<"disconnect", None>>)
    BY <1>1 DEF Asked, Leg
  <2>2. TypeOK'
    BY <1>1, <2>1, Posted DEF Inv, TypeOK, Leg, page, clients, requests
  <2>3. BornOnce'
    BY <1>1, <2>1, PostKeepsBorn DEF Inv, TypeOK, Birth, Leg, page
  <2>4. AwaitedOnce'
    BY <1>1, <2>1, PostKeepsAwaited DEF clients
  <2> QED BY <1>0, <2>2, <2>3, <2>4 DEF Inv
<1>2. CASE ~ (session = None /\ (code \/ preview # None))
  <2>1. TypeOK'
    BY <1>2 DEF Inv, TypeOK, Leg, page, clients, requests
  <2>2. BornOnce'
    BY <1>2, QuietKeepsBorn DEF Inv, TypeOK, Leg, page
  <2>3. AwaitedOnce'
    BY <1>2, QuietKeepsAwaited DEF clients
  <2> QED BY <1>0, <2>1, <2>2, <2>3 DEF Inv
<1> QED BY <1>1, <1>2

LEMMA ConfirmInv ==
  ASSUME Inv, Confirm
  PROVE  Inv'
<1> USE LegAssumption DEF Confirm
<1>0. NoOrphanKey' /\ OwnKeyIntact' /\ OneClient'
  BY PageKeepsClients
<1>1. TypeOK'
  BY DEF Inv, TypeOK, Leg, page, clients, requests
<1>2. BornOnce'
  BY QuietKeepsBorn DEF Inv, TypeOK, Leg, page
<1>3. AwaitedOnce'
  BY QuietKeepsAwaited DEF clients
<1> QED BY <1>0, <1>1, <1>2, <1>3 DEF Inv

LEMMA LogoutInv ==
  ASSUME Inv, Logout
  PROVE  Inv'
<1> USE LegAssumption DEF Logout
<1>0. NoOrphanKey' /\ OwnKeyIntact' /\ OneClient'
  BY PageKeepsClients
<1>1. <<"disconnect", None>> \in Asked /\ Post(<<"disconnect", None>>)
  BY DEF Asked, Leg
<1>2. TypeOK'
  BY <1>1, Posted DEF Inv, TypeOK, Leg, page, clients, requests
<1>3. BornOnce'
  BY <1>1, PostKeepsBorn DEF Inv, TypeOK, Birth, Leg, page
<1>4. AwaitedOnce'
  BY <1>1, PostKeepsAwaited DEF clients
<1> QED BY <1>0, <1>2, <1>3, <1>4 DEF Inv

LEMMA SignEventInv ==
  ASSUME Inv, NEW q \in Request, SignEvent(q)
  PROVE  Inv'
<1> USE LegAssumption DEF SignEvent
<1>0. NoOrphanKey' /\ OwnKeyIntact' /\ OneClient'
  BY PageKeepsClients
<1>1. <<"sign", q>> \in Asked /\ Post(<<"sign", q>>)
  BY DEF Asked, Leg
<1>2. TypeOK'
  BY <1>1, Posted DEF Inv, TypeOK, Leg, page, clients, requests
<1>3. BornOnce'
  BY <1>1, PostKeepsBorn DEF Inv, TypeOK, Birth, Leg, page
<1>4. AwaitedOnce'
  BY <1>1, PostKeepsAwaited DEF clients
<1> QED BY <1>0, <1>2, <1>3, <1>4 DEF Inv

LEMMA ReceiveCodeInv ==
  ASSUME Inv, NEW l \in Scan, ReceiveCode(l)
  PROVE  Inv'
<1> USE LegAssumption DEF ReceiveCode
<1>0. NoOrphanKey' /\ OwnKeyIntact' /\ OneClient'
  BY PageKeepsClients
<1>1. CASE screen = "connect"
  <2>1. <<"await", l>> \in Asked /\ Post(<<"await", l>>)
    BY <1>1 DEF Asked, Leg
  <2>2. TypeOK'
    BY <1>1, <2>1, Posted, Received DEF Inv, TypeOK, Leg, page, clients, requests
  <2>3. BornOnce'
    BY <1>1, <2>1, PostKeepsBorn DEF Inv, TypeOK, Birth, Leg, page
  <2>4. AwaitedOnce'
    <3> SUFFICES ASSUME NEW k \in Leg
                 PROVE  /\ Once(toPage, <<"code", k>>)'
                        /\ Once(toWorker, <<"await", k>>)'
                        /\ Has(toPage, <<"code", k>>)' =>
                             stage'[k] = "minted" /\ ~ Has(toWorker, <<"await", k>>)'
                        /\ Has(toWorker, <<"await", k>>)' => stage'[k] = "minted"
      BY DEF AwaitedOnce
    <3>1. /\ Once(toPage, <<"code", k>>) /\ Once(toWorker, <<"await", k>>)
          /\ Has(toPage, <<"code", k>>) =>
               stage[k] = "minted" /\ ~ Has(toWorker, <<"await", k>>)
          /\ Has(toWorker, <<"await", k>>) => stage[k] = "minted"
      BY DEF Inv, AwaitedOnce
    <3>2. /\ Has(toPage, <<"code", l>>)
          /\ Has(toPage, <<"code", k>>)' => Has(toPage, <<"code", k>>)
          /\ Once(toPage, <<"code", k>>)'
          /\ k = l => ~ Has(toPage, <<"code", k>>)'
      BY <3>1, ReceivedToken DEF Inv, TypeOK
    <3>3. /\ Has(toWorker, <<"await", k>>)' <=> Has(toWorker, <<"await", k>>) \/ k = l
          /\ (k = l => ~ Has(toWorker, <<"await", k>>)) => Once(toWorker, <<"await", k>>)'
      <4>1. <<"await", l>> = <<"await", k>> <=> k = l
        OBVIOUS
      <4> QED BY <2>1, <3>1, <4>1, PostedToken DEF Inv, TypeOK
    <3> QED BY <3>1, <3>2, <3>3 DEF clients
  <2> QED BY <1>0, <2>2, <2>3, <2>4 DEF Inv
<1>2. CASE ~ (screen = "connect")
  <2>1. TypeOK'
    BY <1>2, Received DEF Inv, TypeOK, Leg, page, clients, requests
  <2>2. BornOnce'
    BY <1>2, QuietKeepsBorn DEF Inv, TypeOK, Leg, page
  <2>3. AwaitedOnce'
    BY <1>2, ReceiveKeepsAwaited DEF clients
  <2> QED BY <1>0, <2>1, <2>2, <2>3 DEF Inv
<1> QED BY <1>1, <1>2

LEMMA ScanConnectedInv ==
  ASSUME Inv, NEW l \in Scan, ScanConnected(l)
  PROVE  Inv'
<1> USE LegAssumption DEF ScanConnected, AdoptPreview
<1>0. NoOrphanKey' /\ OwnKeyIntact' /\ OneClient'
  BY PageKeepsClients
<1>1. TypeOK'
  BY Received DEF Inv, TypeOK, Leg, page, clients, requests
<1>2. BornOnce'
  BY QuietKeepsBorn DEF Inv, TypeOK, Leg, page
<1>3. AwaitedOnce'
  BY ReceiveKeepsAwaited DEF clients
<1> QED BY <1>0, <1>1, <1>2, <1>3 DEF Inv

LEMMA PasteConnectedInv ==
  ASSUME Inv, NEW l \in Paste, PasteConnected(l)
  PROVE  Inv'
<1> USE LegAssumption DEF PasteConnected, AdoptPreview
<1>0. NoOrphanKey' /\ OwnKeyIntact' /\ OneClient'
  BY PageKeepsClients
<1>1. TypeOK'
  BY Received DEF Inv, TypeOK, Leg, page, clients, requests
<1>2. BornOnce'
  BY QuietKeepsBorn DEF Inv, TypeOK, Leg, page
<1>3. AwaitedOnce'
  BY ReceiveKeepsAwaited DEF clients
<1> QED BY <1>0, <1>1, <1>2, <1>3 DEF Inv

LEMMA ScanFailedInv ==
  ASSUME Inv, NEW l \in Scan, ScanFailed(l)
  PROVE  Inv'
<1> USE LegAssumption DEF ScanFailed
<1>0. NoOrphanKey' /\ OwnKeyIntact' /\ OneClient'
  BY PageKeepsClients
<1>1. TypeOK'
  BY Received DEF Inv, TypeOK, Leg, page, clients, requests
<1>2. BornOnce'
  BY QuietKeepsBorn DEF Inv, TypeOK, Leg, page
<1>3. AwaitedOnce'
  BY ReceiveKeepsAwaited DEF clients
<1> QED BY <1>0, <1>1, <1>2, <1>3 DEF Inv

LEMMA PasteFailedInv ==
  ASSUME Inv, NEW l \in Paste, PasteFailed(l)
  PROVE  Inv'
<1> USE LegAssumption DEF PasteFailed
<1>0. NoOrphanKey' /\ OwnKeyIntact' /\ OneClient'
  BY PageKeepsClients
<1>1. TypeOK'
  BY Received DEF Inv, TypeOK, Leg, page, clients, requests
<1>2. BornOnce'
  BY QuietKeepsBorn DEF Inv, TypeOK, Leg, page
<1>3. AwaitedOnce'
  BY ReceiveKeepsAwaited DEF clients
<1> QED BY <1>0, <1>1, <1>2, <1>3 DEF Inv

-----------------------------------------------------------------------------
(* The worker: a message is served, or a signer answers or misses its         *)
(* deadline.                                                                *)

LEMMA ServeKeepsBorn ==
  ASSUME Inv, NEW m, Take(m), UNCHANGED flow,
         \A l \in Leg : Unborn(l) /\ m # Birth(l) => Unborn(l)'
  PROVE  BornOnce'
<1>1. /\ Len(toWorker) \in Nat \ {0}
      /\ 1 \in 1..Len(toWorker)
      /\ toWorker[1] = m
      /\ Len(toWorker') = Len(toWorker) - 1
      /\ \A i \in 1..Len(toWorker') : i + 1 \in 1..Len(toWorker) /\ toWorker'[i] = toWorker[i + 1]
  BY Served DEF Inv, TypeOK
<1>2. ASSUME NEW l \in Leg, NEW i \in 1..Len(toWorker'), toWorker'[i] = Birth(l)
      PROVE  /\ flow'[l] # "idle"
             /\ Unborn(l)'
             /\ \A j \in 1..Len(toWorker') : toWorker'[j] = Birth(l) => i = j
  <2>1. i + 1 \in 1..Len(toWorker) /\ toWorker[i + 1] = Birth(l)
    BY <1>1, <1>2
  <2>2. flow[l] # "idle" /\ Unborn(l)
    BY <2>1 DEF Inv, BornOnce
  <2>3. \A j \in 1..Len(toWorker) : toWorker[j] = Birth(l) => i + 1 = j
    BY <2>1 DEF Inv, BornOnce
  <2>4. m # Birth(l)
    BY <1>1, <2>3
  <2>5. ASSUME NEW j \in 1..Len(toWorker'), toWorker'[j] = Birth(l) PROVE i = j
    BY <1>1, <2>3, <2>5
  <2> QED BY <2>2, <2>4, <2>5
<1>3. ASSUME NEW l \in Leg, flow'[l] = "idle" PROVE Unborn(l)'
  <2>1. Unborn(l)
    BY <1>3 DEF Inv, BornOnce
  <2>2. m # Birth(l)
    BY <1>1, <1>3 DEF Inv, BornOnce
  <2> QED BY <2>1, <2>2
<1> QED BY <1>2, <1>3 DEF BornOnce, Birth

\* The message that generates a key finds nothing of its leg.
LEMMA FoundUnborn ==
  ASSUME Inv, NEW l \in Leg, Take(Birth(l))
  PROVE  Unborn(l)
<1>1. 1 \in 1..Len(toWorker) /\ toWorker[1] = Birth(l)
  BY Served DEF Inv, TypeOK
<1> QED BY <1>1 DEF Inv, BornOnce

LEMMA SignerKeepsBorn ==
  ASSUME Inv, UNCHANGED <<flow, toWorker>>,
         \A l \in Leg : Unborn(l) => Unborn(l)'
  PROVE  BornOnce'
BY DEF Inv, BornOnce, Birth

LEMMA NostrconnectStartInv ==
  ASSUME Inv, NEW l \in Scan, NostrconnectStart(l)
  PROVE  Inv'
<1> USE LegAssumption DEF NostrconnectStart
<1>0. Unborn(l)
  BY FoundUnborn DEF Birth, Leg
<1>1. TypeOK'
  BY <1>0, Served, AnswerPosted DEF Inv, TypeOK, Leg, page, requests, clients, DiscardPending, Closed, Rejected, Rejection, Unanswered, Retired
<1>2. BornOnce'
  <2>1. \A k \in Leg : Unborn(k) /\ <<"start", l>> # Birth(k) => Unborn(k)'
    BY <1>0, LegAssumption DEF Inv, TypeOK, OneClient, Unborn, Birth, Leg, Retired, clients
  <2> QED BY <2>1, ServeKeepsBorn DEF page
<1>3. OneClient'
  BY <1>0, LegAssumption DEF Inv, TypeOK, OneClient, Unborn, Leg, Retired, clients
<1>4. OwnKeyIntact'
  BY <1>0, LegAssumption DEF Inv, TypeOK, OwnKeyIntact, OneClient, Clients, Unborn, Leg, DiscardPending, Closed, Retired, clients
<1>5. NoOrphanKey'
  BY <1>0, LegAssumption DEF Inv, TypeOK, OwnKeyIntact, NoOrphanKey, OneClient, Clients, Unborn, Leg, DiscardPending, Closed, Retired, clients
<1>6. AwaitedOnce'
  <2> SUFFICES ASSUME NEW k \in Leg
               PROVE  /\ Once(toPage, <<"code", k>>)'
                      /\ Once(toWorker, <<"await", k>>)'
                      /\ Has(toPage, <<"code", k>>)' =>
                           stage'[k] = "minted" /\ ~ Has(toWorker, <<"await", k>>)'
                      /\ Has(toWorker, <<"await", k>>)' => stage'[k] = "minted"
    BY DEF AwaitedOnce
  <2>1. /\ Once(toPage, <<"code", k>>) /\ Once(toWorker, <<"await", k>>)
        /\ Has(toPage, <<"code", k>>) =>
             stage[k] = "minted" /\ ~ Has(toWorker, <<"await", k>>)
        /\ Has(toWorker, <<"await", k>>) => stage[k] = "minted"
    BY DEF Inv, AwaitedOnce
  <2>2. /\ Has(toWorker, <<"await", k>>)' => Has(toWorker, <<"await", k>>)
        /\ Once(toWorker, <<"await", k>>)'
    BY <2>1, TakenToken DEF Inv, TypeOK
  <2>3. /\ Has(toPage, <<"code", k>>)' <=> Has(toPage, <<"code", k>>) \/ k = l
        /\ (k = l => ~ Has(toPage, <<"code", k>>)) => Once(toPage, <<"code", k>>)'
    <3>1. <<"code", l>> = <<"code", k>> <=> k = l
      OBVIOUS
    <3> QED BY <2>1, <3>1, AnsweredToken DEF Inv, TypeOK, Leg
  <2>4. stage'[k] = IF k = l THEN "minted" ELSE stage[k]
    BY DEF Inv, TypeOK
  <2> QED BY <1>0, <2>1, <2>2, <2>3, <2>4 DEF Unborn
<1> QED BY <1>1, <1>2, <1>3, <1>4, <1>5, <1>6 DEF Inv

LEMMA NostrconnectAwaitInv ==
  ASSUME Inv, NEW l \in Scan, NostrconnectAwait(l)
  PROVE  Inv'
<1> USE LegAssumption DEF NostrconnectAwait
<1>0. /\ l \in Leg
      /\ stage[l] = "minted"
      /\ ~ Has(toWorker, <<"await", l>>)'
      /\ ~ Has(toPage, <<"code", l>>)
  <2>1. Has(toWorker, <<"await", l>>) /\ (Once(toWorker, <<"await", l>>) => ~ Has(toWorker, <<"await", l>>)')
    BY TakenToken DEF Inv, TypeOK
  <2> QED BY <2>1 DEF Inv, AwaitedOnce, Leg
<1>1. TypeOK'
  <2>1. toWorker' \in Seq(Asked)
    BY Served DEF Inv, TypeOK
  <2>2. toPage' \in Seq(Reply)
    BY <1>0, AnswerPosted DEF Inv, TypeOK
  <2>3. CASE slot = None
    BY <1>0, <2>1, <2>2, <2>3 DEF Inv, TypeOK, page, requests
  <2>4. CASE slot # None
    BY <1>0, <2>1, <2>2, <2>4 DEF Inv, TypeOK, page, requests
  <2> QED BY <2>3, <2>4
<1>2. BornOnce'
  <2>1. \A k \in Leg : Unborn(k) => Unborn(k)'
    BY <1>0 DEF Inv, TypeOK, Unborn, clients
  <2> QED BY <2>1, ServeKeepsBorn DEF page
<1>3. OneClient'
  BY <1>0 DEF Inv, TypeOK, OneClient
<1>4. OwnKeyIntact'
  <2>1. \A k \in Leg : Clients(k)' = Clients(k)
    BY <1>0 DEF Inv, TypeOK, Clients
  <2>2. \A k \in Leg : /\ slot = k => key[k] = "kept" /\ Clients(k) = {}
                      /\ \A m \in Clients(k) : key[k] = "kept" /\ Clients(k) = {m}
    BY DEF Inv, OwnKeyIntact
  <2> QED BY <2>1, <2>2 DEF OwnKeyIntact
<1>5. NoOrphanKey'
  BY <1>0 DEF Inv, TypeOK, NoOrphanKey, Clients
<1>6. AwaitedOnce'
  <2>1. CASE slot = None
    <3> SUFFICES ASSUME NEW k \in Leg
                 PROVE  /\ Once(toPage, <<"code", k>>)'
                        /\ Once(toWorker, <<"await", k>>)'
                        /\ Has(toPage, <<"code", k>>)' =>
                             stage'[k] = "minted" /\ ~ Has(toWorker, <<"await", k>>)'
                        /\ Has(toWorker, <<"await", k>>)' => stage'[k] = "minted"
      BY DEF AwaitedOnce
    <3>1. /\ Once(toPage, <<"code", k>>) /\ Once(toWorker, <<"await", k>>)
          /\ Has(toPage, <<"code", k>>) =>
               stage[k] = "minted" /\ ~ Has(toWorker, <<"await", k>>)
          /\ Has(toWorker, <<"await", k>>) => stage[k] = "minted"
      BY DEF Inv, AwaitedOnce
    <3>2. /\ Has(toWorker, <<"await", k>>)' => Has(toWorker, <<"await", k>>)
          /\ Once(toWorker, <<"await", k>>)'
      BY <3>1, TakenToken DEF Inv, TypeOK
    <3>3. /\ Has(toPage, <<"code", k>>)' <=> Has(toPage, <<"code", k>>)
          /\ Once(toPage, <<"code", k>>)'
      <4>1. <<"failed", l>> # <<"code", k>>
        OBVIOUS
      <4> QED BY <1>0, <2>1, <3>1, <4>1, AnsweredToken DEF Inv, TypeOK
    <3>4. k # l => stage'[k] = stage[k]
      BY DEF Inv, TypeOK
    <3> QED BY <1>0, <3>1, <3>2, <3>3, <3>4
  <2>2. CASE slot # None
    <3> SUFFICES ASSUME NEW k \in Leg
                 PROVE  /\ Once(toPage, <<"code", k>>)'
                        /\ Once(toWorker, <<"await", k>>)'
                        /\ Has(toPage, <<"code", k>>)' =>
                             stage'[k] = "minted" /\ ~ Has(toWorker, <<"await", k>>)'
                        /\ Has(toWorker, <<"await", k>>)' => stage'[k] = "minted"
      BY DEF AwaitedOnce
    <3>1. /\ Once(toPage, <<"code", k>>) /\ Once(toWorker, <<"await", k>>)
          /\ Has(toPage, <<"code", k>>) =>
               stage[k] = "minted" /\ ~ Has(toWorker, <<"await", k>>)
          /\ Has(toWorker, <<"await", k>>) => stage[k] = "minted"
      BY DEF Inv, AwaitedOnce
    <3>2. /\ Has(toWorker, <<"await", k>>)' => Has(toWorker, <<"await", k>>)
          /\ Once(toWorker, <<"await", k>>)'
      BY <3>1, TakenToken DEF Inv, TypeOK
    <3>3. toPage' = toPage /\ (k # l => stage'[k] = stage[k])
      BY <2>2 DEF Inv, TypeOK
    <3> QED BY <1>0, <3>1, <3>2, <3>3
  <2> QED BY <2>1, <2>2
<1> QED BY <1>1, <1>2, <1>3, <1>4, <1>5, <1>6 DEF Inv

LEMMA ConnectInv ==
  ASSUME Inv, NEW l \in Paste, Connect(l)
  PROVE  Inv'
<1> USE LegAssumption DEF Connect
<1>0. Unborn(l)
  BY FoundUnborn DEF Birth, Leg
<1>1. TypeOK'
  BY <1>0, Served, AnswerPosted DEF Inv, TypeOK, Leg, page, requests, clients, DiscardPending, Closed, Rejected, Rejection, Unanswered, Retired
<1>2. BornOnce'
  <2>1. \A k \in Leg : Unborn(k) /\ <<"connect", l>> # Birth(k) => Unborn(k)'
    BY <1>0, LegAssumption DEF Inv, TypeOK, OneClient, Unborn, Birth, Leg, Retired, clients
  <2> QED BY <2>1, ServeKeepsBorn DEF page
<1>3. OneClient'
  BY <1>0, LegAssumption DEF Inv, TypeOK, OneClient, Unborn, Leg, Retired, clients
<1>4. OwnKeyIntact'
  BY <1>0, LegAssumption DEF Inv, TypeOK, OwnKeyIntact, OneClient, Clients, Unborn, Leg, DiscardPending, Closed, Retired, clients
<1>5. NoOrphanKey'
  BY <1>0, LegAssumption DEF Inv, TypeOK, OwnKeyIntact, NoOrphanKey, OneClient, Clients, Unborn, Leg, DiscardPending, Closed, Retired, clients
<1>6. AwaitedOnce'
  BY <1>0, ServeKeepsAwaited DEF Inv, TypeOK, OneClient, Unborn, Leg, Retired, clients, page
<1> QED BY <1>1, <1>2, <1>3, <1>4, <1>5, <1>6 DEF Inv

LEMMA DisconnectInv ==
  ASSUME Inv, Disconnect
  PROVE  Inv'
<1> USE LegAssumption DEF Disconnect
<1>1. TypeOK'
  BY Served, AnswerPosted DEF Inv, TypeOK, Leg, page, requests, clients, DiscardPending, Closed, Rejected, Rejection, Unanswered, Retired
<1>2. BornOnce'
  <2>1. \A k \in Leg : Unborn(k) /\ <<"disconnect", None>> # Birth(k) => Unborn(k)'
    BY LegAssumption DEF Inv, TypeOK, OneClient, Unborn, Birth, Leg, Retired, clients
  <2> QED BY <2>1, ServeKeepsBorn DEF page
<1>3. OneClient'
  BY LegAssumption DEF Inv, TypeOK, OneClient, Unborn, Leg, Retired, clients
<1>4. OwnKeyIntact'
  BY LegAssumption DEF Inv, TypeOK, OwnKeyIntact, OneClient, Clients, Unborn, Leg, DiscardPending, Closed, Retired, clients
<1>5. NoOrphanKey'
  BY LegAssumption DEF Inv, TypeOK, OwnKeyIntact, NoOrphanKey, OneClient, Clients, Unborn, Leg, DiscardPending, Closed, Retired, clients
<1>6. AwaitedOnce'
  BY ServeKeepsAwaited DEF Inv, TypeOK, OneClient, Unborn, Leg, Retired, clients, page
<1> QED BY <1>1, <1>2, <1>3, <1>4, <1>5, <1>6 DEF Inv

LEMMA NipSignEventInv ==
  ASSUME Inv, NEW q \in Request, NipSignEvent(q)
  PROVE  Inv'
<1> USE LegAssumption DEF NipSignEvent
<1>1. TypeOK'
  BY Served, AnswerPosted DEF Inv, TypeOK, Leg, page, requests, clients, DiscardPending, Closed, Rejected, Rejection, Unanswered, Retired
<1>2. BornOnce'
  <2>1. \A k \in Leg : Unborn(k) /\ <<"sign", q>> # Birth(k) => Unborn(k)'
    BY LegAssumption DEF Inv, TypeOK, OneClient, Unborn, Birth, Leg, Retired, clients
  <2> QED BY <2>1, ServeKeepsBorn DEF page
<1>3. OneClient'
  BY LegAssumption DEF Inv, TypeOK, OneClient, Unborn, Leg, Retired, clients
<1>4. OwnKeyIntact'
  BY LegAssumption DEF Inv, TypeOK, OwnKeyIntact, OneClient, Clients, Unborn, Leg, DiscardPending, Closed, Retired, clients
<1>5. NoOrphanKey'
  BY LegAssumption DEF Inv, TypeOK, OwnKeyIntact, NoOrphanKey, OneClient, Clients, Unborn, Leg, DiscardPending, Closed, Retired, clients
<1>6. AwaitedOnce'
  BY ServeKeepsAwaited DEF Inv, TypeOK, OneClient, Unborn, Leg, Retired, clients, page
<1> QED BY <1>1, <1>2, <1>3, <1>4, <1>5, <1>6 DEF Inv

LEMMA EchoedInv ==
  ASSUME Inv, NEW l \in Scan, Echoed(l)
  PROVE  Inv'
<1> USE LegAssumption DEF Echoed
<1>1. TypeOK'
  BY AnswerPosted DEF Inv, TypeOK, Leg, page, requests, clients, DiscardPending, Closed, Rejected, Rejection, Unanswered, Retired
<1>2. BornOnce'
  <2>1. \A k \in Leg : Unborn(k) => Unborn(k)'
    BY LegAssumption DEF Inv, TypeOK, OneClient, Unborn, Leg, Retired, clients
  <2> QED BY <2>1, SignerKeepsBorn DEF page
<1>3. OneClient'
  BY LegAssumption DEF Inv, TypeOK, OneClient, Unborn, Leg, Retired, clients
<1>4. OwnKeyIntact'
  BY LegAssumption DEF Inv, TypeOK, OwnKeyIntact, OneClient, Clients, Unborn, Leg, DiscardPending, Closed, Retired, clients
<1>5. NoOrphanKey'
  <2> SUFFICES ASSUME NEW k \in Leg, key'[k] = "kept"
               PROVE  slot' = k \/ Clients(k)' # {}
    BY DEF NoOrphanKey
  <2>1. /\ l \in Leg
        /\ stage' = [stage EXCEPT ![l] = "asking"]
        /\ stage'[l] = "asking"
        /\ UNCHANGED <<key, using>>
    BY DEF Inv, TypeOK, Leg
  <2>2. CASE slot = k
    <3>1. l \in Clients(k)'
      BY <2>1, <2>2 DEF Clients
    <3> QED BY <3>1
  <2>3. CASE slot # k
    <3>1. PICK m \in Leg : stage[m] \in {"asking", "adopted"} /\ using[m] = k
      BY <2>1, <2>3 DEF Inv, NoOrphanKey, Clients
    <3>2. m \in Clients(k)'
      BY <2>1, <3>1 DEF Clients, Inv, TypeOK
    <3> QED BY <3>2
  <2> QED BY <2>2, <2>3
<1>6. AwaitedOnce'
  BY QuietKeepsAwaited DEF Inv, TypeOK, OneClient, Unborn, Leg, Retired, clients, page
<1> QED BY <1>1, <1>2, <1>3, <1>4, <1>5, <1>6 DEF Inv

LEMMA ListenFailedInv ==
  ASSUME Inv, NEW l \in Leg, ListenFailed(l)
  PROVE  Inv'
<1> USE LegAssumption DEF ListenFailed
<1>1. TypeOK'
  BY AnswerPosted DEF Inv, TypeOK, Leg, page, requests, clients, DiscardPending, Closed, Rejected, Rejection, Unanswered, Retired
<1>2. BornOnce'
  <2>1. \A k \in Leg : Unborn(k) => Unborn(k)'
    BY LegAssumption DEF Inv, TypeOK, OneClient, Unborn, Leg, Retired, clients
  <2> QED BY <2>1, SignerKeepsBorn DEF page
<1>3. OneClient'
  BY LegAssumption DEF Inv, TypeOK, OneClient, Unborn, Leg, Retired, clients
<1>4. OwnKeyIntact'
  BY LegAssumption DEF Inv, TypeOK, OwnKeyIntact, OneClient, Clients, Unborn, Leg, DiscardPending, Closed, Retired, clients
<1>5. NoOrphanKey'
  BY LegAssumption DEF Inv, TypeOK, OwnKeyIntact, NoOrphanKey, OneClient, Clients, Unborn, Leg, DiscardPending, Closed, Retired, clients
<1>6. AwaitedOnce'
  BY AnswerKeepsAwaited DEF Inv, TypeOK, OneClient, Unborn, Leg, Retired, clients, page
<1> QED BY <1>1, <1>2, <1>3, <1>4, <1>5, <1>6 DEF Inv

LEMMA AdoptInv ==
  ASSUME Inv, NEW l \in Leg, Adopt(l)
  PROVE  Inv'
<1> USE LegAssumption DEF Adopt
<1>1. TypeOK'
  BY AnswerPosted DEF Inv, TypeOK, Leg, page, requests, clients, DiscardPending, Closed, Rejected, Rejection, Unanswered, Retired
<1>2. BornOnce'
  <2>1. \A k \in Leg : Unborn(k) => Unborn(k)'
    BY LegAssumption DEF Inv, TypeOK, OneClient, Unborn, Leg, Retired, clients
  <2> QED BY <2>1, SignerKeepsBorn DEF page
<1>3. OneClient'
  BY LegAssumption DEF Inv, TypeOK, OneClient, Unborn, Leg, Retired, clients
<1>4. OwnKeyIntact'
  BY LegAssumption DEF Inv, TypeOK, OwnKeyIntact, OneClient, Clients, Unborn, Leg, DiscardPending, Closed, Retired, clients
<1>5. NoOrphanKey'
  BY LegAssumption DEF Inv, TypeOK, OwnKeyIntact, NoOrphanKey, OneClient, Clients, Unborn, Leg, DiscardPending, Closed, Retired, clients
<1>6. AwaitedOnce'
  BY AnswerKeepsAwaited DEF Inv, TypeOK, OneClient, Unborn, Leg, Retired, clients, page
<1> QED BY <1>1, <1>2, <1>3, <1>4, <1>5, <1>6 DEF Inv

LEMMA ConnectFailedInv ==
  ASSUME Inv, NEW l \in Leg, ConnectFailed(l)
  PROVE  Inv'
<1> USE LegAssumption DEF ConnectFailed
<1>1. TypeOK'
  BY AnswerPosted DEF Inv, TypeOK, Leg, page, requests, clients, DiscardPending, Closed, Rejected, Rejection, Unanswered, Retired
<1>2. BornOnce'
  <2>1. \A k \in Leg : Unborn(k) => Unborn(k)'
    BY LegAssumption DEF Inv, TypeOK, OneClient, Unborn, Leg, Retired, clients
  <2> QED BY <2>1, SignerKeepsBorn DEF page
<1>3. OneClient'
  BY LegAssumption DEF Inv, TypeOK, OneClient, Unborn, Leg, Retired, clients
<1>4. OwnKeyIntact'
  BY LegAssumption DEF Inv, TypeOK, OwnKeyIntact, OneClient, Clients, Unborn, Leg, DiscardPending, Closed, Retired, clients
<1>5. NoOrphanKey'
  BY LegAssumption DEF Inv, TypeOK, OwnKeyIntact, NoOrphanKey, OneClient, Clients, Unborn, Leg, DiscardPending, Closed, Retired, clients
<1>6. AwaitedOnce'
  BY AnswerKeepsAwaited DEF Inv, TypeOK, OneClient, Unborn, Leg, Retired, clients, page
<1> QED BY <1>1, <1>2, <1>3, <1>4, <1>5, <1>6 DEF Inv

\* What becomes of a request touches no key, client or message.
LEMMA RequestInv ==
  ASSUME Inv, NEW q \in Request,
         Answered(q) \/ Refused(q) \/ \E ok \in BOOLEAN : Published(q, ok)
  PROVE  Inv'
<1>1. UNCHANGED <<page, clients, shown, via, toWorker, toPage>>
  BY DEF Answered, Refused, Published
<1>2. \E a \in {"sent", "answered", "rejected", "signed", "refused"} :
        request' = [request EXCEPT ![q] = a]
  BY DEF Answered, Refused, Published, Rejection
<1>3. TypeOK'
  BY <1>1, <1>2 DEF Inv, TypeOK, page, clients
<1>4. BornOnce'
  BY <1>1, QuietKeepsBorn DEF page
<1>5. AwaitedOnce'
  BY <1>1, QuietKeepsAwaited DEF clients
<1>6. NoOrphanKey' /\ OwnKeyIntact' /\ OneClient'
  BY <1>1, PageKeepsClients
<1> QED BY <1>3, <1>4, <1>5, <1>6 DEF Inv

-----------------------------------------------------------------------------
LEMMA StepInv == Inv /\ [Next]_vars => Inv'
<1> SUFFICES ASSUME Inv, [Next]_vars PROVE Inv'
  OBVIOUS
<1> USE DEF Leg
<1>1. CASE UserStep
  BY <1>1, GotoBunkerInv, SubmitBunkerInv, GotoWelcomeInv, ConfirmInv, LogoutInv, SignEventInv
     DEF UserStep
<1>2. CASE ReceiveStep
  BY <1>2, ReceiveCodeInv, ScanConnectedInv, ScanFailedInv, PasteConnectedInv, PasteFailedInv
     DEF ReceiveStep
<1>3. CASE ServeStep
  BY <1>3, NostrconnectStartInv, NostrconnectAwaitInv, ConnectInv, DisconnectInv, NipSignEventInv
     DEF ServeStep
<1>4. CASE SignerStep
  BY <1>4, EchoedInv, AdoptInv, ListenFailedInv, ConnectFailedInv, RequestInv
     DEF SignerStep, Deadline
<1>5. CASE UNCHANGED vars
  <2>1. TypeOK'
    BY <1>5 DEF Inv, TypeOK, vars, page, clients, requests
  <2>2. BornOnce'
    BY <1>5, QuietKeepsBorn DEF vars, page
  <2>3. AwaitedOnce'
    BY <1>5, QuietKeepsAwaited DEF vars, clients
  <2>4. NoOrphanKey' /\ OwnKeyIntact' /\ OneClient'
    BY <1>5, PageKeepsClients DEF vars
  <2> QED BY <2>1, <2>2, <2>3, <2>4 DEF Inv
<1> QED BY <1>1, <1>2, <1>3, <1>4, <1>5 DEF Next

LEMMA InvHolds == Spec => []Inv
BY InitInv, StepInv, PTL DEF Spec

\* The page's and the worker's state and the messages between them have their
\* types in every reachable state.
THEOREM TypeCorrect == Spec => []TypeOK
<1>1. Inv => TypeOK
  BY DEF Inv
<1> QED BY <1>1, InvHolds, PTL

\* However many legs are started, abandoned, timed out or answered, and in
\* whatever order, every ephemeral key that is not wiped is held by the pending
\* slot or by an open client.
THEOREM NoOrphanKeyHolds == Spec => []NoOrphanKey
<1>1. Inv => NoOrphanKey
  BY DEF Inv
<1> QED BY <1>1, InvHolds, PTL

\* No superseding, discarding or retiring wipes the key of another owner.
THEOREM OwnKeyIntactHolds == Spec => []OwnKeyIntact
<1>1. Inv => OwnKeyIntact
  BY DEF Inv
<1> QED BY <1>1, InvHolds, PTL

\* There is one connected client at most, the one the worker signs with.
THEOREM OneClientHolds == Spec => []OneClient
<1>1. Inv => OneClient
  BY DEF Inv
<1> QED BY <1>1, InvHolds, PTL
-----------------------------------------------------------------------------
\* A request that has no answer yet was sent with the client adopted now.
PendingIsCurrent ==
  \A q \in Request : request[q] \in Unanswered => via[q] = nip46 /\ nip46 # None

PendingInv == TypeOK /\ PendingIsCurrent

LEMMA PendingInit == Init => PendingIsCurrent
BY DEF Init, PendingIsCurrent, Unanswered

LEMMA PendingStep == PendingInv /\ [Next]_vars => PendingIsCurrent'
<1> SUFFICES ASSUME PendingInv, [Next]_vars PROVE PendingIsCurrent'
  OBVIOUS
<1> USE DEF PendingInv, PendingIsCurrent, Unanswered
<1>1. CASE UserStep
  <2>1. ASSUME NEW q \in Request, SignEvent(q) PROVE PendingIsCurrent'
    BY <2>1 DEF SignEvent, TypeOK, clients
  <2>2. CASE UNCHANGED <<clients, requests>>
    BY <2>2 DEF clients, requests
  <2> QED BY <1>1, <2>1, <2>2
             DEF UserStep, GotoBunker, SubmitBunker, GotoWelcome, Confirm, Logout
<1>2. CASE ReceiveStep
  <2>1. UNCHANGED <<clients, requests>>
    BY <1>2 DEF ReceiveStep, ReceiveCode, ScanConnected, ScanFailed, PasteConnected, PasteFailed
  <2> QED BY <2>1 DEF clients, requests
<1>3. CASE ServeStep
  <2>1. CASE Disconnect
    BY <2>1 DEF Disconnect, Rejected, Rejection, Retired, TypeOK
  <2>2. ASSUME NEW q \in Request, NipSignEvent(q) PROVE PendingIsCurrent'
    BY <2>2 DEF NipSignEvent, TypeOK, clients
  <2>3. CASE UNCHANGED <<nip46, requests>>
    BY <2>3 DEF requests
  <2> QED BY <1>3, <2>1, <2>2, <2>3 DEF ServeStep, NostrconnectStart, NostrconnectAwait, Connect
<1>4. CASE SignerStep
  <2>1. ASSUME NEW l \in Leg, Adopt(l) PROVE PendingIsCurrent'
    BY <2>1 DEF Adopt, Rejected, Rejection, Retired, TypeOK
  <2>2. ASSUME NEW q \in Request, Answered(q) \/ Refused(q) PROVE PendingIsCurrent'
    BY <2>2 DEF Answered, Refused, Rejection, TypeOK, clients
  <2>3. ASSUME NEW q \in Request, NEW ok \in BOOLEAN, Published(q, ok) PROVE PendingIsCurrent'
    BY <2>3 DEF Published, TypeOK, clients
  <2>4. CASE UNCHANGED <<nip46, requests>>
    BY <2>4 DEF requests
  <2> QED BY <1>4, <2>1, <2>2, <2>3, <2>4
             DEF SignerStep, Deadline, Echoed, ListenFailed, ConnectFailed
<1>5. CASE UNCHANGED vars
  BY <1>5 DEF vars, clients, requests
<1> QED BY <1>1, <1>2, <1>3, <1>4, <1>5 DEF Next

\* An answer is taken for a request only while the client it was sent with is the
\* one adopted: whatever the page logs out of or replaces was rejected then, and
\* no late answer of an old client is heard.
THEOREM OnlyTheCurrentIsAnsweredHolds == Spec => OnlyTheCurrentIsAnswered
<1>1. Spec => []PendingInv
  <2>1. TypeOK /\ PendingIsCurrent /\ [Next]_vars => PendingIsCurrent'
    BY PendingStep DEF PendingInv
  <2>2. []TypeOK /\ []PendingIsCurrent => []PendingInv
    BY PTL DEF PendingInv
  <2> QED BY <2>1, <2>2, PendingInit, TypeCorrect, PTL DEF Spec
<1>2. PendingInv /\ [Next]_vars =>
        [\A q \in Request :
           request[q] \in Unanswered /\ request'[q] \in {"answered", "signed"} =>
             via[q] = nip46 /\ nip46 # None]_vars
  BY DEF PendingInv, PendingIsCurrent
<1> QED BY <1>1, <1>2, PTL DEF Spec, OnlyTheCurrentIsAnswered
=============================================================================
