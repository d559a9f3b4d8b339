-------------------------- MODULE ReadySigningProofs ------------------------
(***************************************************************************)
(* Proofs of safety properties of module ReadySigning, for every size of   *)
(* the group of two or more, every number of rounds it can submit, and any *)
(* number of datagrams lost or out of order.                               *)
(***************************************************************************)
EXTENDS ReadySigning, TLAPS

Round == 1 .. RoundCount

Signature == [signer : Member, round : Round]

States ==
    [peers : SUBSET (Member \cup {Server}), ready : SUBSET Member, round : {0} \cup Round,
     sigs : SUBSET Signature, completed : Nat, submitted : {0} \cup Round,
     sent : {0} \cup Round, requested : BOOLEAN]

Verdict ==
    {"recorded", "already completed", "no active challenge", "wrong round number",
     "submitter already used", "invalid signature"}

Messages ==
         [type : {"ready"}, src : Member, dst : Member]
    \cup [type : {"request"}, src : Member, dst : {Server}]
    \cup [type : {"challenge"}, src : {Server}, dst : Member, round : Round]
    \cup [type : {"nonce"}, src : Member, dst : Member, round : Round]
    \cup [type : {"share"}, src : Member, dst : Member, round : Round, sig : Signature]
    \cup [type : {"bundle"}, src : Member, dst : {Server}, round : Round, sigs : SUBSET Signature]
    \cup [type : {"result"}, src : {Server}, dst : Member, round : Round, completed : Nat,
          verdict : Verdict]

Typed ==
    /\ member \in [Member -> States]
    /\ server \in [completed : 0 .. RoundCount, active : BOOLEAN, used : SUBSET Member]
    /\ msgs \subseteq Messages

Whole(sigs, r) == sigs = {[signer |-> m, round |-> r] : m \in Member}

\* s, the state of m, has found everybody.
Complete(m, s) == s.peers = Others(m) \cup {Server}

Found(m) == Complete(m, member[m])

Begun == member[0].requested

\* The state s of m, when the server has recorded `completed` rounds: signatures are of
\* the round m is in; the submitter's own is the first, so that the set is complete
\* with a share of somebody else, on whose arrival it was submitted.
Local(m, s, completed) ==
    /\ s.completed <= completed
    /\ s.round <= completed + 1
    /\ s.submitted \in {0, s.round} /\ s.sent \in {0, s.round}
    /\ s.peers \subseteq Others(m) \cup {Server}
    /\ \A g \in s.sigs : g.round = s.round
    /\ s.round # 0 /\ m = Submitter(s.round) => [signer |-> m, round |-> s.round] \in s.sigs
    /\ Whole(s.sigs, s.round) => s.submitted = s.round

\* What a datagram says, when the server has recorded `completed` rounds.
Fits(d, completed) ==
    /\ d.type \in {"challenge", "nonce"} => d.round <= completed + 1
    /\ d.type = "share" => d.sig = [signer |-> d.src, round |-> d.round] /\ d.dst = Submitter(d.round)
    /\ d.type = "bundle" => Whole(d.sigs, d.round)
    /\ d.type = "result" => d.completed <= completed

\* The barrier: who is ready, or says so, has found everybody, and nothing else happens
\* before member 0 has heard it from all.
Barrier ==
    /\ \A m \in Member : \A p \in member[m].ready : Found(p)
    /\ \A d \in msgs : IF d.type = "ready" THEN Found(d.src) ELSE Begun
    /\ \A m \in Member : member[m].round # 0 => Begun
    /\ server.active => Begun
    /\ Begun => \A m \in Member : Found(m)

IInv ==
    /\ Typed
    /\ \A m \in Member : Local(m, member[m], server.completed)
    /\ \A d \in msgs : Fits(d, server.completed)
    /\ server.active => server.completed < RoundCount
    /\ Barrier

-----------------------------------------------------------------------------

\* Members 0 and 1 exist.
LEMMA ZeroIsMember == 0 \in Member /\ 1 \in Member /\ GroupSize \in Nat
  BY ServerAssumption, ReadyAssumption DEF Member

\* Every round has a submitter.
LEMMA SubmitterIsMember == \A r \in Round : Submitter(r) \in Member
  BY ServerAssumption, ReadyAssumption DEF Member, Submitter, Round

\* One signature is not those of all.
LEMMA OneIsNotAll ==
  ASSUME NEW S, NEW m, NEW r, S \subseteq {[signer |-> m, round |-> r]}
  PROVE  ~ Whole(S, r)
<1>1. /\ [signer |-> 0, round |-> r] \in {[signer |-> p, round |-> r] : p \in Member}
      /\ [signer |-> 1, round |-> r] \in {[signer |-> p, round |-> r] : p \in Member}
  BY ZeroIsMember
<1>2. [signer |-> 0, round |-> r].signer = 0 /\ [signer |-> 1, round |-> r].signer = 1
  OBVIOUS
<1>3. SUFFICES ASSUME Whole(S, r) PROVE FALSE
  OBVIOUS
<1>4. [signer |-> 0, round |-> r] = [signer |-> m, round |-> r]
      /\ [signer |-> 1, round |-> r] = [signer |-> m, round |-> r]
  BY <1>1, <1>3 DEF Whole
<1>5. QED
  BY <1>2, <1>4

\* The invariant holds of the initial states.
LEMMA InitInv == Init => IInv
<1> SUFFICES ASSUME Init PROVE IInv
  OBVIOUS
<1>1. NewMember \in States
  BY DEF NewMember, States
<1>2. Typed /\ msgs = {} /\ ~ server.active /\ server.completed = 0
  BY <1>1, ServerAssumption DEF Init, InitServer, Typed
<1>3. ASSUME NEW m \in Member PROVE member[m] = NewMember /\ Local(m, member[m], 0)
  <2>1. member[m] = NewMember
    BY DEF Init
  <2>2. ~ Whole({}, 0)
    BY OneIsNotAll
  <2>3. QED
    BY <2>1, <2>2 DEF NewMember, Local, Submitter
<1>4. Barrier
  BY <1>2, <1>3, ZeroIsMember DEF Barrier, NewMember, Begun
<1>5. QED
  BY <1>2, <1>3, <1>4 DEF IInv

\* A step of member m: what is to be shown of its new state s and of what it sends.
LEMMA MemberStep ==
  ASSUME IInv, NEW m \in Member, NEW s \in States, NEW R \in SUBSET Messages,
         member' = [member EXCEPT ![m] = s], server' = server, msgs' \subseteq msgs \cup R,
         Local(m, s, server.completed),
         \A d \in R : Fits(d, server.completed),
         member[m].peers \subseteq s.peers,
         member[m].requested => s.requested,
         \A p \in s.ready : Found(p) \/ (p = m /\ Complete(m, s)),
         \A d \in R : IF d.type = "ready" THEN d.src = m /\ Complete(m, s)
                                         ELSE Begun \/ (m = 0 /\ s.requested),
         s.round # 0 => Begun \/ (m = 0 /\ s.requested),
         m = 0 /\ s.requested /\ ~ Begun => s.ready = Member
  PROVE  IInv'
<1>1. Typed'
  BY DEF IInv, Typed
<1>2. \A p \in Member : member'[p] = IF p = m THEN s ELSE member[p]
  BY DEF IInv, Typed
<1>3. \A p \in Member : Local(p, member[p], server.completed)'
  BY <1>2 DEF IInv, Local
<1>4. \A d \in msgs' : Fits(d, server'.completed)
  BY DEF IInv
<1>5. \A p \in Member : Found(p) => Found(p)'
  BY <1>2 DEF Found, Complete, Local
<1>6. Complete(m, s) => Found(m)'
  BY <1>2 DEF Found, Complete
<1>7. (Begun => Begun') /\ (m = 0 /\ s.requested => Begun')
  BY <1>2, ZeroIsMember DEF Begun
<1>8. Barrier'
  <2>1. \A p \in Member : \A q \in member'[p].ready : Found(q)'
    <3>1. \A p \in Member : member[p].ready \subseteq Member /\ s.ready \subseteq Member
      BY DEF IInv, Typed, States
    <3>2. QED
      BY <1>2, <1>5, <1>6, <3>1 DEF IInv, Barrier
  <2>2. \A d \in msgs' : IF d.type = "ready" THEN Found(d.src)' ELSE Begun'
    <3>1. \A d \in msgs : d.type = "ready" => d.src \in Member
      BY DEF IInv, Typed, Messages
    <3>2. QED
      BY <1>5, <1>6, <1>7, <3>1 DEF IInv, Barrier
  <2>3. \A p \in Member : member'[p].round # 0 => Begun'
    BY <1>2, <1>7 DEF IInv, Barrier
  <2>4. Begun' => \A p \in Member : Found(p)'
    <3>1. CASE Begun
      BY <1>5, <3>1 DEF IInv, Barrier
    <3>2. CASE ~ Begun /\ Begun'
      BY <1>2, <1>5, <1>6, <3>2, ZeroIsMember DEF Begun
    <3>3. QED
      BY <3>1, <3>2
  <2>5. QED
    BY <1>7, <2>1, <2>2, <2>3, <2>4 DEF IInv, Barrier
<1>9. QED
  BY <1>1, <1>3, <1>4, <1>8 DEF IInv

\* A step of the server or the network.
LEMMA ServerStep ==
  ASSUME IInv, NEW R \in SUBSET Messages, member' = member, msgs' \subseteq msgs \cup R,
         server' \in [completed : 0 .. RoundCount, active : BOOLEAN, used : SUBSET Member],
         server.completed <= server'.completed,
         server'.active => server'.completed < RoundCount,
         server'.active => Begun,
         \A d \in R : Fits(d, server'.completed) /\ d.type # "ready" /\ Begun
  PROVE  IInv'
<1>1. Typed'
  BY DEF IInv, Typed
<1>2. server.completed \in Nat /\ server'.completed \in Nat
  BY DEF IInv, Typed
<1>3. \A m \in Member : Local(m, member[m], server.completed)'
  <2> SUFFICES ASSUME NEW m \in Member PROVE Local(m, member[m], server.completed)'
    OBVIOUS
  <2>1. member[m].round \in Nat /\ member[m].completed \in Nat
    BY DEF IInv, Typed, States, Round
  <2>2. QED
    BY <1>2, <2>1 DEF IInv, Local
<1>4. \A d \in msgs' : Fits(d, server'.completed)
  <2> SUFFICES ASSUME NEW d \in msgs PROVE Fits(d, server'.completed)
    OBVIOUS
  <2>1. /\ d.type \in {"challenge", "nonce"} => d.round \in Nat
        /\ d.type = "result" => d.completed \in Nat
    BY DEF IInv, Typed, Messages, Round
  <2>2. Fits(d, server.completed)
    BY DEF IInv
  <2>3. QED
    BY <1>2, <2>1, <2>2 DEF Fits
<1>5. Barrier'
  BY DEF IInv, Barrier, Found, Begun
<1>6. QED
  BY <1>1, <1>3, <1>4, <1>5 DEF IInv

-----------------------------------------------------------------------------

\* The tick: who is complete becomes ready, and member 0 starts once all are.
LEMMA TickInv ==
  ASSUME IInv, NEW m \in Member, NEW found \in SUBSET Undiscovered(m), Tick(m, found)
  PROVE  IInv'
<1> DEFINE s == [member[m] EXCEPT !.peers = @ \cup found]
           t == IF FoundAll(m, s) THEN [s EXCEPT !.ready = @ \cup {m}] ELSE s
           starts == StartsRoundOne(m, s, t)
           u == [t EXCEPT !.requested = @ \/ starts]
           R == (IF FoundAll(m, s) /\ s.ready # Member THEN Ready(m) ELSE {})
                  \cup (IF starts THEN {Request(m)} ELSE {})
<1>1. member[m] \in States /\ found \subseteq Member \cup {Server}
      /\ found \subseteq Others(m) \cup {Server}
  BY DEF IInv, Typed, Undiscovered, Others
<1>2. s \in States
  BY <1>1 DEF States
<1>3. t \in States /\ starts \in BOOLEAN
  BY <1>2 DEF States, StartsRoundOne
<1>4. /\ u \in States
      /\ u.peers = member[m].peers \cup found
      /\ u.round = member[m].round /\ u.sigs = member[m].sigs
      /\ u.completed = member[m].completed
      /\ u.submitted = member[m].submitted /\ u.sent = member[m].sent
      /\ u.ready = t.ready
  BY <1>1, <1>2, <1>3 DEF States
<1>5. (member[m].requested => u.requested) /\ (u.requested => member[m].requested \/ starts)
      /\ (starts => u.requested)
  <2>1. t.requested <=> member[m].requested
    BY <1>1 DEF States
  <2>2. u.requested <=> (t.requested \/ starts)
    BY <1>3 DEF States
  <2>3. QED
    BY <2>1, <2>2
<1>6. FoundAll(m, s) => Complete(m, u)
  BY <1>1, <1>4 DEF FoundAll, Complete, States
<1>7. R \in SUBSET Messages
  BY DEF Messages, Ready, Request, Others
<1>8. member' = [member EXCEPT ![m] = u] /\ msgs' = msgs \cup R /\ server' = server
  BY DEF Tick
<1>9. Local(m, u, server.completed)
  BY <1>1, <1>4 DEF IInv, Local
<1>10. \A p \in u.ready : Found(p) \/ (p = m /\ Complete(m, u))
  <2>1. u.ready \subseteq member[m].ready \/ (FoundAll(m, s) /\ u.ready = member[m].ready \cup {m})
    BY <1>1, <1>4 DEF States
  <2>2. QED
    BY <1>6, <2>1 DEF IInv, Barrier
<1>11. starts => m = 0 /\ u.ready = Member
  BY <1>4 DEF StartsRoundOne
<1>12. \A d \in R : /\ Fits(d, server.completed)
                    /\ IF d.type = "ready" THEN d.src = m /\ Complete(m, u)
                                           ELSE Begun \/ (m = 0 /\ u.requested)
  BY <1>5, <1>6, <1>11 DEF Ready, Request, Fits
<1>13. m = 0 /\ u.requested /\ ~ Begun => u.ready = Member
  BY <1>5, <1>11 DEF Begun
<1>14. u.round # 0 => Begun
  BY <1>4 DEF IInv, Barrier
<1> HIDE DEF s, t, starts, u, R
<1>15. member[m].peers \subseteq u.peers
  BY <1>4
<1>16. QED
  BY <1>4, <1>5, <1>7, <1>8, <1>9, <1>10, <1>12, <1>13, <1>14, <1>15, MemberStep
     DEF IInv

\* What a handler does to m once the group has begun: less is to be shown.
LEMMA HandlerStep ==
  ASSUME IInv, Begun, NEW m \in Member, NEW s \in States, NEW R \in SUBSET Messages,
         member' = [member EXCEPT ![m] = s], server' = server, msgs' \subseteq msgs \cup R,
         Local(m, s, server.completed),
         \A d \in R : Fits(d, server.completed) /\ d.type # "ready",
         s.peers = member[m].peers, s.requested <=> member[m].requested,
         s.ready = member[m].ready
  PROVE  IInv'
<1>1. \A p \in s.ready : Found(p)
  BY DEF IInv, Barrier
<1>2. QED
  BY <1>1, MemberStep

LEMMA ReadyInv ==
  ASSUME IInv, NEW m \in Member, NEW d \in msgs, OnReady(m, d), server' = server
  PROVE  IInv'
<1> DEFINE s == [member[m] EXCEPT !.ready = @ \cup {d.src}]
<1>1. member[m] \in States /\ d.src \in Member /\ Found(d.src)
  BY DEF IInv, Typed, Messages, OnReady, Barrier
<1>2. /\ s \in States
      /\ s.peers = member[m].peers
      /\ s.round = member[m].round /\ s.sigs = member[m].sigs
      /\ s.completed = member[m].completed
      /\ s.submitted = member[m].submitted /\ s.sent = member[m].sent
      /\ s.ready = member[m].ready \cup {d.src}
  BY <1>1 DEF States
<1>3. s.requested <=> member[m].requested
  BY <1>1 DEF States
<1>4. member' = [member EXCEPT ![m] = s] /\ msgs' \subseteq msgs
  BY DEF OnReady
<1>5. Local(m, s, server.completed)
  BY <1>2 DEF IInv, Local
<1>6. \A p \in s.ready : Found(p)
  BY <1>1, <1>2 DEF IInv, Barrier
<1>7. s.round # 0 => Begun
  BY <1>2 DEF IInv, Barrier
<1>8. m = 0 /\ s.requested => Begun
  BY <1>3 DEF Begun
<1> HIDE DEF s
<1> DEFINE R == {}
<1>9. R \in SUBSET Messages /\ msgs' \subseteq msgs \cup R
  BY <1>4
<1>10. \A e \in R : FALSE
  OBVIOUS
<1> HIDE DEF R
<1>11. QED
  BY <1>2, <1>3, <1>4, <1>5, <1>6, <1>7, <1>8, <1>9, <1>10, MemberStep

\* handle_nonce, for the nonce of round r.
LEMMA HandleNonceInv ==
  ASSUME IInv, Begun, NEW m \in Member, NEW r \in Round, r <= server.completed + 1,
         NEW Q \in SUBSET Messages, \A d \in Q : Fits(d, server.completed) /\ d.type # "ready",
         NEW left, left \subseteq msgs \cup Q, HandleNonce(m, r, left), server' = server
  PROVE  IInv'
<1> DEFINE e == EnterRound(member[m], r)
           s == Signed(m, member[m], r)
           R == Q \cup Share(m, member[m], r)
<1>1. member[m] \in States /\ Local(m, member[m], server.completed) /\ r # 0
  BY DEF IInv, Typed, Round
<1>2. CASE r <= member[m].completed
  <2>1. /\ member' = [member EXCEPT ![m] = member[m]]
        /\ msgs' \subseteq msgs \cup Q
    BY <1>2 DEF HandleNonce, IInv, Typed
  <2>2. QED
    BY <1>1, <2>1, HandlerStep
<1>3. CASE ~ (r <= member[m].completed)
  <2>1. /\ e \in States /\ e.round = r
        /\ e.peers = member[m].peers /\ e.ready = member[m].ready
        /\ e.completed = member[m].completed
        /\ e.submitted \in {0, r} /\ e.sent \in {0, r}
        /\ \A g \in e.sigs : g.round = r
        /\ \/ e.sigs = {} /\ ~ Whole(e.sigs, r)
           \/ e.round = member[m].round /\ e.sigs = member[m].sigs
              /\ e.submitted = member[m].submitted
    <3>1. CASE member[m].round = r
      BY <1>1, <3>1 DEF EnterRound, Local
    <3>2. CASE member[m].round # r
      <4>1. e = [member[m] EXCEPT !.round = r, !.sigs = {}, !.submitted = 0, !.sent = 0]
        BY <3>2 DEF EnterRound
      <4>2. ~ Whole({}, r)
        BY OneIsNotAll
      <4>3. QED
        BY <1>1, <4>1, <4>2 DEF States
    <3>3. QED
      BY <3>1, <3>2
  <2>2. e.requested <=> member[m].requested
    <3>1. CASE member[m].round = r
      BY <3>1 DEF EnterRound
    <3>2. CASE member[m].round # r
      BY <1>1, <3>2 DEF EnterRound, States
    <3>3. QED
      BY <3>1, <3>2
  <2>3. CASE m = Submitter(r)
    <3> DEFINE own == [signer |-> m, round |-> r]
    <3>1. s = [e EXCEPT !.sigs = @ \cup {own}]
      BY <2>3 DEF Signed
    <3>2. own \in Signature
      BY DEF Signature
    <3>3. /\ s \in States /\ s.round = r /\ s.peers = e.peers /\ s.ready = e.ready
          /\ s.completed = e.completed /\ s.submitted = e.submitted /\ s.sent = e.sent
          /\ s.sigs = e.sigs \cup {own}
      BY <2>1, <3>1, <3>2 DEF States
    <3>4. s.requested <=> e.requested
      BY <2>1, <3>1 DEF States
    <3>5. Whole(s.sigs, r) => s.submitted = r
      <4>1. CASE e.sigs = {}
        BY <3>3, <4>1, OneIsNotAll
      <4>2. CASE e.round = member[m].round /\ e.sigs = member[m].sigs
                 /\ e.submitted = member[m].submitted
        <5>1. member[m].round = r
          BY <2>1, <4>2
        <5>2. own \in member[m].sigs /\ (Whole(member[m].sigs, r) => member[m].submitted = r)
          BY <1>1, <2>3, <5>1 DEF Local
        <5>3. s.sigs = member[m].sigs /\ s.submitted = member[m].submitted
          BY <3>3, <4>2, <5>2
        <5>4. QED
          BY <5>2, <5>3
      <4>3. QED
        BY <2>1, <4>1, <4>2
    <3>6. Local(m, s, server.completed)
      BY <1>1, <2>1, <3>3, <3>5 DEF Local
    <3>7. Share(m, member[m], r) = {}
      BY <2>3 DEF Share
    <3>8. member' = [member EXCEPT ![m] = s] /\ msgs' \subseteq msgs \cup Q
      BY <1>3, <3>7 DEF HandleNonce
    <3> HIDE DEF s, e
    <3>9. QED
      BY <2>1, <2>2, <3>3, <3>4, <3>6, <3>8, HandlerStep
  <2>4. CASE m # Submitter(r)
    <3>1. s = [e EXCEPT !.sent = r] \/ s = e
      BY <2>4 DEF Signed
    <3>2. /\ s \in States /\ s.round = r /\ s.peers = e.peers /\ s.ready = e.ready
          /\ s.completed = e.completed /\ s.submitted = e.submitted /\ s.sent \in {0, r}
          /\ s.sigs = e.sigs
      BY <2>1, <3>1 DEF States
    <3>3. s.requested <=> e.requested
      BY <2>1, <3>1 DEF States
    <3>4. Local(m, s, server.completed)
      BY <1>1, <2>1, <2>4, <3>2 DEF Local
    <3>5. /\ Share(m, member[m], r) \in SUBSET Messages
          /\ \A d \in Share(m, member[m], r) : Fits(d, server.completed) /\ d.type # "ready"
      <4>1. Submitter(r) \in Member /\ [signer |-> m, round |-> r] \in Signature
        BY SubmitterIsMember DEF Signature
      <4>2. QED
        BY <4>1 DEF Share, Messages, Fits
    <3>6. /\ member' = [member EXCEPT ![m] = s]
          /\ msgs' \subseteq msgs \cup R /\ R \in SUBSET Messages
      BY <1>3, <3>5 DEF HandleNonce
    <3> HIDE DEF s, e
    <3>7. \A d \in R : Fits(d, server.completed) /\ d.type # "ready"
      BY <3>5
    <3> HIDE DEF R
    <3>8. QED
      BY <2>1, <2>2, <3>2, <3>3, <3>4, <3>6, <3>7, HandlerStep
  <2>5. QED
    BY <2>3, <2>4
<1>4. QED
  BY <1>2, <1>3

LEMMA NonceInv ==
  ASSUME IInv, NEW m \in Member, NEW d \in msgs, OnNonce(m, d), server' = server
  PROVE  IInv'
<1>1. Begun /\ d.round \in Round /\ d.round <= server.completed + 1
  BY DEF OnNonce, IInv, Barrier, Fits, Typed, Messages
<1> DEFINE Q == {}  left == msgs \ {d}  r == d.round
<1>2. Q \in SUBSET Messages /\ left \subseteq msgs \cup Q /\ HandleNonce(m, r, left)
  BY DEF OnNonce
<1>3. \A e \in Q : FALSE
  OBVIOUS
<1> HIDE DEF Q, left, r
<1>4. QED
  BY <1>1, <1>2, <1>3, HandleNonceInv DEF r

LEMMA ChallengeInv ==
  ASSUME IInv, NEW m \in Member, NEW d \in msgs, OnChallengeResponse(m, d), server' = server
  PROVE  IInv'
<1>1. Begun /\ d.round \in Round /\ d.round <= server.completed + 1
  BY DEF OnChallengeResponse, IInv, Barrier, Fits, Typed, Messages
<1> DEFINE Q == Relay(m, d.round)  left == (msgs \ {d}) \cup Q  r == d.round
<1>2. member[m].peers \ {Server} \subseteq Member
  BY DEF IInv, Typed, States
<1>3. Q \in SUBSET Messages /\ left \subseteq msgs \cup Q /\ HandleNonce(m, r, left)
  BY <1>1, <1>2 DEF OnChallengeResponse, Relay, Messages
<1>4. \A e \in Q : Fits(e, server.completed) /\ e.type # "ready"
  BY <1>1 DEF Relay, Fits
<1> HIDE DEF Q, left, r
<1>5. QED
  BY <1>1, <1>3, <1>4, HandleNonceInv DEF r

\* Signatures of all members, all of them of round r, are the whole set.
LEMMA SignersMakeWhole ==
  ASSUME NEW S \in SUBSET Signature, NEW r, \A g \in S : g.round = r
  PROVE  {g.signer : g \in S} = Member <=> Whole(S, r)
<1>1. \A g \in S : g = [signer |-> g.signer, round |-> r] /\ g.signer \in Member
  BY DEF Signature
<1>2. ASSUME {g.signer : g \in S} = Member PROVE Whole(S, r)
  <2>1. \A p \in Member : \E g \in S : g.signer = p
    BY <1>2
  <2>2. \A p \in Member : [signer |-> p, round |-> r] \in S
    BY <1>1, <2>1
  <2>3. QED
    BY <1>1, <2>2 DEF Whole
<1>3. ASSUME Whole(S, r) PROVE {g.signer : g \in S} = Member
  <2>1. \A p \in Member : [signer |-> p, round |-> r] \in S /\ [signer |-> p, round |-> r].signer = p
    BY <1>3 DEF Whole
  <2>2. \A p \in Member : p \in {g.signer : g \in S}
    BY <2>1
  <2>3. QED
    BY <1>1, <2>2
<1>4. QED
  BY <1>2, <1>3

\* The last share completes the signatures, and the bundle goes out with it.
LEMMA ShareInv ==
  ASSUME IInv, NEW m \in Member, NEW d \in msgs, OnSignatureShare(m, d), server' = server
  PROVE  IInv'
<1> DEFINE s == [member[m] EXCEPT !.sigs = @ \cup {d.sig}]
           t == IF CanSubmit(s) THEN [s EXCEPT !.submitted = s.round] ELSE s
           bundle == [type |-> "bundle", src |-> m, dst |-> Server, round |-> s.round,
                      sigs |-> s.sigs]
           R == IF CanSubmit(s) THEN {bundle} ELSE {}
<1>1. /\ Begun /\ d.sig \in Signature /\ d.sig.round = d.round /\ d.round \in Round
      /\ d.round # 0
  <2>1. d \in Messages /\ d.type = "share" /\ Fits(d, server.completed) /\ Begun
    BY DEF OnSignatureShare, IInv, Typed, Barrier
  <2>2. d.sig \in Signature /\ d.round \in Round
    BY <2>1 DEF Messages
  <2>3. d.sig.round = d.round
    BY <2>1 DEF Fits
  <2>4. QED
    BY <2>1, <2>2, <2>3 DEF Round
<1>2. member[m] \in States /\ Local(m, member[m], server.completed)
  BY DEF IInv, Typed
<1>3. CASE ~ (d.round = member[m].round /\ m = Submitter(d.round))
  <2> DEFINE Q == {}
  <2>1. /\ member' = [member EXCEPT ![m] = member[m]]
        /\ msgs' \subseteq msgs \cup Q /\ Q \in SUBSET Messages
    BY <1>3 DEF OnSignatureShare, IInv, Typed
  <2>2. \A e \in Q : FALSE
    OBVIOUS
  <2> HIDE DEF Q
  <2>3. QED
    BY <1>1, <1>2, <2>1, <2>2, HandlerStep
<1>4. CASE d.round = member[m].round /\ m = Submitter(d.round)
  <2>1. /\ s \in States
        /\ s.peers = member[m].peers /\ s.ready = member[m].ready
        /\ s.completed = member[m].completed /\ s.round = member[m].round
        /\ s.submitted = member[m].submitted /\ s.sent = member[m].sent
        /\ s.sigs = member[m].sigs \cup {d.sig}
    BY <1>1, <1>2 DEF States
  <2>2. s.requested <=> member[m].requested
    BY <1>2 DEF States
  <2>3. /\ t \in States
        /\ t.peers = s.peers /\ t.ready = s.ready
        /\ t.completed = s.completed /\ t.round = s.round
        /\ t.sent = s.sent /\ t.sigs = s.sigs
        /\ CanSubmit(s) => t.submitted = s.round
        /\ ~ CanSubmit(s) => t.submitted = s.submitted
    BY <2>1 DEF States
  <2>4. t.requested <=> s.requested
    BY <2>1 DEF States
  <2>5. \A g \in s.sigs : g.round = s.round
    BY <1>1, <1>2, <1>4, <2>1 DEF Local
  <2>6. s.sigs \in SUBSET Signature
    BY <2>1 DEF States
  <2>7. {g.signer : g \in s.sigs} = Member <=> Whole(s.sigs, s.round)
    BY <2>5, <2>6, SignersMakeWhole
  <2>8. Server \in s.peers
    BY <1>1, <2>1 DEF IInv, Barrier, Found, Complete
  <2>9. Whole(t.sigs, t.round) => t.submitted = t.round
    BY <2>3, <2>7, <2>8 DEF CanSubmit
  <2>10. [signer |-> m, round |-> s.round] \in t.sigs
    BY <1>1, <1>2, <1>4, <2>1, <2>3 DEF Local
  <2>11. t.submitted \in {0, t.round}
    BY <1>2, <2>1, <2>3 DEF Local
  <2>12. Local(m, t, server.completed)
    BY <1>2, <2>1, <2>3, <2>5, <2>9, <2>10, <2>11 DEF Local
  <2>13. CanSubmit(s) => Whole(s.sigs, s.round)
    BY <2>7 DEF CanSubmit
  <2>14. R \in SUBSET Messages /\ \A e \in R : Fits(e, server.completed) /\ e.type # "ready"
    <3>1. bundle \in Messages
      BY <1>1, <1>4, <2>1, <2>6 DEF Messages
    <3>2. CanSubmit(s) => Fits(bundle, server.completed)
      BY <2>13 DEF Fits
    <3>3. bundle.type # "ready"
      OBVIOUS
    <3> HIDE DEF bundle, s
    <3>4. QED
      BY <3>1, <3>2, <3>3
  <2>15. member' = [member EXCEPT ![m] = t] /\ msgs' \subseteq msgs \cup R
    BY <1>4 DEF OnSignatureShare
  <2> HIDE DEF t, s, R
  <2>16. QED
    BY <1>1, <2>1, <2>2, <2>3, <2>4, <2>12, <2>14, <2>15, HandlerStep
<1>5. QED
  BY <1>3, <1>4

LEMMA ResultInv ==
  ASSUME IInv, NEW m \in Member, NEW d \in msgs, OnRoundResult(m, d), server' = server
  PROVE  IInv'
<1> DEFINE c == IF d.verdict = "recorded" /\ d.completed > member[m].completed
                THEN d.completed ELSE member[m].completed
           s == [member[m] EXCEPT !.completed = c]
           R == NextRequest(m, d)
<1>1. /\ Begun /\ d.completed \in Nat /\ d.completed <= server.completed
  BY DEF OnRoundResult, IInv, Barrier, Fits, Typed, Messages
<1>2. member[m] \in States /\ Local(m, member[m], server.completed)
  BY DEF IInv, Typed
<1>3. c \in Nat /\ c <= server.completed
  BY <1>1, <1>2 DEF States, Local
<1>4. /\ s \in States
      /\ s.peers = member[m].peers /\ s.ready = member[m].ready
      /\ s.completed = c /\ s.round = member[m].round
      /\ s.submitted = member[m].submitted /\ s.sent = member[m].sent
      /\ s.sigs = member[m].sigs
  BY <1>2, <1>3 DEF States
<1>5. s.requested <=> member[m].requested
  BY <1>2 DEF States
<1>6. Local(m, s, server.completed)
  BY <1>2, <1>3, <1>4 DEF Local
<1>7. R \in SUBSET Messages /\ \A e \in R : Fits(e, server.completed) /\ e.type # "ready"
  BY DEF NextRequest, Request, Messages, Fits
<1>8. member' = [member EXCEPT ![m] = s] /\ msgs' \subseteq msgs \cup R
  BY DEF OnRoundResult
<1> HIDE DEF s, R
<1>9. QED
  BY <1>1, <1>4, <1>5, <1>6, <1>7, <1>8, HandlerStep

-----------------------------------------------------------------------------

\* The server answers with the nonce of the round after the last one it recorded.
LEMMA ServeRequestInv ==
  ASSUME IInv, NEW d \in msgs, ServeRequest(d), member' = member
  PROVE  IInv'
<1>1. Begun /\ d.src \in Member
  BY DEF ServeRequest, IInv, Barrier, Typed, Messages
<1>2. server \in [completed : 0 .. RoundCount, active : BOOLEAN, used : SUBSET Member]
  BY DEF IInv, Typed
<1>3. CASE server.completed = RoundCount
  <2> DEFINE R == {Result(d.src, RoundCount, RoundCount, "already completed")}
  <2>1. /\ R \in SUBSET Messages
        /\ \A e \in R : Fits(e, server.completed) /\ e.type # "ready"
    <3> DEFINE e == Result(d.src, RoundCount, RoundCount, "already completed")
    <3>1. RoundCount \in Round /\ RoundCount \in Nat
      BY ServerAssumption DEF Round
    <3>2. e \in Messages
      BY <1>1, <3>1 DEF Result, Messages, Verdict
    <3>3. e.type = "result" /\ e.completed = RoundCount
      BY DEF Result
    <3> HIDE DEF e
    <3>4. Fits(e, server.completed)
      BY <1>3, <3>1, <3>3 DEF Fits
    <3>5. QED
      BY <3>2, <3>3, <3>4 DEF e
  <2>2. msgs' \subseteq msgs \cup R /\ server' = server
    BY <1>3 DEF ServeRequest, Reply
  <2>3. server.active => Begun /\ server.completed < RoundCount
    BY DEF IInv, Barrier
  <2> HIDE DEF R
  <2>4. QED
    BY <1>1, <1>2, <2>1, <2>2, <2>3, ServerStep
<1>4. CASE server.completed # RoundCount
  <2> DEFINE R == {Challenge(d.src, server.completed + 1)}
  <2>1. server.completed + 1 \in Round /\ server.completed < RoundCount
    BY <1>2, <1>4, ServerAssumption DEF Round
  <2>2. /\ R \in SUBSET Messages
        /\ \A e \in R : Fits(e, server.completed) /\ e.type # "ready"
    BY <1>1, <1>2, <2>1 DEF Challenge, Messages, Fits
  <2>3. msgs' \subseteq msgs \cup R /\ server' = [server EXCEPT !.active = TRUE]
    BY <1>4 DEF ServeRequest, Reply
  <2>4. /\ server' \in [completed : 0 .. RoundCount, active : BOOLEAN, used : SUBSET Member]
        /\ server'.completed = server.completed /\ server.completed <= server'.completed
        /\ server'.completed < RoundCount
    <3>1. server' \in [completed : 0 .. RoundCount, active : BOOLEAN, used : SUBSET Member]
      BY <1>2, <2>3
    <3>2. server'.completed = server.completed
      BY <1>2, <2>3
    <3>3. server.completed \in Nat
      BY <1>2
    <3>4. QED
      BY <2>1, <3>1, <3>2, <3>3
  <2> HIDE DEF R
  <2>5. \A e \in R : Fits(e, server'.completed) /\ e.type # "ready" /\ Begun
    BY <1>1, <2>2, <2>4
  <2>6. QED
    BY <1>1, <2>2, <2>3, <2>4, <2>5, ServerStep
<1>5. QED
  BY <1>3, <1>4

\* A recorded round is the one after the last, and ends its challenge.
LEMMA ServeBundleInv ==
  ASSUME IInv, NEW d \in msgs, ServeBundle(d), member' = member
  PROVE  IInv'
<1>1. Begun /\ d.src \in Member /\ d.round \in Round
  BY DEF ServeBundle, IInv, Barrier, Typed, Messages
<1>2. server \in [completed : 0 .. RoundCount, active : BOOLEAN, used : SUBSET Member]
  BY DEF IInv, Typed
<1>3. ASSUME NEW v \in Objections(d), server' = server,
             msgs' = Reply(d, Result(d.src, d.round, server.completed, v))
      PROVE  IInv'
  <2> DEFINE R == {Result(d.src, d.round, server.completed, v)}
  <2>1. v \in Verdict
    BY <1>3 DEF Objections, Verdict
  <2>2. /\ R \in SUBSET Messages
        /\ \A e \in R : Fits(e, server.completed) /\ e.type # "ready"
    BY <1>1, <1>2, <2>1 DEF Result, Messages, Fits
  <2>3. msgs' \subseteq msgs \cup R
    BY <1>3 DEF Reply
  <2>4. server.active => Begun /\ server.completed < RoundCount
    BY DEF IInv, Barrier
  <2> HIDE DEF R
  <2>5. QED
    BY <1>1, <1>2, <1>3, <2>2, <2>3, <2>4, ServerStep
<1>4. ASSUME Objections(d) = {},
             server' = [completed |-> d.round, active |-> FALSE, used |-> server.used \cup {d.src}],
             msgs' = Reply(d, Result(d.src, d.round, d.round, "recorded"))
      PROVE  IInv'
  <2> DEFINE R == {Result(d.src, d.round, d.round, "recorded")}
  <2>1. "no active challenge" \notin Objections(d) /\ "wrong round number" \notin Objections(d)
    BY <1>4
  <2>2. server.active /\ d.round = server.completed + 1
    BY <2>1 DEF Objections
  <2>3. /\ server' \in [completed : 0 .. RoundCount, active : BOOLEAN, used : SUBSET Member]
        /\ server'.completed = d.round /\ ~ server'.active
        /\ server.completed <= server'.completed
    BY <1>1, <1>2, <1>4, <2>2 DEF Round
  <2>4. /\ R \in SUBSET Messages
        /\ \A e \in R : Fits(e, server'.completed) /\ e.type # "ready"
    BY <1>1, <2>3 DEF Result, Messages, Verdict, Fits, Round
  <2>5. msgs' \subseteq msgs \cup R
    BY <1>4 DEF Reply
  <2> HIDE DEF R
  <2>6. QED
    BY <1>1, <2>3, <2>4, <2>5, ServerStep
<1>5. QED
  BY <1>3, <1>4 DEF ServeBundle

\* Nothing changes but what is in flight, which becomes less.
LEMMA LessInFlight ==
  ASSUME IInv, UNCHANGED <<member, server>>, msgs' \subseteq msgs
  PROVE  IInv'
<1> DEFINE R == {}
<1>1. R \in SUBSET Messages /\ msgs' \subseteq msgs \cup R
  OBVIOUS
<1>2. \A e \in R : FALSE
  OBVIOUS
<1>3. server \in [completed : 0 .. RoundCount, active : BOOLEAN, used : SUBSET Member]
  BY DEF IInv, Typed
<1>4. server.active => Begun /\ server.completed < RoundCount
  BY DEF IInv, Barrier
<1> HIDE DEF R
<1>5. QED
  BY <1>1, <1>2, <1>3, <1>4, ServerStep

-----------------------------------------------------------------------------

\* Every step keeps the invariant.
LEMMA NextInv == IInv /\ [Next]_vars => IInv'
<1> SUFFICES ASSUME IInv, [Next]_vars PROVE IInv'
  OBVIOUS
<1>1. ASSUME NEW m \in Member, NEW found \in SUBSET Undiscovered(m), Tick(m, found)
      PROVE  IInv'
  BY <1>1, TickInv
<1>2. ASSUME NEW d \in msgs, NEW m \in Member, Handle(m, d) PROVE IInv'
  BY <1>2, ReadyInv, NonceInv, ChallengeInv, ShareInv, ResultInv DEF Handle
<1>3. ASSUME NEW d \in msgs, Deliver(d) PROVE IInv'
  BY <1>2, <1>3, ServeRequestInv, ServeBundleInv DEF Deliver
<1>4. ASSUME NEW d \in msgs, Lose(d), UNCHANGED <<member, order>> PROVE IInv'
  BY <1>4, LessInFlight DEF Lose
<1>5. CASE UNCHANGED vars
  BY <1>5, LessInFlight DEF vars
<1>6. QED
  BY <1>1, <1>3, <1>4, <1>5 DEF Next

\* The inductive invariant holds in every reachable state.
THEOREM Invariance == Spec => []IInv
  BY InitInv, NextInv, PTL DEF Spec

-----------------------------------------------------------------------------

\* No member is ahead of the server, and it collects signatures for the round it is in
\* (handle_nonce, on_signature_share, on_round_result).
THEOREM TypeCorrect == Spec => []ReadyTypeOK
<1>1. ASSUME IInv PROVE ReadyTypeOK
  <2>1. server.completed \in 0 .. RoundCount /\ server.used \subseteq Member
        /\ server.completed \in Nat
    BY <1>1 DEF IInv, Typed
  <2>2. ASSUME NEW m \in Member
        PROVE  /\ member[m].completed <= server.completed
               /\ member[m].round \in 0 .. server.completed + 1
               /\ {member[m].submitted, member[m].sent} \subseteq {0, member[m].round}
               /\ member[m].peers \subseteq Others(m) \cup {Server}
               /\ member[m].ready \subseteq Member
               /\ member[m].sigs \subseteq [signer : Member, round : {member[m].round}]
    <3>1. member[m] \in States /\ Local(m, member[m], server.completed)
      BY <1>1 DEF IInv, Typed
    <3>2. member[m].round \in Nat
      BY <3>1 DEF States, Round
    <3>3. member[m].sigs \subseteq [signer : Member, round : {member[m].round}]
      BY <3>1 DEF Local, States, Signature
    <3>4. QED
      BY <2>1, <3>1, <3>2, <3>3 DEF Local, States
  <2>3. QED
    BY <2>1, <2>2 DEF ReadyTypeOK
<1>2. QED
  BY <1>1, Invariance, PTL

\* A bundle on its way has the signatures of all members, over the nonce of its round
\* (submit_if_ready, on_signature_share).
THEOREM BundlesAreWhole == Spec => []BundleIsWhole
<1>1. IInv => BundleIsWhole
  BY DEF IInv, Fits, Whole, BundleIsWhole
<1>2. QED
  BY <1>1, Invariance, PTL

\* The barrier holds, whatever Readys are lost or late: the first nonce is asked for
\* when every member has found all (tick, on_ready).
THEOREM BarrierHolds == Spec => []StartsTogether
<1>1. IInv => StartsTogether
  BY DEF IInv, Barrier, Begun, Found, Complete, StartsTogether
<1>2. QED
  BY <1>1, Invariance, PTL

\* No member holds all the signatures of its round unsubmitted (submit_if_ready, which
\* nothing but a share calls).
THEOREM NothingIsLeft == Spec => []NothingLeftToSubmit
<1>1. ASSUME IInv, NEW m \in Member, {g.signer : g \in member[m].sigs} = Member
      PROVE  member[m].submitted = member[m].round
  <2>1. member[m] \in States /\ Local(m, member[m], server.completed)
    BY <1>1 DEF IInv, Typed
  <2>2. member[m].sigs \in SUBSET Signature /\ \A g \in member[m].sigs : g.round = member[m].round
    BY <2>1 DEF States, Local
  <2>3. Whole(member[m].sigs, member[m].round)
    BY <1>1, <2>2, SignersMakeWhole
  <2>4. QED
    BY <2>1, <2>3 DEF Local
<1>2. IInv => NothingLeftToSubmit
  BY <1>1 DEF NothingLeftToSubmit
<1>3. QED
  BY <1>2, Invariance, PTL
-----------------------------------------------------------------------------
(***************************************************************************)
(* On a network that loses nothing and keeps the order of datagrams, the   *)
(* group stalls in round two: its nonce is asked for by member 0, whose    *)
(* share reaches member 1 before the nonce does, is dropped and is not     *)
(* sent again.                                                             *)
(***************************************************************************)

SendOrder == order = "sent" /\ faults = 0

\* Member 0 has sent its share of round two, and will not send it again.
Ahead == member[0].completed >= 1 /\ member[0].round = 2 /\ member[0].sent = 2

\* The share that member 1 needs, with a signature it does not have.
Missing == [signer |-> 0, round |-> 2]

IsMissing(d) == d.type = "share" /\ d.src = 0 /\ d.round = 2

\* A datagram of round one, or of member 0 on its way through round two.
InOrder(d) ==
    /\ d.type = "request" =>
         d.src = 0 /\ (member[0].completed >= 1 \/ (server.completed = 0 /\ ~ server.active))
    /\ d.type = "challenge" => d.dst = 0 /\ (d.round # 1 => member[0].completed >= 1)
    /\ d.type = "nonce" => d.src = 0 /\ d.dst # 0 /\ (d.round # 1 => Ahead)
    /\ IsMissing(d) => member[1].round # 2
    /\ d.type = "bundle" => d.round = 1
    /\ d.type = "result" /\ d.verdict = "recorded" => d.round = 1 /\ d.completed = 1

Stuck ==
    /\ server.completed <= 1
    /\ server.completed # 0 => Begun
    /\ \A d \in msgs : InOrder(d)
    /\ member[1].round = 2 => Ahead /\ Missing \notin member[1].sigs

Stall == faults \in Nat /\ (SendOrder => Stuck)

\* A step of a member, which sends R.
LEMMA StuckMember ==
  ASSUME IInv, Stuck, server' = server, NEW R, msgs' \subseteq msgs \cup R,
         Begun => Begun',
         member[0].completed >= 1 => member'[0].completed >= 1,
         Ahead => Ahead',
         \A d \in R : InOrder(d)',
         member'[1].round = 2 =>
           /\ Ahead' /\ Missing \notin member'[1].sigs
           /\ member[1].round = 2 \/ \A d \in msgs' : ~ IsMissing(d)
  PROVE  Stuck'
<1>1. ASSUME NEW d \in msgs', d \in msgs PROVE InOrder(d)'
  <2>1. InOrder(d)
    BY <1>1 DEF Stuck
  <2> QED BY <1>1, <2>1 DEF InOrder, IsMissing
<1> QED BY <1>1 DEF Stuck

\* A step that leaves rounds, completions and signatures alone, and sends no more
\* than R.
LEMMA StuckQuiet ==
  ASSUME IInv, Stuck, server' = server, NEW R, msgs' \subseteq msgs \cup R,
         Begun => Begun',
         \A m \in {0, 1} : /\ member'[m].completed = member[m].completed
                           /\ member'[m].round = member[m].round
                           /\ member'[m].sent = member[m].sent
                           /\ member'[m].sigs = member[m].sigs,
         \A d \in R : InOrder(d)'
  PROVE  Stuck'
<1>1. Ahead => Ahead'
  BY DEF Ahead
<1>2. member'[1].round = 2 => /\ Ahead' /\ Missing \notin member'[1].sigs
                              /\ member[1].round = 2
  BY <1>1 DEF Stuck
<1>3. member[0].completed >= 1 => member'[0].completed >= 1
  OBVIOUS
<1> QED BY <1>1, <1>2, <1>3, StuckMember

LEMMA StuckTick ==
  ASSUME IInv, Stuck, NEW m \in Member, NEW found \in SUBSET Undiscovered(m), Tick(m, found)
  PROVE  Stuck'
<1> DEFINE s == [member[m] EXCEPT !.peers = @ \cup found]
           t == IF FoundAll(m, s) THEN [s EXCEPT !.ready = @ \cup {m}] ELSE s
           starts == StartsRoundOne(m, s, t)
           u == [t EXCEPT !.requested = @ \/ starts]
           R == (IF FoundAll(m, s) /\ s.ready # Member THEN Ready(m) ELSE {})
                  \cup (IF starts THEN {Request(m)} ELSE {})
<1>1. member[m] \in States
  BY DEF IInv, Typed
<1>2. /\ t.completed = member[m].completed /\ t.round = member[m].round
      /\ t.sent = member[m].sent /\ t.sigs = member[m].sigs
  BY <1>1 DEF States
<1>3. (t.requested <=> member[m].requested) /\ t \in States
  <2>1. found \subseteq Member \cup {Server}
    BY DEF Undiscovered, Others
  <2>2. s \in States /\ (s.requested <=> member[m].requested)
    BY <1>1, <2>1 DEF States
  <2> HIDE DEF s
  <2> QED BY <2>2 DEF States
<1>4. /\ u.completed = member[m].completed /\ u.round = member[m].round
      /\ u.sent = member[m].sent /\ u.sigs = member[m].sigs
      /\ member[m].requested => u.requested
  <2> HIDE DEF t, starts
  <2> QED BY <1>2, <1>3 DEF States
<1>5. starts => m = 0 /\ ~ Begun
  BY <1>3 DEF StartsRoundOne, Begun
<1>6. member' = [member EXCEPT ![m] = u] /\ msgs' = msgs \cup R /\ server' = server
  BY DEF Tick
<1>7. ASSUME NEW d \in R PROVE InOrder(d)'
  <2>1. CASE d.type = "ready"
    BY <2>1 DEF InOrder, IsMissing
  <2>2. CASE starts /\ d = Request(0)
    <3>1. d.type = "request" /\ d.src = 0
      BY <2>2 DEF Request
    <3>2. server.completed = 0 /\ ~ server.active
      BY <1>5, <2>2 DEF Stuck, IInv, Barrier
    <3> QED BY <1>6, <3>1, <3>2 DEF InOrder, IsMissing
  <2> QED BY <1>5, <2>1, <2>2 DEF Ready
<1> HIDE DEF s, t, starts, u, R
<1>8. \A p \in Member : member'[p] = IF p = m THEN u ELSE member[p]
  BY <1>6 DEF IInv, Typed
<1>9. Begun => Begun'
  BY <1>4, <1>8, ZeroIsMember DEF Begun
<1>10. \A p \in {0, 1} : /\ member'[p].completed = member[p].completed
                         /\ member'[p].round = member[p].round
                         /\ member'[p].sent = member[p].sent
                         /\ member'[p].sigs = member[p].sigs
  BY <1>4, <1>8, ZeroIsMember
<1> QED BY <1>6, <1>7, <1>9, <1>10, StuckQuiet

LEMMA StuckReady ==
  ASSUME IInv, Stuck, NEW m \in Member, NEW d \in msgs, OnReady(m, d), server' = server
  PROVE  Stuck'
<1> DEFINE s == [member[m] EXCEPT !.ready = @ \cup {d.src}]
           R == {}
<1>1. member[m] \in States
  BY DEF IInv, Typed
<1>2. /\ s.completed = member[m].completed /\ s.round = member[m].round
      /\ s.sent = member[m].sent /\ s.sigs = member[m].sigs
      /\ s.requested = member[m].requested
  BY <1>1 DEF States
<1>3. member' = [member EXCEPT ![m] = s] /\ msgs' \subseteq msgs \cup R
      /\ \A e \in R : InOrder(e)'
  BY DEF OnReady
<1> HIDE DEF s, R
<1>4. \A p \in Member : member'[p] = IF p = m THEN s ELSE member[p]
  BY <1>3 DEF IInv, Typed
<1>5. Begun => Begun'
  BY <1>2, <1>4, ZeroIsMember DEF Begun
<1>6. \A p \in {0, 1} : /\ member'[p].completed = member[p].completed
                        /\ member'[p].round = member[p].round
                        /\ member'[p].sent = member[p].sent
                        /\ member'[p].sigs = member[p].sigs
  BY <1>2, <1>4, ZeroIsMember
<1> QED BY <1>3, <1>5, <1>6, StuckQuiet

\* What handle_nonce leaves of a state: where it enters a round, it starts with
\* its own signature at most.
LEMMA SignedState ==
  ASSUME NEW m \in Member, NEW s \in States, NEW r \in Round
  PROVE  LET t == Signed(m, s, r)
         IN  /\ t.round = r /\ t.completed = s.completed
             /\ t.requested <=> s.requested
             /\ t.sigs \subseteq (IF s.round = r THEN s.sigs ELSE {})
                                    \cup {[signer |-> m, round |-> r]}
             /\ m # Submitter(r) /\ Submitter(r) \in s.peers => t.sent = r
<1> DEFINE e == EnterRound(s, r)
           t == Signed(m, s, r)
<1>1. /\ e \in States /\ e.round = r /\ e.completed = s.completed /\ e.peers = s.peers
      /\ e.requested <=> s.requested
      /\ e.sigs = IF s.round = r THEN s.sigs ELSE {}
  <2>1. CASE s.round = r
    BY <2>1 DEF EnterRound
  <2>2. CASE s.round # r
    <3>1. e = [s EXCEPT !.round = r, !.sigs = {}, !.submitted = 0, !.sent = 0]
      BY <2>2 DEF EnterRound
    <3> HIDE DEF e
    <3>2. /\ e.peers = s.peers /\ e.round = r /\ e.sigs = {} /\ e.completed = s.completed
          /\ e.requested = s.requested /\ e \in States
      BY <3>1 DEF States
    <3> QED BY <2>2, <3>2
  <2> QED BY <2>1, <2>2
<1>2. \/ m = Submitter(r) /\ t = [e EXCEPT !.sigs = @ \cup {[signer |-> m, round |-> r]}]
      \/ m # Submitter(r) /\ Submitter(r) \in s.peers /\ t = [e EXCEPT !.sent = r]
      \/ m # Submitter(r) /\ Submitter(r) \notin s.peers /\ t = e
  BY <1>1 DEF Signed
<1> HIDE DEF e, t
<1>3. t.round = r /\ t.completed = s.completed
  BY <1>1, <1>2 DEF States
<1>4. t.requested <=> s.requested
  BY <1>1, <1>2 DEF States
<1>5. t.sigs \subseteq e.sigs \cup {[signer |-> m, round |-> r]}
  BY <1>1, <1>2 DEF States
<1>6. m # Submitter(r) /\ Submitter(r) \in s.peers => t.sent = r
  BY <1>1, <1>2 DEF States
<1> QED BY <1>1, <1>3, <1>4, <1>5, <1>6 DEF t

\* The share of member 0 is there before its nonce.
LEMMA ShareComesFirst ==
  ASSUME IInv, order = "sent", NEW d \in msgs, d.type = "nonce", d.src = 0, d.round = 2,
         d.dst = 1, ~ Overtakes(d), NEW e \in msgs
  PROVE  ~ IsMissing(e)
<1> SUFFICES ASSUME IsMissing(e) PROVE FALSE
  OBVIOUS
<1>1. d \in Messages /\ e \in Messages /\ Fits(e, server.completed)
  BY DEF IInv, Typed
<1>2. e.dst = 1 /\ "round" \in DOMAIN d /\ "round" \in DOMAIN e
  BY <1>1 DEF IsMissing, Messages, Fits, Submitter
<1> QED BY <1>2 DEF Overtakes, Precedes, SharedFirst, IsMissing

LEMMA StuckNonce ==
  ASSUME IInv, Stuck, order = "sent", NEW m \in Member, NEW d \in msgs, d.dst = m,
         ~ Overtakes(d), OnNonce(m, d), server' = server
  PROVE  Stuck'
<1> DEFINE r == d.round
           s == Signed(m, member[m], r)
           R == Share(m, member[m], r)
<1>1. /\ m # 0 /\ d.src = 0 /\ (r # 1 => Ahead) /\ d.type = "nonce"
      /\ r \in Round /\ r <= server.completed + 1
  <2>1. InOrder(d) /\ d \in Messages /\ Fits(d, server.completed) /\ d.type = "nonce"
    BY DEF Stuck, IInv, Typed, OnNonce
  <2> QED BY <2>1 DEF InOrder, Messages, Fits
<1>2. r \in {1, 2}
  BY <1>1 DEF Round, Stuck, IInv, Typed
<1>3. CASE r <= member[m].completed
  <2> DEFINE Q == {}
  <2>1. member' = member /\ msgs' \subseteq msgs \cup Q /\ \A e \in Q : InOrder(e)'
    BY <1>3 DEF OnNonce, HandleNonce
  <2> HIDE DEF Q
  <2> QED BY <2>1, StuckQuiet DEF Begun
<1>4. CASE ~ (r <= member[m].completed)
  <2>1. member' = [member EXCEPT ![m] = s] /\ msgs' \subseteq msgs \cup R
    BY <1>4 DEF OnNonce, HandleNonce
  <2>2. \A p \in Member : member'[p] = IF p = m THEN s ELSE member[p]
    BY <2>1 DEF IInv, Typed
  <2>3. member'[0] = member[0]
    BY <1>1, <2>2, ZeroIsMember
  <2>4. \A e \in R : e.type = "share" /\ ~ IsMissing(e)
    BY <1>1 DEF Share, IsMissing
  <2>5. member[m] \in States
    BY DEF IInv, Typed
  <2>6. /\ s.round = r
        /\ s.sigs \subseteq (IF member[m].round = r THEN member[m].sigs ELSE {})
                               \cup {[signer |-> m, round |-> r]}
    BY <1>1, <2>5, SignedState
  <2> HIDE DEF s, R
  <2>7. \A e \in R : InOrder(e)'
    BY <2>4 DEF InOrder
  <2>8. Ahead => Ahead'
    BY <2>3 DEF Ahead
  <2>9. ASSUME member'[1].round = 2, m = 1
        PROVE  /\ Ahead' /\ Missing \notin member'[1].sigs
               /\ \A e \in msgs' : ~ IsMissing(e)
    <3>1. r = 2 /\ Ahead
      BY <1>1, <2>2, <2>6, <2>9
    <3>2. [signer |-> m, round |-> r].signer = m /\ Missing.signer = 0
      BY DEF Missing
    <3>3. Missing # [signer |-> m, round |-> r]
      BY <1>1, <3>2
    <3>4. member[1].round = 2 => Missing \notin member[1].sigs
      BY DEF Stuck
    <3>5. Missing \notin s.sigs
      BY <2>6, <2>9, <3>1, <3>3, <3>4
    <3>6. \A e \in msgs : ~ IsMissing(e)
      BY <1>1, <2>9, <3>1, ShareComesFirst
    <3> QED BY <2>1, <2>2, <2>4, <2>8, <2>9, <3>1, <3>5, <3>6
  <2>10. ASSUME member'[1].round = 2, m # 1
         PROVE  Ahead' /\ Missing \notin member'[1].sigs /\ member[1].round = 2
    BY <2>2, <2>8, <2>10, ZeroIsMember DEF Stuck
  <2>11. Begun => Begun'
    BY <2>3 DEF Begun
  <2> QED BY <2>1, <2>3, <2>7, <2>8, <2>9, <2>10, <2>11, StuckMember
<1> QED BY <1>3, <1>4

\* Member 0 enters round two: it sends its share, and the nonce after it.
LEMMA StuckChallenge ==
  ASSUME IInv, Stuck, NEW m \in Member, NEW d \in msgs, d.dst = m,
         OnChallengeResponse(m, d), server' = server
  PROVE  Stuck'
<1> DEFINE r == d.round
           s == Signed(0, member[0], r)
           N == Relay(0, r)
           S == Share(0, member[0], r)
           R == N \cup S
<1>1. /\ m = 0 /\ (r # 1 => member[0].completed >= 1)
      /\ r \in Round /\ r <= server.completed + 1
  <2>1. InOrder(d) /\ d \in Messages /\ Fits(d, server.completed) /\ d.type = "challenge"
    BY DEF Stuck, IInv, Typed, OnChallengeResponse
  <2> QED BY <2>1 DEF InOrder, Messages, Fits
<1>2. r \in {1, 2} /\ Begun
  <2>1. Begun
    BY DEF IInv, Barrier, OnChallengeResponse
  <2> QED BY <1>1, <2>1 DEF Round, Stuck, IInv, Typed
<1>3. /\ member[0] \in States /\ member[0].peers = Others(0) \cup {Server}
      /\ Local(0, member[0], server.completed)
  BY <1>2, ZeroIsMember DEF IInv, Typed, Barrier, Found, Complete
<1>4. \A e \in N : e.type = "nonce" /\ e.src = 0 /\ e.dst # 0 /\ e.round = r
  BY <1>3 DEF Relay, Others
<1>5. CASE r <= member[0].completed
  <2>1. member' = member /\ msgs' \subseteq msgs \cup N
    BY <1>1, <1>5 DEF OnChallengeResponse, HandleNonce
  <2>2. r = 1
    BY <1>2, <1>3, <1>5 DEF Local, Stuck, States, IInv, Typed
  <2> HIDE DEF N
  <2>3. \A e \in N : InOrder(e)'
    BY <1>4, <2>2 DEF InOrder, IsMissing
  <2> QED BY <2>1, <2>3, StuckQuiet DEF Begun
<1>6. CASE ~ (r <= member[0].completed)
  <2>1. member' = [member EXCEPT ![0] = s] /\ msgs' \subseteq msgs \cup R
    BY <1>1, <1>6 DEF OnChallengeResponse, HandleNonce
  <2>2. \A p \in Member : member'[p] = IF p = 0 THEN s ELSE member[p]
    BY <2>1, ZeroIsMember DEF IInv, Typed
  <2>3. member'[0] = s /\ member'[1] = member[1]
    BY <2>2, ZeroIsMember
  <2>4. /\ s.round = r /\ s.completed = member[0].completed
        /\ s.requested <=> member[0].requested
        /\ 0 # Submitter(r) /\ Submitter(r) \in member[0].peers => s.sent = r
    BY <1>1, <1>3, ZeroIsMember, SignedState
  <2>5. \A e \in S : e.type = "share" /\ (r = 1 => FALSE) /\ EnterRound(member[0], r).sent # r
    BY DEF Share, Submitter
  <2> HIDE DEF s, N, S
  <2>6. Begun => Begun'
    BY <2>3, <2>4 DEF Begun
  <2>7. member[0].completed >= 1 => member'[0].completed >= 1
    BY <2>3, <2>4
  <2>8. CASE r = 1
    <3>1. ~ Ahead
      BY <1>3, <1>6, <2>8 DEF Ahead, States
    <3>2. member[1].round # 2
      BY <3>1 DEF Stuck
    <3>3. \A e \in R : InOrder(e)'
      BY <1>4, <2>5, <2>8 DEF InOrder, IsMissing
    <3> HIDE DEF R
    <3> QED BY <2>1, <2>3, <2>6, <2>7, <3>1, <3>2, <3>3, StuckMember
  <2>9. CASE r = 2
    <3>1. Submitter(r) = 1 /\ 1 \in member[0].peers
      BY <1>3, <2>9, ZeroIsMember DEF Submitter, Others
    <3>2. Ahead'
      BY <1>1, <2>3, <2>4, <2>7, <2>9, <3>1 DEF Ahead
    <3>3. ASSUME NEW e \in S PROVE member'[1].round # 2
      <4>1. EnterRound(member[0], r).sent # r
        BY <2>5, <3>3
      <4>2. ~ Ahead
        BY <2>9, <4>1 DEF EnterRound, Ahead
      <4> QED BY <2>3, <4>2 DEF Stuck
    <3>4. \A e \in R : InOrder(e)'
      <4>1. \A e \in N : InOrder(e)'
        BY <1>4, <3>2 DEF InOrder, IsMissing
      <4>2. \A e \in S : InOrder(e)'
        BY <2>5, <3>3 DEF InOrder
      <4> QED BY <4>1, <4>2
    <3> HIDE DEF R
    <3>5. member'[1].round = 2 => Missing \notin member'[1].sigs /\ member[1].round = 2
      BY <2>3 DEF Stuck
    <3> QED BY <2>1, <2>6, <2>7, <3>2, <3>4, <3>5, StuckMember
  <2> QED BY <1>2, <2>8, <2>9
<1> QED BY <1>5, <1>6

\* In round two the signatures are never complete.
LEMMA StuckShare ==
  ASSUME IInv, Stuck, NEW m \in Member, NEW d \in msgs, OnSignatureShare(m, d), server' = server
  PROVE  Stuck'
<1> DEFINE s == [member[m] EXCEPT !.sigs = @ \cup {d.sig}]
           t == IF CanSubmit(s) THEN [s EXCEPT !.submitted = s.round] ELSE s
           bundle == [type |-> "bundle", src |-> m, dst |-> Server, round |-> s.round,
                      sigs |-> s.sigs]
           R == IF CanSubmit(s) THEN {bundle} ELSE {}
<1>1. /\ d.type = "share" /\ d.sig = [signer |-> d.src, round |-> d.round]
      /\ d.round \in Round /\ d.sig \in Signature /\ InOrder(d)
  <2>1. InOrder(d) /\ d \in Messages /\ Fits(d, server.completed) /\ d.type = "share"
    BY DEF Stuck, IInv, Typed, OnSignatureShare
  <2> QED BY <2>1 DEF Messages, Fits
<1>2. member[m] \in States /\ Local(m, member[m], server.completed)
  BY DEF IInv, Typed
<1>3. CASE ~ (d.round = member[m].round /\ m = Submitter(d.round))
  <2> DEFINE Q == {}
  <2>1. member' = member /\ msgs' \subseteq msgs \cup Q /\ \A e \in Q : InOrder(e)'
    BY <1>3 DEF OnSignatureShare
  <2> HIDE DEF Q
  <2> QED BY <2>1, StuckQuiet DEF Begun
<1>4. CASE d.round = member[m].round /\ m = Submitter(d.round)
  <2>1. member' = [member EXCEPT ![m] = t] /\ msgs' \subseteq msgs \cup R
    BY <1>4 DEF OnSignatureShare
  <2>2. /\ s \in States /\ s.completed = member[m].completed /\ s.round = member[m].round
        /\ s.sent = member[m].sent /\ s.sigs = member[m].sigs \cup {d.sig}
        /\ s.requested = member[m].requested
    BY <1>1, <1>2 DEF States
  <2>3. /\ t.completed = member[m].completed /\ t.round = member[m].round
        /\ t.sent = member[m].sent /\ t.sigs = member[m].sigs \cup {d.sig}
        /\ t.requested = member[m].requested
    <3> HIDE DEF s
    <3> QED BY <2>2 DEF States
  <2>4. d.round \in {1, 2} /\ m = d.round - 1
    BY <1>1, <1>2, <1>4 DEF Local, Stuck, IInv, Typed, Round, Submitter
  <2>5. ASSUME d.round = 2 PROVE Missing \notin t.sigs /\ ~ CanSubmit(s)
    <3>1. m = 1 /\ member[1].round = 2
      BY <1>4, <2>4, <2>5
    <3>2. d.src # 0 /\ Missing \notin member[1].sigs
      BY <1>1, <2>5, <3>1 DEF InOrder, IsMissing, Stuck
    <3>3. Missing # d.sig
      <4>1. Missing.signer = 0 /\ d.sig.signer = d.src
        BY <1>1 DEF Missing
      <4> QED BY <3>2, <4>1
    <3>4. Missing \notin s.sigs /\ Missing \notin t.sigs
      BY <2>2, <2>3, <3>1, <3>2, <3>3
    <3>5. \A g \in s.sigs : g \in Signature /\ g.round = 2
      BY <1>1, <1>2, <2>2, <2>5, <3>1 DEF Local, States
    <3>6. \A g \in s.sigs : g.signer # 0
      <4> SUFFICES ASSUME NEW g \in s.sigs, g.signer = 0 PROVE FALSE
        OBVIOUS
      <4>1. g = Missing
        BY <3>5 DEF Missing, Signature
      <4> QED BY <3>4, <4>1
    <3>7. 0 \notin {g.signer : g \in s.sigs}
      BY <3>6
    <3> QED BY <3>4, <3>7, ZeroIsMember DEF CanSubmit
  <2>6. \A e \in R : InOrder(e)'
    <3>1. bundle.type = "bundle" /\ bundle.round = d.round
      BY <1>4, <2>2
    <3>2. R # {} => d.round = 1
      BY <2>4, <2>5
    <3>3. \A e \in R : e.type = "bundle" /\ e.round = 1
      <4> HIDE DEF s, bundle
      <4> QED BY <3>1, <3>2
    <3> QED BY <3>3 DEF InOrder, IsMissing
  <2> HIDE DEF s, t, R
  <2>7. \A p \in Member : member'[p] = IF p = m THEN t ELSE member[p]
    BY <2>1 DEF IInv, Typed
  <2>8. /\ member'[0].completed = member[0].completed /\ member'[0].round = member[0].round
        /\ member'[0].sent = member[0].sent /\ member'[0].requested = member[0].requested
        /\ member'[1].round = member[1].round
    BY <2>3, <2>7, ZeroIsMember
  <2>9. (Ahead => Ahead') /\ (Begun => Begun')
    BY <2>8 DEF Ahead, Begun
  <2>10. member'[1].round = 2 => Missing \notin member'[1].sigs
    <3>1. CASE m = 1
      BY <1>4, <2>3, <2>5, <2>7, <2>8, <3>1
    <3>2. CASE m # 1
      BY <2>7, <2>8, <3>2, ZeroIsMember DEF Stuck
    <3> QED BY <3>1, <3>2
  <2>11. member'[1].round = 2 => Ahead' /\ member[1].round = 2
    BY <2>8, <2>9 DEF Stuck
  <2> QED BY <2>1, <2>6, <2>8, <2>9, <2>10, <2>11, StuckMember
<1> QED BY <1>3, <1>4

LEMMA StuckResult ==
  ASSUME IInv, Stuck, NEW m \in Member, NEW d \in msgs, OnRoundResult(m, d), server' = server
  PROVE  Stuck'
<1> DEFINE c == IF d.verdict = "recorded" /\ d.completed > member[m].completed
                THEN d.completed ELSE member[m].completed
           s == [member[m] EXCEPT !.completed = c]
           R == NextRequest(m, d)
<1>1. /\ InOrder(d) /\ d.type = "result" /\ d.completed \in Nat
      /\ member[m] \in States /\ member[m].completed \in Nat
  BY DEF Stuck, IInv, Typed, OnRoundResult, Messages, States
<1>2. c \in Nat /\ c >= member[m].completed
      /\ (d.verdict = "recorded" => c >= d.completed)
  BY <1>1
<1>3. /\ s.completed = c /\ s.round = member[m].round /\ s.sent = member[m].sent
      /\ s.sigs = member[m].sigs /\ s.requested = member[m].requested
  BY <1>1 DEF States
<1>4. member' = [member EXCEPT ![m] = s] /\ msgs' \subseteq msgs \cup R
  BY DEF OnRoundResult
<1>5. \A p \in Member : member'[p] = IF p = m THEN s ELSE member[p]
  BY <1>4 DEF IInv, Typed
<1>6. ASSUME NEW e \in R PROVE InOrder(e)'
  <2>1. d.verdict = "recorded" /\ m = Submitter(d.round) /\ e = Request(m)
    BY <1>6 DEF NextRequest
  <2>2. d.round = 1 /\ d.completed = 1
    BY <1>1, <2>1 DEF InOrder
  <2>3. m = 0 /\ e.type = "request" /\ e.src = 0
    BY <2>1, <2>2 DEF Submitter, Request
  <2>4. member'[0].completed >= 1
    BY <1>2, <1>3, <1>5, <2>1, <2>2, <2>3
  <2> QED BY <2>3, <2>4 DEF InOrder, IsMissing
<1> HIDE DEF c, s, R
<1>7. /\ member'[0].round = member[0].round /\ member'[0].sent = member[0].sent
      /\ member'[0].requested = member[0].requested
      /\ member'[1].round = member[1].round /\ member'[1].sigs = member[1].sigs
  BY <1>3, <1>5, ZeroIsMember
<1>8. member[0].completed >= 1 => member'[0].completed >= 1
  BY <1>1, <1>2, <1>3, <1>5, ZeroIsMember
<1>9. (Ahead => Ahead') /\ (Begun => Begun')
  BY <1>7, <1>8 DEF Ahead, Begun
<1>10. member'[1].round = 2 => Ahead' /\ Missing \notin member'[1].sigs /\ member[1].round = 2
  BY <1>7, <1>9 DEF Stuck
<1> QED BY <1>4, <1>6, <1>8, <1>9, <1>10, StuckMember

\* A step of the server that answers with e; requests still in flight are in order.
LEMMA StuckServer ==
  ASSUME IInv, Stuck, member' = member, NEW e, msgs' \subseteq msgs \cup {e},
         server'.completed <= 1, server'.completed # 0 => Begun, InOrder(e)',
         \A d \in msgs' : d.type = "request" /\ d \in msgs => InOrder(d)'
  PROVE  Stuck'
<1>1. ASSUME NEW d \in msgs, d.type # "request" PROVE InOrder(d)'
  <2>1. InOrder(d)
    BY DEF Stuck
  <2> QED BY <1>1, <2>1 DEF InOrder, Ahead
<1>2. \A d \in msgs' : InOrder(d)'
  BY <1>1
<1> QED BY <1>2 DEF Stuck, Begun, Ahead

LEMMA StuckServeRequest ==
  ASSUME IInv, Stuck, NEW d \in msgs, ServeRequest(d), member' = member
  PROVE  Stuck'
<1>1. /\ d.src = 0 /\ d.type = "request" /\ d \in Messages
      /\ member[0].completed >= 1 \/ (server.completed = 0 /\ ~ server.active)
  BY DEF Stuck, ServeRequest, InOrder, IInv, Typed
<1>2. ASSUME NEW b \in msgs, b.type = "request" PROVE b = d
  <2>1. b.src = 0 /\ b \in Messages
    BY <1>2 DEF Stuck, InOrder, IInv, Typed
  <2>2. /\ b \in [type : {"request"}, src : Member, dst : {Server}]
        /\ d \in [type : {"request"}, src : Member, dst : {Server}]
    BY <1>1, <1>2, <2>1 DEF Messages
  <2> QED BY <1>1, <2>1, <2>2
<1>3. /\ server \in [completed : 0 .. RoundCount, active : BOOLEAN, used : SUBSET Member]
      /\ server.completed <= 1 /\ (server.completed # 0 => Begun)
  BY DEF IInv, Typed, Stuck
<1>4. CASE server.completed = RoundCount
  <2> DEFINE e == Result(d.src, RoundCount, RoundCount, "already completed")
  <2>1. e.type = "result" /\ e.verdict = "already completed"
    BY DEF Result
  <2>2. msgs' = (msgs \ {d}) \cup {e} /\ server' = server
    BY <1>4 DEF ServeRequest, Reply
  <2> HIDE DEF e
  <2>3. InOrder(e)'
    BY <2>1 DEF InOrder, IsMissing
  <2>4. \A b \in msgs' : b.type = "request" /\ b \in msgs => FALSE
    BY <1>2, <2>1, <2>2
  <2> QED BY <1>3, <2>2, <2>3, <2>4, StuckServer
<1>5. CASE server.completed # RoundCount
  <2>0. PICK e : e = Challenge(d.src, server.completed + 1)
    OBVIOUS
  <2>1. e.type = "challenge" /\ e.dst = 0 /\ e.round = server.completed + 1
    BY <1>1, <2>0 DEF Challenge
  <2>2. msgs' = (msgs \ {d}) \cup {e} /\ server' = [server EXCEPT !.active = TRUE]
    BY <1>5, <2>0 DEF ServeRequest, Reply
  <2>3. server'.completed = server.completed
    BY <1>3, <2>2
  <2>4. InOrder(e)'
    BY <1>1, <1>3, <2>1 DEF InOrder, IsMissing
  <2>5. \A b \in msgs' : b.type = "request" /\ b \in msgs => FALSE
    BY <1>2, <2>1, <2>2
  <2> QED BY <1>3, <2>2, <2>3, <2>4, <2>5, StuckServer
<1> QED BY <1>4, <1>5

LEMMA StuckServeBundle ==
  ASSUME IInv, Stuck, NEW d \in msgs, ServeBundle(d), member' = member
  PROVE  Stuck'
<1>1. d.round = 1
  BY DEF Stuck, ServeBundle, InOrder
<1>2. server.completed <= 1 /\ (server.completed # 0 => Begun)
  BY DEF Stuck
<1>3. ASSUME NEW v \in Objections(d), server' = server,
             msgs' = Reply(d, Result(d.src, d.round, server.completed, v))
      PROVE  Stuck'
  <2>0. PICK e : e = Result(d.src, d.round, server.completed, v)
    OBVIOUS
  <2>1. v # "recorded"
    BY DEF Objections
  <2>2. e.type = "result" /\ e.verdict = v /\ msgs' \subseteq msgs \cup {e}
    BY <1>3, <2>0 DEF Result, Reply
  <2>3. InOrder(e)'
    BY <2>1, <2>2 DEF InOrder, IsMissing
  <2>4. ASSUME NEW b \in msgs PROVE InOrder(b)'
    <3>1. InOrder(b)
      BY DEF Stuck
    <3> QED BY <1>3, <3>1 DEF InOrder, Ahead
  <2> QED BY <1>2, <1>3, <2>2, <2>3, <2>4, StuckServer
<1>4. ASSUME Objections(d) = {},
             server' = [completed |-> d.round, active |-> FALSE, used |-> server.used \cup {d.src}],
             msgs' = Reply(d, Result(d.src, d.round, d.round, "recorded"))
      PROVE  Stuck'
  <2> DEFINE e == Result(d.src, d.round, d.round, "recorded")
  <2>1. "no active challenge" \notin Objections(d)
    BY <1>4
  <2>2. server.active /\ Begun
    BY <2>1 DEF Objections, IInv, Barrier
  <2>3. e.type = "result" /\ e.round = 1 /\ e.completed = 1 /\ msgs' \subseteq msgs \cup {e}
    BY <1>1, <1>4 DEF Result, Reply
  <2> HIDE DEF e
  <2>4. InOrder(e)'
    BY <2>3 DEF InOrder, IsMissing
  <2>5. ASSUME NEW b \in msgs, b.type = "request" PROVE InOrder(b)'
    <3>1. b.src = 0 /\ member[0].completed >= 1
      BY <2>2, <2>5 DEF Stuck, InOrder
    <3> QED BY <2>5, <3>1 DEF InOrder, IsMissing
  <2>6. server'.completed = 1
    BY <1>1, <1>4
  <2> QED BY <2>2, <2>3, <2>4, <2>5, <2>6, StuckServer
<1> QED BY <1>3, <1>4 DEF ServeBundle

\* Stall holds at first.
LEMMA InitStall == Init => Stall
<1> SUFFICES ASSUME Init PROVE Stall
  OBVIOUS
<1>1. msgs = {} /\ faults = 0 /\ server.completed = 0
  BY DEF Init, InitServer
<1>2. member[1] = NewMember
  BY ZeroIsMember DEF Init
<1> QED BY <1>1, <1>2 DEF Stall, Stuck, NewMember

\* Every step keeps it.
LEMMA NextStall == IInv /\ Stall /\ [Next]_vars => Stall'
<1> SUFFICES ASSUME IInv, Stall, [Next]_vars PROVE Stall'
  OBVIOUS
<1>1. /\ faults' \in Nat /\ (SendOrder' => SendOrder)
      /\ \A d \in msgs : Deliver(d) /\ SendOrder' => ~ Overtakes(d)
      /\ \A d \in msgs : Lose(d) => ~ SendOrder'
  <2>1. faults \in Nat
    BY DEF Stall
  <2>2. ASSUME NEW d \in msgs, Deliver(d)
        PROVE  /\ order' = order
               /\ \/ faults' = faults + 1
                  \/ faults' = faults /\ ~ Overtakes(d)
    BY <2>2 DEF Deliver
  <2>3. ASSUME NEW d \in msgs, Lose(d) PROVE faults' = faults + 1
    BY <2>3 DEF Lose
  <2>4. ASSUME NEW m \in Member, NEW found, Tick(m, found)
        PROVE  order' = order /\ faults' = faults
    BY <2>4 DEF Tick
  <2>5. order' = order /\ (faults' = faults \/ faults' = faults + 1)
    <3>1. CASE UNCHANGED vars
      BY <3>1 DEF vars
    <3>2. CASE Next
      BY <2>2, <2>3, <2>4, <3>2 DEF Next
    <3> QED BY <3>1, <3>2
  <2> HIDE DEF Stall
  <2> QED BY <2>1, <2>2, <2>3, <2>5 DEF SendOrder
<1> SUFFICES ASSUME SendOrder' PROVE Stuck'
  BY <1>1 DEF Stall
<1>2. Stuck /\ order = "sent"
  BY <1>1 DEF Stall, SendOrder
<1>3. ASSUME NEW m \in Member, NEW found \in SUBSET Undiscovered(m), Tick(m, found)
      PROVE  Stuck'
  BY <1>2, <1>3, StuckTick
<1>4. ASSUME NEW d \in msgs, ~ Overtakes(d), NEW m \in Member, Handle(m, d) PROVE Stuck'
  BY <1>2, <1>4, StuckReady, StuckNonce, StuckChallenge, StuckShare, StuckResult DEF Handle
<1>5. ASSUME NEW d \in msgs, Deliver(d) PROVE Stuck'
  <2>1. ~ Overtakes(d)
    BY <1>1, <1>5
  <2> QED BY <1>2, <1>4, <1>5, <2>1, StuckServeRequest, StuckServeBundle DEF Deliver
<1>6. CASE UNCHANGED vars
  BY <1>2, <1>6 DEF vars, Stuck, InOrder, Ahead, Begun
<1> QED BY <1>1, <1>3, <1>5, <1>6 DEF Next

\* A group whose datagrams all arrive, in the order they were sent, never gets
\* through round two (on_challenge_response sends its share before it relays the
\* nonce, and on_signature_share drops the share of a round not entered yet).
THEOREM GroupStalls == Spec => []StallsInSendOrder
<1>1. Stall => StallsInSendOrder
  BY DEF Stall, SendOrder, Stuck, StallsInSendOrder
<1>2. Spec => []Stall
  BY InitStall, NextStall, Invariance, PTL DEF Spec
<1> QED BY <1>1, <1>2, PTL
=============================================================================
