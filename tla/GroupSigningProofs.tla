-------------------------- MODULE GroupSigningProofs ------------------------
(***************************************************************************)
(* Proofs of safety properties of module GroupSigning, for every size of   *)
(* the group, every number of rounds, any number of datagrams lost or out  *)
(* of order, and ticks at any time; and what each step of a client does,   *)
(* for the proofs that build on them (module GroupPursuitProofs).          *)
(***************************************************************************)
EXTENDS GroupSigning, TLAPS

Round == 1 .. RoundCount

Signature == [signer : Member, round : Round]

States ==
    [group : BOOLEAN, registered : BOOLEAN, peers : SUBSET (Member \cup {Server}),
     waiting : 0 .. RoundCount, completed : 0 .. RoundCount, finished : BOOLEAN,
     round : 0 .. RoundCount, from_server : BOOLEAN, sigs : SUBSET Signature,
     acked : BOOLEAN, outgoing : BOOLEAN, submitted : 0 .. RoundCount,
     result : 0 .. RoundCount]

Verdict ==
    {"recorded", "already completed", "no active challenge", "wrong round number",
     "submitter already used", "invalid signature"}

Messages ==
         [type : {"register", "request"}, src : Member, dst : {Server}]
    \cup [type : {"registered"}, src : {Server}, dst : Member]
    \cup [type : {"challenge"}, src : {Server}, dst : Member, round : Round]
    \cup [type : {"nonce"}, src : Member, dst : Member, round : Round]
    \cup [type : {"signature"}, src : Member, dst : Member, round : Round, sig : Signature]
    \cup [type : {"ack"}, src : Member, dst : Member, round : Round]
    \cup [type : {"bundle"}, src : Member, dst : {Server}, round : Round, sigs : SUBSET Signature]
    \cup [type : {"result"}, src : {Server}, dst : Member, round : Round,
          completed : 0 .. RoundCount, verdict : Verdict]

Typed ==
    /\ member \in [Member -> States]
    /\ server \in [completed : 0 .. RoundCount, active : BOOLEAN, used : SUBSET Member]
    /\ msgs \subseteq Messages

Own(m, r) == [signer |-> m, round |-> r]

Whole(sigs, r) == sigs = {Own(m, r) : m \in Member}

\* The state s of m, when the server has recorded `completed` rounds: the
\* signatures are of the round m is in, and m's own is among them.
Local(m, s, completed) ==
    /\ s.completed <= completed
    /\ s.round <= completed + 1
    /\ s.peers \subseteq (Member \ {m}) \cup {Server}
    /\ \A g \in s.sigs : g.round = s.round
    /\ s.round # 0 => Own(m, s.round) \in s.sigs

\* What a datagram says, when the server has recorded `completed` rounds.
Fits(d, completed) ==
    /\ d.type \in {"challenge", "nonce"} => d.round <= completed + 1
    /\ d.type = "signature" => d.sig = Own(d.src, d.round)
    /\ d.type = "bundle" => Whole(d.sigs, d.round)
    /\ d.type = "result" => /\ d.completed <= completed
                            /\ d.verdict = "recorded" => d.round = d.completed

\* The inductive invariant.
IInv ==
    /\ Typed
    /\ \A m \in Member : Local(m, member[m], server.completed)
    /\ \A d \in msgs : Fits(d, server.completed)

-----------------------------------------------------------------------------

\* Every round has a submitter.
LEMMA SubmitterIsMember == \A r \in Round : Submitter(r) \in Member
BY ServerAssumption DEF Member, Submitter, Round

\* The invariant holds at first.
LEMMA InitInv == Init => IInv
<1> SUFFICES ASSUME Init PROVE IInv
  OBVIOUS
<1>1. \A m \in Member : InitMember(m) \in States
  BY ServerAssumption DEF InitMember, States
<1>2. Typed /\ msgs = {} /\ server.completed = 0
  BY <1>1, ServerAssumption DEF Init, InitServer, Typed
<1>3. \A m \in Member : Local(m, member[m], 0)
  BY DEF Init, InitMember, Local
<1> QED BY <1>2, <1>3 DEF IInv

\* A signature of m over the nonce of r.
LEMMA SignatureIsOwn ==
    ASSUME NEW g \in Signature
    PROVE  g = Own(g.signer, g.round)
BY DEF Signature, Own

\* Whatever a client in order sends is a datagram in order.
LEMMA SentFits ==
    ASSUME NEW m \in Member, NEW s \in States, NEW c \in 0 .. RoundCount, Local(m, s, c),
           NEW due
    PROVE  /\ \A d \in Register(m, s) \cup RetryRequest(m, s) \cup SendRequest(m, s)
                         \cup RetryRelay(m, s) \cup RetrySignature(m, s) \cup Bundle(m, s, due) :
                d \in Messages /\ Fits(d, c)
           /\ s.round # 0 => \A d \in Broadcast(m, s) : d \in Messages /\ Fits(d, c)
<1>1. /\ s.round \in 0 .. RoundCount /\ s.completed \in 0 .. RoundCount
      /\ s.peers \subseteq (Member \ {m}) \cup {Server} /\ s.sigs \subseteq Signature
      /\ s.round <= c + 1
      /\ s.round # 0 => s.round \in Round
  BY DEF States, Local, Round
<1>2. Open(s) => s.round \in Round
  BY <1>1 DEF Open, Round
<1>3. \A d \in Register(m, s) \cup RetryRequest(m, s) \cup SendRequest(m, s) :
        d \in Messages /\ Fits(d, c)
  BY DEF Register, RetryRequest, SendRequest, Messages, Fits
<1>4. ASSUME s.round \in Round, NEW d \in Broadcast(m, s)
      PROVE  d \in Messages /\ Fits(d, c)
  BY <1>1, <1>4 DEF Broadcast, Messages, Fits
<1>5. ASSUME NEW d \in RetryRelay(m, s) PROVE d \in Messages /\ Fits(d, c)
  BY <1>2, <1>4, <1>5 DEF RetryRelay
<1>6. ASSUME NEW d \in RetrySignature(m, s) PROVE d \in Messages /\ Fits(d, c)
  <2> DEFINE sig == CHOOSE g \in s.sigs : g.signer = m
  <2>1. /\ s.round \in Round /\ Submitter(s.round) \in Member
        /\ d = [type |-> "signature", src |-> m, dst |-> Submitter(s.round), round |-> s.round,
                sig |-> sig]
    BY <1>2, <1>6, SubmitterIsMember DEF RetrySignature
  <2>2. Own(m, s.round) \in s.sigs /\ Own(m, s.round).signer = m
    BY <1>1, <2>1 DEF Local, Own, Round
  <2>3. sig \in s.sigs /\ sig.signer = m
    BY <2>2
  <2> HIDE DEF sig
  <2>4. sig \in Signature /\ sig.round = s.round
    BY <1>1, <2>3 DEF Local
  <2>5. sig = Own(m, s.round)
    BY <2>3, <2>4, SignatureIsOwn
  <2> QED BY <2>1, <2>4, <2>5 DEF Messages, Fits
<1>7. ASSUME NEW d \in Bundle(m, s, due) PROVE d \in Messages /\ Fits(d, c)
  <2>1. /\ d = [type |-> "bundle", src |-> m, dst |-> Server, round |-> s.round, sigs |-> s.sigs]
        /\ s.round \in Round /\ {g.signer : g \in s.sigs} = Member
    BY <1>2, <1>7 DEF Bundle, Submits, CanSubmit
  <2>2. \A g \in s.sigs : g = Own(g.signer, s.round)
    BY <1>1, SignatureIsOwn DEF Local
  <2>3. Whole(s.sigs, s.round)
    <3>1. \A g \in s.sigs : g.signer \in Member
      BY <2>1
    <3>2. \A p \in Member : \E g \in s.sigs : g.signer = p
      BY <2>1
    <3> QED BY <2>2, <3>1, <3>2 DEF Whole
  <2> QED BY <1>1, <2>1, <2>3 DEF Messages, Fits
<1>8. s.round # 0 => \A d \in Broadcast(m, s) : d \in Messages /\ Fits(d, c)
  BY <1>1, <1>4
<1> QED BY <1>3, <1>5, <1>6, <1>7, <1>8

\* A step in which member m comes to state s and sends R.
LEMMA MemberStep ==
    ASSUME IInv, NEW m \in Member, NEW s \in States, NEW R,
           member' = [member EXCEPT ![m] = s], server' = server, msgs' \subseteq msgs \cup R,
           Local(m, s, server.completed),
           \A d \in R : d \in Messages /\ Fits(d, server.completed)
    PROVE  IInv'
<1>1. Typed'
  BY DEF IInv, Typed
<1>2. \A p \in Member : member'[p] = IF p = m THEN s ELSE member[p]
  BY DEF IInv, Typed
<1>3. \A p \in Member : Local(p, member'[p], server'.completed)
  BY <1>2 DEF IInv
<1>4. \A d \in msgs' : Fits(d, server'.completed)
  BY DEF IInv
<1> QED BY <1>1, <1>3, <1>4 DEF IInv

\* A step of the server or the network.
LEMMA ServerStep ==
    ASSUME IInv, NEW R, member' = member, msgs' \subseteq msgs \cup R,
           server' \in [completed : 0 .. RoundCount, active : BOOLEAN, used : SUBSET Member],
           server.completed <= server'.completed,
           \A d \in R : d \in Messages /\ Fits(d, server'.completed)
    PROVE  IInv'
<1>1. Typed'
  BY DEF IInv, Typed
<1>2. server.completed \in Nat /\ server'.completed \in Nat
  BY DEF IInv, Typed
<1>3. ASSUME NEW m \in Member PROVE Local(m, member'[m], server'.completed)
  <2>1. member[m].round \in Nat /\ member[m].completed \in Nat
    BY DEF IInv, Typed, States
  <2> QED BY <1>2, <2>1 DEF IInv, Local
<1>4. ASSUME NEW d \in msgs PROVE Fits(d, server'.completed)
  <2>1. /\ d.type \in {"challenge", "nonce"} => d.round \in Nat
        /\ d.type = "result" => d.completed \in Nat
    BY DEF IInv, Typed, Messages, Round
  <2> QED BY <1>2, <2>1 DEF IInv, Fits
<1> QED BY <1>1, <1>3, <1>4 DEF IInv

\* Receiving a datagram to no effect, or losing one.
LEMMA NothingSent ==
    ASSUME IInv, UNCHANGED <<member, server>>, msgs' \subseteq msgs
    PROVE  IInv'
BY DEF IInv, Typed

-----------------------------------------------------------------------------

LEMMA MarkedState ==
    ASSUME NEW m \in Member, NEW s \in States, NEW c, Local(m, s, c), NEW due
    PROVE  MarkSubmitted(m, s, due) \in States /\ Local(m, MarkSubmitted(m, s, due), c)
BY DEF MarkSubmitted, States, Local

LEMMA TickInv ==
    ASSUME IInv, NEW m \in Member, NEW found \in SUBSET Undiscovered(m),
           NEW due \in SUBSET Retries, Tick(m, found, due)
    PROVE  IInv'
<1> DEFINE s == [member[m] EXCEPT !.peers = @ \cup found]
           t == IF StartsRoundOne(m, s) THEN [s EXCEPT !.waiting = 1] ELSE s
           u == IF "bundle" \in due THEN MarkSubmitted(m, t, TRUE) ELSE t
           c == server.completed
           R == Register(m, s) \cup RetryRequest(m, t) \cup RetryRelay(m, t)
                  \cup RetrySignature(m, t) \cup Bundle(m, t, TRUE) \cup SendRequest(m, t)
<1>1. member[m] \in States /\ Local(m, member[m], c) /\ c \in 0 .. RoundCount
  BY DEF IInv, Typed
<1>2. s \in States /\ Local(m, s, c)
  BY <1>1 DEF States, Local, Undiscovered
<1>3. t \in States /\ Local(m, t, c)
  <2>1. 1 \in 0 .. RoundCount
    BY ServerAssumption
  <2> HIDE DEF s
  <2> QED BY <1>2, <2>1 DEF States, Local
<1> DEFINE sent == [register  |-> Register(m, s),
                    request   |-> RetryRequest(m, t),
                    relay     |-> RetryRelay(m, t),
                    signature |-> RetrySignature(m, t),
                    bundle    |-> Bundle(m, t, TRUE)]
           answers == UNION {sent[k] : k \in due}
           first == IF t # s THEN SendRequest(m, t) ELSE {}
<1>4. /\ member' = [member EXCEPT ![m] = u] /\ server' = server
      /\ msgs' = msgs \cup answers \cup first
  <2>1. member' = [member EXCEPT ![m] = u]
    BY DEF Tick
  <2>2. server' = server
    BY DEF Tick
  <2>3. msgs' = msgs \cup answers \cup first
    BY DEF Tick
  <2> QED BY <2>1, <2>2, <2>3
<1> HIDE DEF s, t
<1>5. msgs' \subseteq msgs \cup R
  <2>1. ASSUME NEW k \in due PROVE sent[k] \subseteq R
    <3>1. k \in {"register", "request", "relay", "signature", "bundle"}
      BY DEF Retries
    <3>2. /\ sent["register"] \subseteq R /\ sent["request"] \subseteq R
          /\ sent["relay"] \subseteq R /\ sent["signature"] \subseteq R
          /\ sent["bundle"] \subseteq R
      OBVIOUS
    <3> HIDE DEF sent, R
    <3> QED BY <3>1, <3>2
  <2>2. SendRequest(m, t) \subseteq R
    OBVIOUS
  <2> HIDE DEF sent, R, u
  <2>3. answers \subseteq R
    BY <2>1
  <2>4. first \subseteq R
    BY <2>2
  <2> HIDE DEF answers, first
  <2> QED BY <1>4, <2>3, <2>4
<1>6. u \in States /\ Local(m, u, c)
  BY <1>3, MarkedState
<1>7. \A d \in R : d \in Messages /\ Fits(d, c)
  BY <1>1, <1>2, <1>3, SentFits
<1> HIDE DEF u, R, c
<1> QED BY <1>6, <1>7, <1>4, <1>5, MemberStep DEF c

\* install_nonce, for the nonce of round r.
LEMMA InstallNonceInv ==
    ASSUME IInv, NEW m \in Member, NEW r \in Round, r <= server.completed + 1,
           NEW from_server \in BOOLEAN, NEW due, NEW left \in SUBSET msgs,
           InstallNonce(m, r, from_server, due, left), server' = server
    PROVE  IInv'
<1> DEFINE e == EnterRound(member[m], r, from_server)
           t == Installed(m, member[m], r, from_server)
           c == server.completed
           R == Broadcast(m, t) \cup RetrySignature(m, t) \cup Bundle(m, t, due)
<1>1. /\ member[m] \in States /\ Local(m, member[m], c) /\ c \in 0 .. RoundCount
      /\ r \in 0 .. RoundCount /\ r # 0
  BY DEF IInv, Typed, Round
<1>2. /\ e \in States /\ e.round = r /\ e.completed = member[m].completed
      /\ e.peers = member[m].peers /\ \A g \in e.sigs : g.round = r
  <2>1. CASE member[m].round # r
    <3>1. e = NewRound(member[m], r, from_server)
      BY <2>1 DEF EnterRound
    <3>2. 0 \in 0 .. RoundCount
      BY ServerAssumption
    <3> QED BY <1>1, <3>1, <3>2 DEF NewRound, States
  <2>2. CASE member[m].round = r
    <3> DEFINE f == member[m].from_server \/ from_server
    <3>1. e = [member[m] EXCEPT !.from_server = f] /\ f \in BOOLEAN
      BY <1>1, <2>2 DEF EnterRound, States
    <3> HIDE DEF f
    <3> QED BY <1>1, <2>2, <3>1 DEF States, Local
  <2> QED BY <2>1, <2>2
<1>3. Own(m, r) \in Signature /\ Own(m, r).round = r /\ Own(m, r).signer = m
  BY DEF Own, Signature
<1>4. /\ t \in States /\ t.round = r /\ t.completed = e.completed /\ t.peers = e.peers
      /\ t.sigs = (IF m \in {g.signer : g \in e.sigs} THEN e.sigs
                   ELSE e.sigs \cup {Own(m, r)})
  <2> HIDE DEF e
  <2> DEFINE w == IF e.waiting = r THEN 0 ELSE e.waiting
             sigs == IF m \in {g.signer : g \in e.sigs} THEN e.sigs ELSE e.sigs \cup {Own(m, r)}
             out == e.outgoing \/ m # Submitter(r)
  <2>1. t = [e EXCEPT !.waiting = w, !.sigs = sigs, !.outgoing = out]
    BY DEF Installed, e, Own
  <2>2. w \in 0 .. RoundCount /\ sigs \in SUBSET Signature /\ out \in BOOLEAN
    <3> HIDE DEF e
    <3>1. e.waiting \in 0 .. RoundCount /\ e.sigs \subseteq Signature
      BY <1>2 DEF States
    <3>2. w \in 0 .. RoundCount
      BY <3>1, ServerAssumption
    <3>3. sigs \in SUBSET Signature
      BY <1>3, <3>1
    <3>4. out \in BOOLEAN
      OBVIOUS
    <3> QED BY <3>2, <3>3, <3>4
  <2> HIDE DEF t, w, sigs, out
  <2>3. t \in States /\ t.round = e.round /\ t.completed = e.completed /\ t.peers = e.peers
        /\ t.sigs = sigs
    BY <1>2, <2>1, <2>2 DEF States
  <2> QED BY <1>2, <2>3 DEF sigs
<1>5. Own(m, r) \in t.sigs /\ \A g \in t.sigs : g.round = r
  <2>1. ASSUME NEW g \in e.sigs, g.signer = m PROVE g = Own(m, r)
    <3>1. g \in Signature /\ g.round = r
      BY <1>2 DEF States
    <3> QED BY <2>1, <3>1, SignatureIsOwn
  <2> HIDE DEF e, t
  <2> QED BY <1>2, <1>3, <1>4, <2>1
<1> HIDE DEF t, e
<1>6. Local(m, t, c)
  BY <1>1, <1>2, <1>4, <1>5 DEF Local
<1>7. MarkSubmitted(m, t, due) \in States /\ Local(m, MarkSubmitted(m, t, due), c)
  BY <1>4, <1>6, MarkedState
<1>8. \A d \in R : d \in Messages /\ Fits(d, c)
  BY <1>1, <1>4, <1>6, SentFits
<1>9. CASE Current(member[m], r)
  <2>1. /\ member' = [member EXCEPT ![m] = MarkSubmitted(m, t, due)]
        /\ msgs' \subseteq msgs \cup R
    BY <1>9 DEF InstallNonce, t
  <2> HIDE DEF R, c
  <2> QED BY <1>7, <1>8, <2>1, MemberStep DEF c
<1>10. CASE ~ Current(member[m], r)
  BY <1>10, NothingSent DEF InstallNonce
<1> QED BY <1>9, <1>10

LEMMA OnRegistrationResponseInv ==
    ASSUME IInv, NEW m \in Member, NEW d \in msgs, OnRegistrationResponse(m, d), server' = server
    PROVE  IInv'
<1> DEFINE s == [member[m] EXCEPT !.registered = TRUE, !.group = TRUE]
<1>1. member[m] \in States /\ Local(m, member[m], server.completed)
  BY DEF IInv, Typed
<1>2. s \in States /\ Local(m, s, server.completed)
  BY <1>1 DEF States, Local
<1>3. member' = [member EXCEPT ![m] = s] /\ msgs' \subseteq msgs \cup {}
  BY DEF OnRegistrationResponse, IInv, Typed
<1> HIDE DEF s
<1> DEFINE R == {}
<1>4. msgs' \subseteq msgs \cup R /\ \A e \in R : FALSE
  BY <1>3
<1> HIDE DEF R
<1> QED BY <1>2, <1>3, <1>4, MemberStep

LEMMA NonceInv ==
    ASSUME IInv, NEW m \in Member, NEW d \in msgs, NEW due,
           OnChallengeResponse(m, d, due) \/ OnTeamNonce(m, d, due), server' = server
    PROVE  IInv'
<1>1. d \in Messages /\ Fits(d, server.completed)
  BY DEF IInv, Typed
<1>2. d.type \in {"challenge", "nonce"}
  BY DEF OnChallengeResponse, OnTeamNonce
<1>3. d.round \in Round /\ d.round <= server.completed + 1
  BY <1>1, <1>2 DEF Messages, Fits
<1>4. CASE OnChallengeResponse(m, d, due)
  BY <1>3, <1>4, InstallNonceInv DEF OnChallengeResponse
<1>5. CASE OnTeamNonce(m, d, due) /\ member[m].group
  BY <1>3, <1>5, InstallNonceInv DEF OnTeamNonce
<1>6. CASE OnTeamNonce(m, d, due) /\ ~ member[m].group
  BY <1>6, NothingSent DEF OnTeamNonce
<1> QED BY <1>4, <1>5, <1>6

LEMMA OnTeamSignatureInv ==
    ASSUME IInv, NEW m \in Member, NEW d \in msgs, NEW due, OnTeamSignature(m, d, due),
           server' = server
    PROVE  IInv'
<1> DEFINE s == [member[m] EXCEPT !.sigs = @ \cup {d.sig}]
           u == MarkSubmitted(m, s, due)
           ack == [type |-> "ack", src |-> m, dst |-> d.src, round |-> d.round]
           R == Bundle(m, s, due) \cup {ack}
           c == server.completed
<1>1. /\ member[m] \in States /\ Local(m, member[m], c) /\ c \in 0 .. RoundCount
      /\ d.type = "signature" /\ d \in Messages
  BY DEF IInv, Typed, OnTeamSignature
<1>2. d.src \in Member /\ d.round \in Round /\ d.sig \in Signature
  BY <1>1 DEF Messages
<1>3. CASE /\ member[m].group /\ d.round = member[m].round
           /\ m = Submitter(d.round) /\ d.sig.round = d.round
  <2>1. s \in States /\ Local(m, s, c)
    BY <1>1, <1>2, <1>3 DEF States, Local
  <2>2. member' = [member EXCEPT ![m] = u] /\ msgs' \subseteq msgs \cup R
    BY <1>3 DEF OnTeamSignature
  <2> HIDE DEF s
  <2>3. u \in States /\ Local(m, u, c)
    BY <2>1, MarkedState
  <2>4. ack \in Messages /\ Fits(ack, c)
    BY <1>2 DEF Messages, Fits
  <2>5. \A e \in R : e \in Messages /\ Fits(e, c)
    BY <1>1, <2>1, <2>4, SentFits
  <2> HIDE DEF u, R, c, ack
  <2> QED BY <2>2, <2>3, <2>5, MemberStep DEF c
<1>4. CASE ~ (/\ member[m].group /\ d.round = member[m].round
              /\ m = Submitter(d.round) /\ d.sig.round = d.round)
  BY <1>4, NothingSent DEF OnTeamSignature
<1> QED BY <1>3, <1>4

LEMMA OnTeamAckInv ==
    ASSUME IInv, NEW m \in Member, NEW d \in msgs, OnTeamAck(m, d), server' = server
    PROVE  IInv'
<1> DEFINE acked == member[m].acked \/ (/\ member[m].group /\ d.round = member[m].round
                                        /\ d.src = Submitter(d.round))
           s == [member[m] EXCEPT !.acked = acked]
           R == {}
<1>1. member[m] \in States /\ Local(m, member[m], server.completed) /\ acked \in BOOLEAN
  BY DEF IInv, Typed
<1>2. member' = [member EXCEPT ![m] = s] /\ msgs' \subseteq msgs
  BY DEF OnTeamAck, IInv, Typed
<1> HIDE DEF acked
<1>3. s \in States /\ Local(m, s, server.completed)
  BY <1>1 DEF States, Local
<1>4. msgs' \subseteq msgs \cup R /\ \A e \in R : FALSE
  BY <1>2
<1> HIDE DEF s, R
<1> QED BY <1>2, <1>3, <1>4, MemberStep

\* on_round_result, for any verdict.
LEMMA OnRoundResultInv ==
    ASSUME IInv, NEW m \in Member, NEW d \in msgs, OnRoundResult(m, d), server' = server
    PROVE  IInv'
<1> DEFINE c == server.completed
<1>1. /\ member[m] \in States /\ Local(m, member[m], c) /\ c \in 0 .. RoundCount
      /\ d.type = "result" /\ d \in Messages /\ Fits(d, c)
  BY DEF IInv, Typed, OnRoundResult
<1>2. /\ d.round \in Round /\ d.round \in 0 .. RoundCount /\ d.completed \in 0 .. RoundCount
      /\ d.completed <= c /\ (d.verdict = "recorded" => d.round = d.completed)
  BY <1>1 DEF Messages, Fits, Round
<1>3. \A s \in States : Local(m, s, c) =>
        \A e \in SendRequest(m, s) : e \in Messages /\ Fits(e, c)
  BY <1>1, SentFits
<1>4. CASE OnSuccess(m, d)
  <2> DEFINE done == IF d.completed > member[m].completed THEN d.completed
                     ELSE member[m].completed
             s == [member[m] EXCEPT !.result = d.round, !.completed = done]
             over == d.completed >= RoundCount
             next == ~ over /\ m = Submitter(d.round)
             fin == s.finished \/ over
             wait == IF next THEN d.round + 1 ELSE s.waiting
             t == [s EXCEPT !.finished = fin, !.waiting = wait]
             R == SendRequest(m, s)
  <2>1. member' = [member EXCEPT ![m] = t] /\ msgs' \subseteq msgs \cup R
    BY <1>4 DEF OnSuccess
  <2>2. done \in 0 .. RoundCount /\ done <= c
    BY <1>1, <1>2 DEF States, Local
  <2>3. s \in States /\ Local(m, s, c)
    <3> HIDE DEF done
    <3> QED BY <1>1, <1>2, <2>2 DEF States, Local
  <2>4. fin \in BOOLEAN /\ wait \in 0 .. RoundCount
    <3>1. d.round = d.completed
      BY <1>2, <1>4 DEF OnSuccess
    <3> HIDE DEF s
    <3>2. s.waiting \in 0 .. RoundCount
      BY <2>3 DEF States
    <3>3. wait \in 0 .. RoundCount
      BY <1>2, <3>1, <3>2, ServerAssumption
    <3> QED BY <3>3
  <2> HIDE DEF s, fin, wait
  <2>5. t \in States /\ Local(m, t, c)
    BY <2>3, <2>4 DEF States, Local
  <2>6. \A e \in R : e \in Messages /\ Fits(e, c)
    BY <1>3, <2>3
  <2> HIDE DEF t, R, c
  <2> QED BY <2>1, <2>5, <2>6, MemberStep DEF c
<1>5. CASE OnTerminalFailure(m, d)
  <2> DEFINE s == [member[m] EXCEPT !.result = d.round, !.finished = TRUE]
             R == {}
  <2>1. s \in States /\ Local(m, s, c)
    BY <1>1, <1>2 DEF States, Local
  <2>2. member' = [member EXCEPT ![m] = s] /\ msgs' \subseteq msgs \cup R /\ \A e \in R : FALSE
    BY <1>5 DEF OnTerminalFailure, IInv, Typed
  <2> HIDE DEF s, R, c
  <2> QED BY <2>1, <2>2, MemberStep DEF c
<1>6. CASE OnInvalidSignature(m, d)
  <2> DEFINE s == [member[m] EXCEPT !.submitted = 0]
             R == {}
  <2>1. s \in States /\ Local(m, s, c)
    BY <1>1, ServerAssumption DEF States, Local
  <2>2. member' = [member EXCEPT ![m] = s] /\ msgs' \subseteq msgs \cup R /\ \A e \in R : FALSE
    BY <1>6 DEF OnInvalidSignature, IInv, Typed
  <2> HIDE DEF s, R, c
  <2> QED BY <2>1, <2>2, MemberStep DEF c
<1>7. CASE OnNoActiveChallenge(m, d) /\ d.round < RoundCount
  <2> DEFINE s == [member[m] EXCEPT !.waiting = d.round + 1]
             R == SendRequest(m, member[m])
  <2>1. d.round + 1 \in 0 .. RoundCount
    BY <1>2, <1>7, ServerAssumption
  <2>2. s \in States /\ Local(m, s, c)
    BY <1>1, <2>1 DEF States, Local
  <2>3. member' = [member EXCEPT ![m] = s] /\ msgs' \subseteq msgs \cup R
    BY <1>7 DEF OnNoActiveChallenge, IInv, Typed
  <2>4. \A e \in R : e \in Messages /\ Fits(e, c)
    BY <1>1, <1>3
  <2> HIDE DEF s, R, c
  <2> QED BY <2>2, <2>3, <2>4, MemberStep DEF c
<1>8. CASE OnNoActiveChallenge(m, d) /\ ~ (d.round < RoundCount)
  BY <1>8, NothingSent DEF OnNoActiveChallenge
<1> QED BY <1>4, <1>5, <1>6, <1>7, <1>8 DEF OnRoundResult

\* A verdict the server may give.
LEMMA ResultFits ==
    ASSUME NEW to \in Member, NEW r \in Round, NEW k \in 0 .. RoundCount, NEW v \in Verdict,
           v = "recorded" => r = k, NEW c \in 0 .. RoundCount, k <= c
    PROVE  Result(to, r, k, v) \in Messages /\ Fits(Result(to, r, k, v), c)
<1> DEFINE d == Result(to, r, k, v)
<1>1. /\ d.type = "result" /\ d.completed = k /\ d.round = r /\ d.verdict = v
      /\ d \in [type : {"result"}, src : {Server}, dst : Member, round : Round,
                completed : 0 .. RoundCount, verdict : Verdict]
  BY DEF Result
<1> HIDE DEF d
<1> QED BY <1>1 DEF Messages, Fits, d

\* What the server does with a datagram of a member.
LEMMA ServeInv ==
    ASSUME IInv, NEW d \in msgs, ServeRegister(d) \/ ServeRequest(d) \/ ServeBundle(d),
           member' = member
    PROVE  IInv'
<1> DEFINE c == server.completed
<1>1. c \in 0 .. RoundCount /\ d \in Messages
  BY DEF IInv, Typed
<1>2. CASE ServeRegister(d)
  <2> DEFINE R == {[type |-> "registered", src |-> Server, dst |-> d.src]}
  <2>1. d.src \in Member
    BY <1>1, <1>2 DEF ServeRegister, Messages
  <2>2. \A e \in R : e \in Messages /\ Fits(e, c)
    BY <2>1 DEF Messages, Fits
  <2>3. msgs' \subseteq msgs \cup R /\ server' = server
    BY <1>2 DEF ServeRegister, Reply
  <2> HIDE DEF R
  <2> QED BY <1>1, <2>2, <2>3, ServerStep DEF IInv, Typed
<1>3. CASE ServeRequest(d)
  <2>1. d.src \in Member
    BY <1>1, <1>3 DEF ServeRequest, Messages
  <2>2. CASE c = RoundCount
    <3> DEFINE v == "already completed"
               e == Result(d.src, RoundCount, RoundCount, v)
               R == {e}
    <3>1. RoundCount \in Round /\ RoundCount \in 0 .. RoundCount
      BY ServerAssumption DEF Round
    <3>2. e \in Messages /\ Fits(e, c)
      <4>1. v \in Verdict /\ v # "recorded" /\ RoundCount <= c
        BY <1>1, <2>2 DEF Verdict
      <4> HIDE DEF v
      <4>2. ASSUME NEW k \in 0 .. RoundCount, k = RoundCount, NEW h \in 0 .. RoundCount, k <= h
            PROVE  Result(d.src, k, k, v) \in Messages /\ Fits(Result(d.src, k, k, v), h)
        BY <2>1, <3>1, <4>1, <4>2, ResultFits
      <4> QED BY <1>1, <3>1, <4>1, <4>2
    <3>3. msgs' \subseteq msgs \cup R /\ server' = server
      BY <1>3, <2>2 DEF ServeRequest, Reply
    <3> HIDE DEF e
    <3>4. \A x \in R : x \in Messages /\ Fits(x, c)
      BY <3>2
    <3> HIDE DEF R
    <3> QED BY <1>1, <3>3, <3>4, ServerStep DEF IInv, Typed
  <2>3. CASE c # RoundCount
    <3> DEFINE e == Challenge(d.src, c + 1)
               R == {e}
    <3>1. c + 1 \in Round /\ c + 1 <= c + 1
      BY <1>1, <2>3, ServerAssumption DEF Round
    <3>2. e \in Messages /\ Fits(e, c)
      <4>1. /\ e \in [type : {"challenge"}, src : {Server}, dst : Member, round : Round]
            /\ e.type = "challenge" /\ e.round = c + 1
        BY <2>1, <3>1 DEF Challenge
      <4> HIDE DEF e
      <4> QED BY <3>1, <4>1 DEF Messages, Fits
    <3>3. msgs' \subseteq msgs \cup R /\ server' = [server EXCEPT !.active = TRUE]
      BY <1>3, <2>3 DEF ServeRequest, Reply
    <3>4. /\ server' \in [completed : 0 .. RoundCount, active : BOOLEAN, used : SUBSET Member]
          /\ server'.completed = c
      BY <3>3 DEF IInv, Typed
    <3> HIDE DEF e
    <3>5. \A x \in R : x \in Messages /\ Fits(x, c)
      BY <3>2
    <3>6. /\ server.completed <= server'.completed
          /\ \A x \in R : x \in Messages /\ Fits(x, server'.completed)
      BY <1>1, <3>4, <3>5
    <3> HIDE DEF R
    <3> QED BY <3>3, <3>4, <3>6, ServerStep
  <2> QED BY <2>2, <2>3
<1>4. CASE ServeBundle(d)
  <2>1. /\ d.src \in Member /\ d.round \in Round /\ d.round \in 0 .. RoundCount
        /\ d.type = "bundle" /\ Whole(d.sigs, d.round)
    BY <1>1, <1>4 DEF ServeBundle, Messages, Round, IInv, Fits
  <2>2. CASE Objections(d) = {}
    <3> DEFINE e == Result(d.src, d.round, d.round, "recorded")
               R == {e}
    <3>1. d.round = c + 1
      <4>1. /\ "no active challenge" \notin Objections(d)
            /\ "wrong round number" \notin Objections(d)
        BY <2>2
      <4> QED BY <4>1 DEF Objections
    <3>2. e \in Messages /\ Fits(e, d.round)
      <4>1. "recorded" \in Verdict
        BY DEF Verdict
      <4> QED BY <2>1, <4>1, ResultFits DEF Round
    <3>3. /\ msgs' \subseteq msgs \cup R
          /\ server' = [completed |-> d.round, active |-> FALSE, used |-> server.used \cup {d.src}]
      BY <1>4, <2>2 DEF ServeBundle, Reply
    <3>4. /\ server' \in [completed : 0 .. RoundCount, active : BOOLEAN, used : SUBSET Member]
          /\ server'.completed = d.round
      BY <2>1, <3>3 DEF IInv, Typed
    <3> HIDE DEF e
    <3>5. \A x \in R : x \in Messages /\ Fits(x, d.round)
      BY <3>2
    <3> HIDE DEF R
    <3> QED BY <1>1, <2>1, <3>1, <3>3, <3>4, <3>5, ServerStep
  <2>3. CASE Objections(d) # {}
    <3>1. PICK v \in Objections(d) : msgs' = Reply(d, Result(d.src, d.round, c, v))
      BY <1>4, <2>3 DEF ServeBundle
    <3> DEFINE R == {Result(d.src, d.round, c, v)}
    <3>2. v \in Verdict /\ v # "recorded"
      BY DEF Objections, Verdict
    <3>3. \A e \in R : e \in Messages /\ Fits(e, c)
      BY <1>1, <2>1, <3>2, ResultFits
    <3>4. msgs' \subseteq msgs \cup R /\ server' = server
      BY <1>4, <2>3, <3>1 DEF ServeBundle, Reply
    <3> HIDE DEF R
    <3> QED BY <1>1, <3>3, <3>4, ServerStep DEF IInv, Typed
  <2> QED BY <2>2, <2>3
<1> QED BY <1>2, <1>3, <1>4

\* The invariant is inductive.
LEMMA StepInv == IInv /\ [Next]_vars => IInv'
<1> SUFFICES ASSUME IInv, [Next]_vars PROVE IInv'
  OBVIOUS
<1>1. ASSUME NEW m \in Member, NEW found \in SUBSET Undiscovered(m), NEW due \in SUBSET Retries,
             Tick(m, found, due)
      PROVE  IInv'
  BY <1>1, TickInv
<1>2. ASSUME NEW d \in msgs, NEW m \in Member, Handle(m, d) PROVE IInv'
  BY <1>2, OnRegistrationResponseInv, NonceInv, OnTeamSignatureInv, OnTeamAckInv,
     OnRoundResultInv DEF Handle
<1>3. ASSUME NEW d \in msgs, Deliver(d) PROVE IInv'
  BY <1>2, <1>3, ServeInv DEF Deliver
<1>4. ASSUME NEW d \in msgs, Lose(d), member' = member PROVE IInv'
  BY <1>4, NothingSent DEF Lose
<1>5. CASE UNCHANGED vars
  BY <1>5, NothingSent DEF vars
<1> QED BY <1>1, <1>3, <1>4, <1>5 DEF Next, Drop

-----------------------------------------------------------------------------
\* The round, nonce and signatures of each member go together, and every datagram in
\* flight says what its sender's round made true, whatever is lost or out of turn
\* (tick, install_nonce, the six handlers).
THEOREM GroupInvariance == Spec => []IInv
<1>1. Init => IInv
  BY InitInv
<1>2. IInv /\ [Next]_vars => IInv'
  BY StepInv
<1> QED BY <1>1, <1>2, PTL DEF Spec

\* No member is ahead of the server, and the signatures a member holds are all
\* for the round it is in (install_nonce, on_team_signature).
THEOREM GroupTyped == Spec => []GroupTypeOK
<1>1. IInv => GroupTypeOK
  <2> SUFFICES ASSUME IInv PROVE GroupTypeOK
    OBVIOUS
  <2>1. server.completed \in 0 .. RoundCount /\ server.used \subseteq Member
    BY DEF IInv, Typed
  <2>2. ASSUME NEW m \in Member
        PROVE  /\ member[m].completed <= server.completed
               /\ member[m].round \in 0 .. server.completed + 1
               /\ member[m].waiting \in 0 .. RoundCount
               /\ member[m].peers \subseteq (Member \ {m}) \cup {Server}
               /\ member[m].sigs \subseteq [signer : Member, round : {member[m].round}]
    <3>1. member[m] \in States /\ Local(m, member[m], server.completed)
      BY DEF IInv, Typed
    <3>2. /\ member[m].sigs \subseteq Signature /\ member[m].round \in 0 .. RoundCount
          /\ member[m].waiting \in 0 .. RoundCount
      BY <3>1 DEF States
    <3>3. member[m].sigs \subseteq [signer : Member, round : {member[m].round}]
      BY <3>1, <3>2 DEF Signature, Local
    <3> QED BY <2>1, <3>1, <3>2, <3>3 DEF Local
  <2> QED BY <2>1, <2>2 DEF GroupTypeOK
<1> QED BY <1>1, GroupInvariance, PTL

\* Whatever is lost, late or repeated, a bundle has the signatures of all
\* members over the nonce of its round (submit_current_bundle, on_team_signature).
THEOREM BundlesWhole == Spec => []BundleIsWhole
<1>1. IInv => BundleIsWhole
  BY DEF IInv, Fits, Whole, Own, BundleIsWhole
<1> QED BY <1>1, GroupInvariance, PTL

-----------------------------------------------------------------------------
\* The rounds the server has recorded, and the one that is next.
Recorded == server.completed
Live == Recorded + 1

\* m has found p.
Knows(m, p) == m = p \/ p \in member[m].peers

\* What a datagram says of who sent it and of who is to receive it: who speaks to the
\* server has found it and is in a group, and who sends a bundle is known to all.
Founded(d) ==
    /\ d.type \in {"signature", "ack", "bundle"} => d.round <= Live
    /\ d.type = "nonce" => d.src # d.dst
    /\ d.type = "request" => member[d.src].group /\ Server \in member[d.src].peers
    /\ d.type \in {"challenge", "result"} => member[d.dst].group
    /\ d.type = "result" => Server \in member[d.dst].peers
    /\ d.type = "signature" => Knows(d.src, d.dst) /\ member[d.src].round # 0
    /\ d.type = "bundle" =>
        /\ d.src = Submitter(d.round) /\ member[d.src].group /\ Server \in member[d.src].peers
        /\ \A m \in Member : Knows(m, d.src) /\ member[m].round # 0

\* The second invariant: who is in a round or waits for one is in a group, whoever's
\* signature is held has found the holder, and the submitters so far are known to all.
Grounded ==
    /\ \A m \in Member :
        /\ member[m].round # 0 \/ member[m].waiting # 0 => member[m].group
        /\ \A g \in member[m].sigs : Knows(g.signer, m) /\ member[g.signer].round # 0
    /\ \A d \in msgs : Founded(d)
    /\ \A r \in 1 .. Recorded, m \in Member : Knows(m, Submitter(r)) /\ member[m].round # 0
    /\ \A p \in server.used : \E r \in 1 .. Recorded : p = Submitter(r)

-----------------------------------------------------------------------------
\* The members, the rounds they are in, and the fields the invariants speak of.
LEMMA MemberFacts ==
    ASSUME IInv
    PROVE  /\ Recorded \in 0 .. RoundCount /\ server.active \in BOOLEAN /\ server.used \subseteq Member
           /\ RoundCount \in Nat \ {0} /\ Server \notin Member
           /\ \A m \in Member :
                /\ m \in 0 .. GroupSize - 1
                /\ member[m] \in States
                /\ Local(m, member[m], Recorded)
                /\ member[m].round \in 0 .. RoundCount /\ member[m].round <= Live
                /\ member[m].completed \in 0 .. Recorded
                /\ member[m].waiting \in 0 .. RoundCount
                /\ member[m].submitted \in 0 .. RoundCount
                /\ member[m].result \in 0 .. RoundCount
                /\ member[m].group \in BOOLEAN
                /\ member[m].peers \subseteq (Member \ {m}) \cup {Server}
                /\ \A g \in member[m].sigs : g.round = member[m].round /\ g.signer \in Member
<1>1. /\ Recorded \in 0 .. RoundCount /\ server.active \in BOOLEAN /\ server.used \subseteq Member
      /\ RoundCount \in Nat \ {0} /\ Server \notin Member
  BY ServerAssumption DEF IInv, Typed, Recorded
<1>2. ASSUME NEW m \in Member
      PROVE  /\ m \in 0 .. GroupSize - 1
             /\ member[m] \in States
             /\ Local(m, member[m], Recorded)
  BY DEF IInv, Typed, Recorded, Member
<1>3. ASSUME NEW m \in Member
      PROVE  /\ member[m].round \in 0 .. RoundCount /\ member[m].round <= Live
             /\ member[m].completed \in 0 .. Recorded
             /\ member[m].waiting \in 0 .. RoundCount
             /\ member[m].submitted \in 0 .. RoundCount
             /\ member[m].result \in 0 .. RoundCount
             /\ member[m].group \in BOOLEAN
             /\ member[m].peers \subseteq (Member \ {m}) \cup {Server}
             /\ \A g \in member[m].sigs : g.round = member[m].round /\ g.signer \in Member
  <2>1. /\ member[m].round \in 0 .. RoundCount /\ member[m].completed \in 0 .. RoundCount
        /\ member[m].waiting \in 0 .. RoundCount /\ member[m].submitted \in 0 .. RoundCount
        /\ member[m].result \in 0 .. RoundCount /\ member[m].group \in BOOLEAN
        /\ member[m].sigs \subseteq Signature
    BY <1>2 DEF States
  <2>2. /\ member[m].completed <= Recorded /\ member[m].round <= Live
        /\ member[m].peers \subseteq (Member \ {m}) \cup {Server}
        /\ \A g \in member[m].sigs : g.round = member[m].round
    BY <1>2 DEF Local, Live
  <2>3. \A g \in member[m].sigs : g.signer \in Member
    BY <2>1 DEF Signature
  <2> QED BY <1>1, <2>1, <2>2, <2>3
<1> QED BY <1>1, <1>2, <1>3

\* The datagrams in flight, by their types.
LEMMA MessageFacts ==
    ASSUME IInv, NEW d \in msgs
    PROVE  /\ d.type \in {"register", "request", "registered", "challenge", "nonce", "signature",
                          "ack", "bundle", "result"}
           /\ d.type \in {"register", "request", "nonce", "signature", "ack", "bundle"} => d.src \in Member
           /\ d.type \in {"registered", "challenge", "nonce", "signature", "ack", "result"}
                => d.dst \in Member
           /\ d.type \in {"challenge", "nonce", "signature", "ack", "bundle", "result"}
                => d.round \in Round /\ d.round \in Nat
           /\ d.type \in {"challenge", "nonce"} => d.round <= Live
           /\ d.type = "nonce" =>
                d = [type |-> "nonce", src |-> d.src, dst |-> d.dst, round |-> d.round]
           /\ d.type = "signature" => d.sig = Own(d.src, d.round)
           /\ d.type = "bundle" => Whole(d.sigs, d.round)
           /\ d.type = "result" => /\ d.completed \in 0 .. Recorded
                                   /\ d.verdict \in Verdict
                                   /\ d.verdict = "recorded" => d.round = d.completed
<1>1. d \in Messages /\ Fits(d, Recorded) /\ Recorded \in 0 .. RoundCount
  BY DEF IInv, Typed, Recorded
<1>2. /\ d.type \in {"register", "request", "registered", "challenge", "nonce", "signature",
                     "ack", "bundle", "result"}
      /\ d.type \in {"register", "request", "nonce", "signature", "ack", "bundle"} => d.src \in Member
      /\ d.type \in {"registered", "challenge", "nonce", "signature", "ack", "result"}
           => d.dst \in Member
      /\ d.type \in {"challenge", "nonce", "signature", "ack", "bundle", "result"} => d.round \in Round
      /\ d.type = "nonce" =>
           d = [type |-> "nonce", src |-> d.src, dst |-> d.dst, round |-> d.round]
      /\ d.type = "result" => d.completed \in 0 .. RoundCount /\ d.verdict \in Verdict
  BY <1>1 DEF Messages
<1>3. Round \subseteq Nat
  BY DEF Round
<1>4. /\ d.type \in {"challenge", "nonce"} => d.round <= Live
      /\ d.type = "signature" => d.sig = Own(d.src, d.round)
      /\ d.type = "bundle" => Whole(d.sigs, d.round)
      /\ d.type = "result" => /\ d.completed <= Recorded
                              /\ d.verdict = "recorded" => d.round = d.completed
  BY <1>1 DEF Fits, Live
<1> QED BY <1>1, <1>2, <1>3, <1>4

\* What a client sends, field by field.
LEMMA RegisterFields ==
    ASSUME NEW m, NEW s, NEW d \in Register(m, s)
    PROVE  d.type = "register" /\ d.src = m
BY DEF Register

LEMMA RequestFields ==
    ASSUME NEW m, NEW s, NEW d \in SendRequest(m, s)
    PROVE  d.type = "request" /\ d.src = m /\ s.group /\ Server \in s.peers
BY DEF SendRequest

LEMMA RetryRequestFields ==
    ASSUME NEW m, NEW s, NEW d \in RetryRequest(m, s)
    PROVE  d \in SendRequest(m, s) /\ s.waiting # 0
BY DEF RetryRequest

LEMMA BroadcastFields ==
    ASSUME NEW m, NEW s, NEW d \in Broadcast(m, s)
    PROVE  d.type = "nonce" /\ d.src = m /\ d.dst \in s.peers \ {Server} /\ d.round = s.round
BY DEF Broadcast

LEMMA RelayFields ==
    ASSUME NEW m, NEW s, NEW d \in RetryRelay(m, s)
    PROVE  d \in Broadcast(m, s) /\ s.from_server /\ Open(s)
BY DEF RetryRelay

LEMMA SignatureFields ==
    ASSUME NEW m, NEW s, NEW d \in RetrySignature(m, s)
    PROVE  /\ d.type = "signature" /\ d.src = m /\ d.dst = Submitter(s.round) /\ d.round = s.round
           /\ d.dst \in s.peers /\ Open(s)
<1> DEFINE sig == CHOOSE g \in s.sigs : g.signer = m
<1>1. RetrySignature(m, s) =
        IF s.outgoing /\ Open(s) /\ ~ s.acked /\ Submitter(s.round) \in s.peers
        THEN {[type |-> "signature", src |-> m, dst |-> Submitter(s.round), round |-> s.round,
               sig |-> sig]}
        ELSE {}
  BY DEF RetrySignature
<1> HIDE DEF sig
<1> QED BY <1>1

LEMMA BundleFields ==
    ASSUME NEW m, NEW s, NEW due, NEW d \in Bundle(m, s, due)
    PROVE  d.type = "bundle" /\ d.src = m /\ d.round = s.round /\ Submits(m, s, due)
BY DEF Bundle

\* The fields of a member after it has marked its bundle as submitted.
LEMMA MarkedFields ==
    ASSUME NEW m, NEW s \in States, NEW due, NEW u, u = MarkSubmitted(m, s, due)
    PROVE  /\ u.group = s.group /\ u.registered = s.registered /\ u.peers = s.peers
           /\ u.waiting = s.waiting /\ u.completed = s.completed /\ u.finished = s.finished
           /\ u.round = s.round /\ u.from_server = s.from_server /\ u.sigs = s.sigs
           /\ u.acked = s.acked /\ u.outgoing = s.outgoing /\ u.result = s.result
           /\ u.submitted = IF Submits(m, s, due) THEN s.round ELSE s.submitted
BY DEF MarkSubmitted, States

\* The fields of a member that has entered round r (install_nonce).
LEMMA InstalledFields ==
    ASSUME NEW m \in Member, NEW s \in States, NEW c, Local(m, s, c), NEW r \in Round,
           NEW from_server \in BOOLEAN, NEW t, t = Installed(m, s, r, from_server)
    PROVE  /\ t \in States
           /\ t.group = s.group /\ t.registered = s.registered /\ t.peers = s.peers
           /\ t.waiting = IF s.waiting = r THEN 0 ELSE s.waiting
           /\ t.completed = s.completed /\ t.finished = s.finished /\ t.round = r
           /\ s.round = r => /\ (t.from_server <=> s.from_server \/ from_server)
                             /\ t.sigs = s.sigs /\ t.acked = s.acked
                             /\ t.submitted = s.submitted /\ t.result = s.result
           /\ s.round # r => /\ (t.from_server <=> from_server) /\ t.sigs = {Own(m, r)}
                             /\ ~ t.acked /\ t.submitted = 0 /\ t.result = 0
<1> DEFINE e == EnterRound(s, r, from_server)
           w == IF e.waiting = r THEN 0 ELSE e.waiting
           sigs == IF m \in {g.signer : g \in e.sigs} THEN e.sigs ELSE e.sigs \cup {Own(m, r)}
           out == e.outgoing \/ m # Submitter(r)
<1>1. t = [e EXCEPT !.waiting = w, !.sigs = sigs, !.outgoing = out]
  BY DEF Installed, Own
<1>2. r \in 0 .. RoundCount /\ 0 \in 0 .. RoundCount /\ r # 0
  BY ServerAssumption DEF Round
<1>3. Own(m, r) \in Signature /\ Own(m, r).signer = m
  BY DEF Own, Signature
<1>4. CASE s.round # r
  <2>1. e = NewRound(s, r, from_server)
    BY <1>4 DEF EnterRound
  <2>2. /\ e \in States /\ e.round = r /\ e.completed = s.completed /\ e.peers = s.peers
        /\ e.group = s.group /\ e.registered = s.registered /\ e.finished = s.finished
        /\ e.waiting = s.waiting /\ e.from_server = from_server /\ e.sigs = {}
        /\ e.acked = FALSE /\ e.submitted = 0 /\ e.result = 0
    BY <1>2, <2>1 DEF NewRound, States
  <2> HIDE DEF e
  <2>3. sigs = {Own(m, r)} /\ sigs \in SUBSET Signature
    BY <1>3, <2>2
  <2>4. w = (IF s.waiting = r THEN 0 ELSE s.waiting) /\ w \in 0 .. RoundCount
    BY <1>2, <2>2 DEF States
  <2>5. out \in BOOLEAN
    OBVIOUS
  <2> HIDE DEF w, sigs, out
  <2>6. /\ t \in States /\ t.waiting = w /\ t.sigs = sigs /\ t.group = e.group
        /\ t.registered = e.registered /\ t.peers = e.peers /\ t.completed = e.completed
        /\ t.finished = e.finished /\ t.round = e.round /\ t.from_server = e.from_server
        /\ t.acked = e.acked /\ t.submitted = e.submitted /\ t.result = e.result
    BY <1>1, <2>2, <2>3, <2>4, <2>5 DEF States
  <2> QED BY <1>4, <2>2, <2>3, <2>4, <2>6
<1>5. CASE s.round = r
  <2> DEFINE f == s.from_server \/ from_server
  <2>1. e = [s EXCEPT !.from_server = f] /\ f \in BOOLEAN
    BY <1>5 DEF EnterRound, States
  <2> HIDE DEF f
  <2>2. /\ e \in States /\ e.round = r /\ e.completed = s.completed /\ e.peers = s.peers
        /\ e.group = s.group /\ e.registered = s.registered /\ e.finished = s.finished
        /\ e.waiting = s.waiting /\ e.from_server = f /\ e.sigs = s.sigs
        /\ e.acked = s.acked /\ e.submitted = s.submitted /\ e.result = s.result
    BY <1>5, <2>1 DEF States
  <2> HIDE DEF e
  <2>3. Own(m, r) \in s.sigs
    BY <1>2, <1>5 DEF Local
  <2>4. sigs = s.sigs /\ sigs \in SUBSET Signature
    BY <1>3, <2>2, <2>3 DEF States
  <2>5. w = (IF s.waiting = r THEN 0 ELSE s.waiting) /\ w \in 0 .. RoundCount
    BY <1>2, <2>2 DEF States
  <2>6. out \in BOOLEAN
    OBVIOUS
  <2> HIDE DEF w, sigs, out
  <2>7. /\ t \in States /\ t.waiting = w /\ t.sigs = sigs /\ t.group = e.group
        /\ t.registered = e.registered /\ t.peers = e.peers /\ t.completed = e.completed
        /\ t.finished = e.finished /\ t.round = e.round /\ t.from_server = e.from_server
        /\ t.acked = e.acked /\ t.submitted = e.submitted /\ t.result = e.result
    BY <1>1, <2>2, <2>4, <2>5, <2>6 DEF States
  <2> QED BY <1>5, <2>2, <2>4, <2>5, <2>7 DEF f
<1> QED BY <1>4, <1>5

-----------------------------------------------------------------------------
\* The states agree but for whether a bundle was submitted.
Alike(u, t) ==
    /\ u.group = t.group /\ u.peers = t.peers /\ u.waiting = t.waiting
    /\ u.completed = t.completed /\ u.finished = t.finished /\ u.round = t.round
    /\ u.from_server = t.from_server /\ u.sigs = t.sigs /\ u.acked = t.acked
    /\ u.result = t.result

\* e is a datagram that member m, now in state s, may have sent.
Sends(m, s, e) ==
    \/ e.type = "register"
    \/ e.type = "request" /\ e.src = m /\ s.group /\ Server \in s.peers /\ s.waiting # 0
    \/ /\ e.type = "nonce" /\ e.src = m /\ e.dst \in s.peers \ {Server} /\ e.round = s.round
       /\ s.from_server
    \/ e.type = "signature" /\ e.src = m /\ e.dst \in s.peers /\ e.round = s.round /\ s.round # 0
    \/ /\ e.type = "ack" /\ e.src = m /\ e.round = s.round /\ m = Submitter(s.round)
       /\ Own(e.dst, s.round) \in s.sigs
    \/ /\ e.type = "bundle" /\ e.src = m /\ e.round = s.round /\ m = Submitter(s.round)
       /\ Open(s) /\ s.submitted = s.round /\ s.group /\ Server \in s.peers
       /\ \A p \in Member : Own(p, s.round) \in s.sigs

\* A step of member m after which the datagrams in left are still in flight.
Moves(m, left) ==
    /\ server' = server
    /\ \A p \in Member \ {m} : member'[p] = member[p]
    /\ left \subseteq msgs'
    /\ \A e \in msgs' : e \in left \/ Sends(m, member'[m], e)
    /\ member[m].peers \subseteq member'[m].peers
    /\ member'[m].peers \subseteq (Member \ {m}) \cup {Server}
    /\ member[m].group => member'[m].group

\* Who has the signatures of all members over the nonce of its round.
LEMMA AllSigned ==
    ASSUME NEW m, NEW s \in States, NEW c, Local(m, s, c), {g.signer : g \in s.sigs} = Member
    PROVE  \A p \in Member : Own(p, s.round) \in s.sigs
<1> SUFFICES ASSUME NEW p \in Member PROVE Own(p, s.round) \in s.sigs
  OBVIOUS
<1>1. PICK g \in s.sigs : g.signer = p
  OBVIOUS
<1>2. g \in Signature /\ g.round = s.round
  BY DEF States, Local
<1> QED BY <1>1, <1>2, SignatureIsOwn

\* What the operators of a client give is what the member may send.
LEMMA SendsFrom ==
    ASSUME NEW m \in Member, NEW t \in States, NEW c, Local(m, t, c), NEW due, NEW u, Alike(u, t)
    PROVE  /\ \A e \in Register(m, t) : Sends(m, u, e)
           /\ t.waiting # 0 => \A e \in SendRequest(m, t) : Sends(m, u, e)
           /\ t.from_server => \A e \in Broadcast(m, t) : Sends(m, u, e)
           /\ \A e \in RetrySignature(m, t) : Sends(m, u, e)
           /\ (Submits(m, t, due) => u.submitted = u.round) =>
                \A e \in Bundle(m, t, due) : Sends(m, u, e)
<1>1. \A e \in Register(m, t) : Sends(m, u, e)
  BY RegisterFields DEF Sends
<1>2. t.waiting # 0 => \A e \in SendRequest(m, t) : Sends(m, u, e)
  BY RequestFields DEF Sends, Alike
<1>3. t.from_server => \A e \in Broadcast(m, t) : Sends(m, u, e)
  BY BroadcastFields DEF Sends, Alike
<1>4. \A e \in RetrySignature(m, t) : Sends(m, u, e)
  <2>1. Open(t) => t.round # 0
    BY ServerAssumption DEF Open, States
  <2> QED BY <2>1, SignatureFields DEF Sends, Alike
<1>5. ASSUME Submits(m, t, due) => u.submitted = u.round, NEW e \in Bundle(m, t, due)
      PROVE  Sends(m, u, e)
  <2>1. /\ e.type = "bundle" /\ e.src = m /\ e.round = t.round /\ Submits(m, t, due)
    BY <1>5, BundleFields
  <2>2. /\ Open(t) /\ m = Submitter(t.round) /\ {g.signer : g \in t.sigs} = Member
        /\ t.group /\ Server \in t.peers
    BY <2>1 DEF Submits, CanSubmit
  <2>3. \A p \in Member : Own(p, t.round) \in t.sigs
    BY <2>2, AllSigned
  <2>4. Open(u)
    BY <2>2 DEF Open, Alike
  <2> QED BY <1>5, <2>1, <2>2, <2>3, <2>4 DEF Sends, Alike
<1> QED BY <1>1, <1>2, <1>3, <1>4, <1>5

\* Marking a bundle as submitted changes nothing else.
LEMMA MarkedAlike ==
    ASSUME NEW m, NEW s \in States, NEW due, NEW u, u = MarkSubmitted(m, s, due)
    PROVE  /\ Alike(u, s)
           /\ u.submitted = IF Submits(m, s, due) THEN u.round ELSE s.submitted
BY MarkedFields DEF Alike

\* tick
LEMMA TickMoves ==
    ASSUME IInv, NEW m \in Member, NEW found \in SUBSET Undiscovered(m),
           NEW due \in SUBSET Retries, Tick(m, found, due)
    PROVE  /\ Moves(m, msgs)
           /\ member'[m].round = member[m].round /\ member'[m].completed = member[m].completed
           /\ member'[m].from_server = member[m].from_server
           /\ member'[m].finished = member[m].finished /\ member'[m].sigs = member[m].sigs
           /\ member'[m].acked = member[m].acked /\ member'[m].result = member[m].result
           /\ member'[m].group = member[m].group
           /\ member'[m].submitted \in {member[m].submitted, member[m].round}
           /\ \/ member'[m].waiting = member[m].waiting
              \/ /\ m = 0 /\ member[m].group /\ member[m].round = 0 /\ member[m].waiting = 0
                 /\ member'[m].waiting = 1
           /\ faults' = faults /\ putback' = putback
<1> DEFINE yes == TRUE
           s == [member[m] EXCEPT !.peers = @ \cup found]
           t == IF StartsRoundOne(m, s) THEN [s EXCEPT !.waiting = 1] ELSE s
           u == IF "bundle" \in due THEN MarkSubmitted(m, t, yes) ELSE t
           c == Recorded
           sent == [register  |-> Register(m, s),
                    request   |-> RetryRequest(m, t),
                    relay     |-> RetryRelay(m, t),
                    signature |-> RetrySignature(m, t),
                    bundle    |-> Bundle(m, t, yes)]
           answers == UNION {sent[k] : k \in due}
           first == IF t # s THEN SendRequest(m, t) ELSE {}
<1>1. member[m] \in States /\ Local(m, member[m], c) /\ c \in 0 .. RoundCount
  BY MemberFacts
<1>2. /\ s \in States /\ Local(m, s, c) /\ s.peers = member[m].peers \cup found
      /\ s = [member[m] EXCEPT !.peers = s.peers]
  BY <1>1 DEF States, Local, Undiscovered
<1>3. /\ s.group = member[m].group /\ s.waiting = member[m].waiting
      /\ s.completed = member[m].completed /\ s.finished = member[m].finished
      /\ s.round = member[m].round /\ s.from_server = member[m].from_server
      /\ s.sigs = member[m].sigs /\ s.acked = member[m].acked /\ s.result = member[m].result
      /\ s.submitted = member[m].submitted
  BY <1>1 DEF States
<1> HIDE DEF s, yes
<1>4. /\ t \in States /\ Local(m, t, c) /\ t.group = s.group /\ t.completed = s.completed
      /\ t.finished = s.finished /\ t.round = s.round /\ t.from_server = s.from_server
      /\ t.sigs = s.sigs /\ t.acked = s.acked /\ t.result = s.result
      /\ t.submitted = s.submitted /\ t.peers = s.peers
      /\ t.waiting = IF StartsRoundOne(m, s) THEN 1 ELSE s.waiting
  <2>1. 1 \in 0 .. RoundCount
    BY ServerAssumption
  <2> QED BY <1>2, <2>1 DEF States, Local
<1>5. /\ member' = [member EXCEPT ![m] = u] /\ server' = server /\ faults' = faults
      /\ putback' = putback /\ msgs' = msgs \cup answers \cup first
  <2>1. member' = [member EXCEPT ![m] = u]
    BY DEF Tick, s, yes
  <2>2. server' = server /\ faults' = faults /\ putback' = putback
    BY DEF Tick
  <2>3. msgs' = msgs \cup answers \cup first
    BY DEF Tick, s, yes
  <2> QED BY <2>1, <2>2, <2>3
<1>6. t # s => StartsRoundOne(m, s)
  OBVIOUS
<1>7. StartsRoundOne(m, s) => /\ t # s
                              /\ m = 0 /\ s.group /\ s.round = 0 /\ s.waiting = 0 /\ Server \in s.peers
  <2>1. StartsRoundOne(m, s) => t.waiting # s.waiting
    BY <1>4 DEF StartsRoundOne
  <2> QED BY <2>1 DEF StartsRoundOne
<1> HIDE DEF t
<1> HIDE DEF answers, first, sent
<1>8. Alike(u, t) /\ u.submitted \in {t.submitted, t.round}
  <2>1. CASE "bundle" \in due
    <3>1. u = MarkSubmitted(m, t, yes)
      BY <2>1
    <3> HIDE DEF u
    <3>2. /\ Alike(u, t)
          /\ u.submitted = IF Submits(m, t, yes) THEN u.round ELSE t.submitted
      BY <1>4, <3>1, MarkedAlike
    <3> QED BY <3>2 DEF Alike
  <2>2. CASE "bundle" \notin due
    BY <2>2 DEF Alike
  <2> QED BY <2>1, <2>2
<1>9. "bundle" \in due => (Submits(m, t, yes) => u.submitted = u.round)
  <2> SUFFICES ASSUME "bundle" \in due PROVE Submits(m, t, yes) => u.submitted = u.round
    OBVIOUS
  <2>1. u = MarkSubmitted(m, t, yes)
    OBVIOUS
  <2> HIDE DEF u
  <2> QED BY <1>4, <2>1, MarkedAlike
<1>10. member'[m] = u /\ \A p \in Member \ {m} : member'[p] = member[p]
  BY <1>5 DEF IInv, Typed
<1> HIDE DEF u
<1>18. /\ \A e \in Register(m, s) : Sends(m, u, e) /\ e.type = "register"
       /\ t.waiting # 0 => \A e \in SendRequest(m, t) : Sends(m, u, e)
       /\ \A e \in SendRequest(m, t) : e.type = "request"
       /\ \A e \in RetryRequest(m, t) : e \in SendRequest(m, t) /\ t.waiting # 0
       /\ t.from_server => \A e \in Broadcast(m, t) : Sends(m, u, e)
       /\ \A e \in RetryRelay(m, t) : e \in Broadcast(m, t) /\ t.from_server /\ Open(t)
       /\ \A e \in RetrySignature(m, t) : Sends(m, u, e) /\ e.type = "signature"
       /\ "bundle" \in due => \A e \in Bundle(m, t, yes) : Sends(m, u, e)
       /\ \A e \in Bundle(m, t, yes) : e.type = "bundle"
  <2>1. /\ t.waiting # 0 => \A e \in SendRequest(m, t) : Sends(m, u, e)
        /\ t.from_server => \A e \in Broadcast(m, t) : Sends(m, u, e)
        /\ \A e \in RetrySignature(m, t) : Sends(m, u, e)
        /\ (Submits(m, t, yes) => u.submitted = u.round) =>
             \A e \in Bundle(m, t, yes) : Sends(m, u, e)
    BY <1>4, <1>8, SendsFrom
  <2>2. \A d \in SendRequest(m, t) : d.type = "request"
    BY RequestFields
  <2>3. \A d \in RetryRequest(m, t) : d \in SendRequest(m, t) /\ t.waiting # 0
    BY RetryRequestFields
  <2>4. \A d \in RetryRelay(m, t) : d \in Broadcast(m, t) /\ t.from_server /\ Open(t)
    BY RelayFields
  <2>5. \A d \in RetrySignature(m, t) : d.type = "signature"
    BY SignatureFields
  <2>6. \A d \in Bundle(m, t, yes) : d.type = "bundle"
    BY BundleFields
  <2>7. \A d \in Register(m, s) : Sends(m, u, d) /\ d.type = "register"
    BY RegisterFields DEF Sends
  <2> QED BY <1>9, <2>1, <2>2, <2>3, <2>4, <2>5, <2>6, <2>7
<1>11. ASSUME NEW e \in first PROVE Sends(m, u, e)
  <2>1. t.waiting # 0 /\ e \in SendRequest(m, t)
    BY <1>4, <1>6, <1>11 DEF first
  <2> QED BY <1>18, <2>1
<1>12. ASSUME NEW e \in answers
       PROVE  Sends(m, u, e)
  <2>1. PICK k \in due : e \in sent[k]
    BY <1>12 DEF answers
  <2>2. k \in {"register", "request", "relay", "signature", "bundle"}
    BY DEF Retries
  <2>3. \/ e \in Register(m, s)
        \/ e \in RetryRequest(m, t)
        \/ e \in RetryRelay(m, t)
        \/ e \in RetrySignature(m, t)
        \/ "bundle" \in due /\ e \in Bundle(m, t, yes)
    <3>1. /\ sent["register"] = Register(m, s) /\ sent["request"] = RetryRequest(m, t)
          /\ sent["relay"] = RetryRelay(m, t) /\ sent["signature"] = RetrySignature(m, t)
          /\ sent["bundle"] = Bundle(m, t, yes)
      BY DEF sent
    <3> QED BY <2>1, <2>2, <3>1, Zenon
  <2>4. CASE e \in Register(m, s)
    BY <1>18, <2>4
  <2>5. CASE e \in RetryRequest(m, t)
    BY <1>18, <2>5
  <2>6. CASE e \in RetryRelay(m, t)
    <3>1. e \in Broadcast(m, t) /\ t.from_server /\ Open(t)
      BY <1>18, <2>6
    <3>2. Open(member[m])
      BY <1>3, <1>4, <3>1 DEF Open
    <3> QED BY <1>18, <3>1, <3>2
  <2>7. CASE e \in RetrySignature(m, t)
    BY <1>18, <2>7
  <2>8. CASE "bundle" \in due /\ e \in Bundle(m, t, yes)
    BY <1>18, <2>8
  <2> QED BY <2>3, <2>4, <2>5, <2>6, <2>7, <2>8
<1>14. Moves(m, msgs)
  <2>1. u.peers = member[m].peers \cup found /\ u.group = member[m].group
    BY <1>2, <1>3, <1>4, <1>8 DEF Alike
  <2>2. u.peers \subseteq (Member \ {m}) \cup {Server}
    BY <1>4, <1>8 DEF Alike, Local
  <2>3. \A e \in msgs' : e \in msgs \/ Sends(m, member'[m], e)
    BY <1>5, <1>10, <1>11, <1>12
  <2> QED BY <1>5, <1>10, <2>1, <2>2, <2>3 DEF Moves
<1>17. \/ member'[m].waiting = member[m].waiting
       \/ /\ m = 0 /\ member[m].group /\ member[m].round = 0 /\ member[m].waiting = 0
          /\ member'[m].waiting = 1
  BY <1>3, <1>4, <1>7, <1>8, <1>10 DEF Alike
<1> QED BY <1>3, <1>4, <1>5, <1>8, <1>10, <1>14, <1>17 DEF Alike

\* install_nonce, when the nonce is of a round the member has not completed.
LEMMA InstallMoves ==
    ASSUME IInv, NEW m \in Member, NEW r \in Round, NEW from_server \in BOOLEAN, NEW due,
           NEW left \in SUBSET msgs, InstallNonce(m, r, from_server, due, left),
           Current(member[m], r), server' = server
    PROVE  /\ Moves(m, left)
           /\ member'[m].round = r
           /\ member'[m].waiting = IF member[m].waiting = r THEN 0 ELSE member[m].waiting
           /\ member'[m].completed = member[m].completed
           /\ member'[m].finished = member[m].finished
           /\ member[m].round = r =>
                /\ member'[m].sigs = member[m].sigs
                /\ member'[m].submitted \in {member[m].submitted, r}
           /\ member[m].round # r =>
                member'[m].sigs = {Own(m, r)} /\ member'[m].submitted \in {0, r}
<1> DEFINE t == Installed(m, member[m], r, from_server)
           u == MarkSubmitted(m, t, due)
           c == Recorded
           relayed == IF from_server THEN Broadcast(m, t) ELSE {}
<1>1. /\ member[m] \in States /\ Local(m, member[m], c)
      /\ member[m].peers \subseteq (Member \ {m}) \cup {Server} /\ c \in 0 .. RoundCount
      /\ c = server.completed
  BY MemberFacts DEF Recorded
<1>0. t = Installed(m, member[m], r, from_server)
  OBVIOUS
<1>3. /\ member' = [member EXCEPT ![m] = u]
      /\ msgs' = left \cup relayed \cup RetrySignature(m, t) \cup Bundle(m, t, due)
  BY DEF InstallNonce
<1> HIDE DEF t
<1>2. /\ t \in States
      /\ t.group = member[m].group /\ t.peers = member[m].peers
      /\ t.waiting = IF member[m].waiting = r THEN 0 ELSE member[m].waiting
      /\ t.completed = member[m].completed /\ t.finished = member[m].finished /\ t.round = r
      /\ member[m].round = r => /\ (t.from_server <=> member[m].from_server \/ from_server)
                                /\ t.sigs = member[m].sigs /\ t.acked = member[m].acked
                                /\ t.submitted = member[m].submitted
      /\ member[m].round # r => /\ (t.from_server <=> from_server) /\ t.sigs = {Own(m, r)}
                                /\ ~ t.acked /\ t.submitted = 0
  BY <1>0, <1>1, InstalledFields
<1>4. from_server => t.from_server
  BY <1>2
<1>5. Alike(u, t) /\ u.submitted = IF Submits(m, t, due) THEN u.round ELSE t.submitted
  BY <1>2, MarkedAlike
<1>6. member'[m] = u /\ \A p \in Member \ {m} : member'[p] = member[p]
  BY <1>3 DEF IInv, Typed
<1> HIDE DEF u
<1>7. \A d \in Bundle(m, t, due) : d.type = "bundle" /\ d.round = t.round /\ d.sigs = t.sigs
  BY DEF Bundle
<1>8. \A e \in t.sigs : e.round = r
  BY <1>1, <1>2 DEF Local, Own
<1>9. Own(m, r) \in t.sigs
  <2>1. r # 0
    BY DEF Round
  <2> QED BY <1>1, <1>2, <2>1 DEF Local
<1> DEFINE k == IF r > c THEN r ELSE c
<1>10. Local(m, t, k)
  <2>1. r \in Nat /\ c \in Nat /\ member[m].completed \in Nat
    BY <1>1 DEF Round, States
  <2> QED BY <1>1, <1>2, <1>8, <1>9, <2>1 DEF Local
<1> HIDE DEF k
<1>11. /\ t.from_server => \A e \in Broadcast(m, t) : Sends(m, u, e)
       /\ \A e \in RetrySignature(m, t) : Sends(m, u, e)
       /\ \A e \in Bundle(m, t, due) : Sends(m, u, e)
  BY <1>2, <1>5, <1>10, SendsFrom
<1>13. Moves(m, left)
  <2>1. \A e \in msgs' : e \in left \/ Sends(m, u, e)
    BY <1>3, <1>4, <1>11
  <2> HIDE DEF relayed
  <2> QED BY <1>1, <1>2, <1>3, <1>5, <1>6, <2>1 DEF Moves, Alike
<1> HIDE DEF relayed
<1>17. /\ u.submitted \in {t.submitted, r} /\ u.round = t.round
  BY <1>2, <1>5 DEF Alike
<1> QED BY <1>2, <1>5, <1>6, <1>13, <1>17 DEF Alike

\* A member that enters a round has not been acknowledged in it, and relays its
\* nonce if it has it from the server.
LEMMA InstallFlags ==
    ASSUME IInv, NEW m \in Member, NEW r \in Round, NEW from_server \in BOOLEAN, NEW due,
           NEW left \in SUBSET msgs, InstallNonce(m, r, from_server, due, left),
           Current(member[m], r)
    PROVE  /\ member'[m].acked => member[m].acked /\ member[m].round = r
           /\ from_server => member'[m].from_server
           /\ member[m].from_server /\ member[m].round = r => member'[m].from_server
           /\ member'[m].from_server => from_server \/ (member[m].from_server /\ member[m].round = r)
<1> DEFINE t == Installed(m, member[m], r, from_server)
           u == MarkSubmitted(m, t, due)
<1>0. t = Installed(m, member[m], r, from_server) /\ u = MarkSubmitted(m, t, due)
  OBVIOUS
<1>1. member[m] \in States /\ Local(m, member[m], Recorded)
  BY MemberFacts
<1>2. member'[m] = u
  BY DEF InstallNonce, IInv, Typed
<1> HIDE DEF t, u
<1>3. /\ t \in States
      /\ member[m].round = r => /\ (t.from_server <=> member[m].from_server \/ from_server)
                                /\ t.acked = member[m].acked
      /\ member[m].round # r => /\ (t.from_server <=> from_server) /\ ~ t.acked
  BY <1>0, <1>1, InstalledFields
<1>4. u.from_server = t.from_server /\ u.acked = t.acked
  BY <1>0, <1>3, MarkedFields
<1>5. CASE member[m].round = r
  BY <1>2, <1>3, <1>4, <1>5, Zenon
<1>6. CASE member[m].round # r
  <2>1. ~ u.acked
    BY <1>3, <1>4, <1>6
  <2>2. u.from_server <=> from_server
    BY <1>3, <1>4, <1>6
  <2>3. ~ member'[m].acked
    BY <1>2, <2>1
  <2>4. member'[m].from_server <=> from_server
    BY <1>2, <2>2
  <2> QED BY <1>6, <2>3, <2>4
<1> QED BY <1>5, <1>6, Zenon

\* on_registration_response
LEMMA RegistrationMoves ==
    ASSUME IInv, NEW m \in Member, NEW d \in msgs, OnRegistrationResponse(m, d), server' = server
    PROVE  /\ Moves(m, msgs \ {d}) /\ msgs' = msgs \ {d} /\ d.type = "registered"
           /\ member'[m].group = TRUE /\ member'[m].submitted = member[m].submitted
           /\ member'[m].round = member[m].round /\ member'[m].completed = member[m].completed
           /\ member'[m].waiting = member[m].waiting /\ member'[m].sigs = member[m].sigs
           /\ member'[m].from_server = member[m].from_server
           /\ member'[m].finished = member[m].finished /\ member'[m].acked = member[m].acked
<1> DEFINE s == [member[m] EXCEPT !.registered = TRUE, !.group = TRUE]
<1>1. member[m] \in States /\ member[m].peers \subseteq (Member \ {m}) \cup {Server}
  BY MemberFacts
<1>2. /\ member' = [member EXCEPT ![m] = s] /\ msgs' = msgs \ {d} /\ d.type = "registered"
  BY DEF OnRegistrationResponse, IInv, Typed
<1>3. /\ s.group = TRUE /\ s.submitted = member[m].submitted
      /\ s.round = member[m].round /\ s.completed = member[m].completed
      /\ s.waiting = member[m].waiting /\ s.sigs = member[m].sigs
      /\ s.from_server = member[m].from_server /\ s.finished = member[m].finished
      /\ s.acked = member[m].acked /\ s.peers = member[m].peers
  BY <1>1 DEF States
<1> HIDE DEF s
<1>4. member'[m] = s /\ \A p \in Member \ {m} : member'[p] = member[p]
  BY <1>2 DEF IInv, Typed
<1> QED BY <1>1, <1>2, <1>3, <1>4 DEF Moves

\* on_team_signature, when it accepts the signature.
LEMMA SignatureMoves ==
    ASSUME IInv, NEW m \in Member, NEW d \in msgs, NEW due, d.type = "signature",
           member[m].group, d.round = member[m].round, m = Submitter(d.round),
           d.sig.round = d.round, OnTeamSignature(m, d, due), server' = server
    PROVE  /\ Moves(m, msgs \ {d})
           /\ member'[m].round = member[m].round /\ member'[m].completed = member[m].completed
           /\ member'[m].waiting = member[m].waiting
           /\ member'[m].from_server = member[m].from_server
           /\ member'[m].finished = member[m].finished /\ member'[m].acked = member[m].acked
           /\ member'[m].group = member[m].group
           /\ member'[m].sigs = member[m].sigs \cup {Own(d.src, member[m].round)}
           /\ member'[m].submitted \in {member[m].submitted, member[m].round}
           /\ \A e \in msgs' : e \in msgs \ {d} \/ e.type \in {"ack", "bundle"}
<1> DEFINE s == [member[m] EXCEPT !.sigs = @ \cup {d.sig}]
           u == MarkSubmitted(m, s, due)
           ack == [type |-> "ack", src |-> m, dst |-> d.src, round |-> d.round]
           c == Recorded
<1>1. /\ member[m] \in States /\ Local(m, member[m], c) /\ c \in 0 .. RoundCount
      /\ member[m].peers \subseteq (Member \ {m}) \cup {Server}
  BY MemberFacts
<1>2. d.sig = Own(d.src, d.round) /\ d.src \in Member /\ d.round \in Round
  BY MessageFacts
<1>3. d.sig \in Signature
  BY <1>2 DEF Own, Signature
<1>4. /\ member' = [member EXCEPT ![m] = u]
      /\ msgs' = (msgs \ {d}) \cup Bundle(m, s, due) \cup {ack}
  BY DEF OnTeamSignature
<1>5. /\ s \in States /\ Local(m, s, c) /\ s.round = member[m].round
      /\ s.completed = member[m].completed /\ s.waiting = member[m].waiting
      /\ s.from_server = member[m].from_server /\ s.finished = member[m].finished
      /\ s.acked = member[m].acked /\ s.group = member[m].group /\ s.peers = member[m].peers
      /\ s.submitted = member[m].submitted /\ s.sigs = member[m].sigs \cup {d.sig}
  BY <1>1, <1>3 DEF States, Local
<1> HIDE DEF s
<1>6. Alike(u, s) /\ u.submitted = IF Submits(m, s, due) THEN u.round ELSE s.submitted
  BY <1>5, MarkedAlike
<1>7. member'[m] = u /\ \A p \in Member \ {m} : member'[p] = member[p]
  BY <1>4 DEF IInv, Typed
<1> HIDE DEF u
<1>8. \A e \in Bundle(m, s, due) : Sends(m, u, e)
  BY <1>5, <1>6, SendsFrom
<1>9. ack.type = "ack" /\ ack.src = m /\ ack.dst = d.src /\ ack.round = member[m].round
  OBVIOUS
<1> HIDE DEF ack
<1>10. Sends(m, u, ack)
  BY <1>2, <1>5, <1>6, <1>9 DEF Sends, Alike
<1>12. Moves(m, msgs \ {d})
  BY <1>1, <1>4, <1>5, <1>6, <1>7, <1>8, <1>10 DEF Moves, Alike
<1>13. \A e \in msgs' : e \in msgs \ {d} \/ e.type \in {"ack", "bundle"}
  <2>1. \A e \in Bundle(m, s, due) : e.type = "bundle"
    BY BundleFields
  <2> QED BY <1>4, <1>9, <2>1
<1>15. member'[m].sigs = member[m].sigs \cup {Own(d.src, member[m].round)}
  <2>1. d.sig = Own(d.src, member[m].round)
    BY <1>2, Zenon
  <2>2. u.sigs = member[m].sigs \cup {d.sig}
    BY <1>5, <1>6 DEF Alike
  <2> QED BY <1>7, <2>1, <2>2, Zenon
<1>16. u.submitted \in {s.submitted, u.round}
  BY <1>6
<1>17. /\ u.round = s.round /\ u.completed = s.completed /\ u.waiting = s.waiting
       /\ u.from_server = s.from_server /\ u.finished = s.finished /\ u.acked = s.acked
       /\ u.group = s.group
  BY <1>6 DEF Alike
<1>18. member'[m].submitted \in {member[m].submitted, member[m].round}
  BY <1>5, <1>7, <1>16, <1>17
<1> QED BY <1>5, <1>7, <1>12, <1>13, <1>15, <1>17, <1>18

\* on_team_ack
LEMMA AckMoves ==
    ASSUME IInv, NEW m \in Member, NEW d \in msgs, OnTeamAck(m, d), server' = server
    PROVE  /\ Moves(m, msgs \ {d}) /\ msgs' = msgs \ {d} /\ d.type = "ack"
           /\ member'[m].group = member[m].group /\ member'[m].submitted = member[m].submitted
           /\ member'[m].round = member[m].round /\ member'[m].completed = member[m].completed
           /\ member'[m].waiting = member[m].waiting /\ member'[m].sigs = member[m].sigs
           /\ member'[m].from_server = member[m].from_server
           /\ member'[m].finished = member[m].finished
           /\ member'[m].acked => member[m].acked \/ d.round = member[m].round
<1> DEFINE acked == member[m].acked \/ (/\ member[m].group /\ d.round = member[m].round
                                        /\ d.src = Submitter(d.round))
           s == [member[m] EXCEPT !.acked = acked]
<1>1. member[m] \in States /\ member[m].peers \subseteq (Member \ {m}) \cup {Server}
  BY MemberFacts
<1>2. /\ member' = [member EXCEPT ![m] = s] /\ msgs' = msgs \ {d} /\ d.type = "ack"
  BY DEF OnTeamAck, IInv, Typed
<1>3. acked => member[m].acked \/ d.round = member[m].round
  OBVIOUS
<1> HIDE DEF acked
<1>4. /\ s.group = member[m].group /\ s.submitted = member[m].submitted
      /\ s.round = member[m].round /\ s.completed = member[m].completed
      /\ s.waiting = member[m].waiting /\ s.sigs = member[m].sigs
      /\ s.from_server = member[m].from_server /\ s.finished = member[m].finished
      /\ s.acked = acked /\ s.peers = member[m].peers
  BY <1>1 DEF States
<1> HIDE DEF s
<1>5. member'[m] = s /\ \A p \in Member \ {m} : member'[p] = member[p]
  BY <1>2 DEF IInv, Typed
<1>6. member'[m].acked => member[m].acked \/ d.round = member[m].round
  BY <1>3, <1>4, <1>5
<1> QED BY <1>1, <1>2, <1>4, <1>5, <1>6 DEF Moves

\* on_round_result, when the round was recorded.
LEMMA SuccessMoves ==
    ASSUME IInv, NEW m \in Member, NEW d \in msgs, d.type = "result", OnSuccess(m, d), server' = server
    PROVE  /\ Moves(m, msgs \ {d}) /\ d.verdict = "recorded"
           /\ member'[m].group = member[m].group /\ member'[m].submitted = member[m].submitted
           /\ member'[m].round = member[m].round /\ member'[m].sigs = member[m].sigs
           /\ member'[m].from_server = member[m].from_server /\ member'[m].acked = member[m].acked
           /\ member'[m].completed =
                IF d.completed > member[m].completed THEN d.completed ELSE member[m].completed
           /\ member'[m].finished = member[m].finished \/ d.completed = RoundCount
           /\ member'[m].waiting = IF d.completed < RoundCount /\ m = Submitter(d.round)
                                   THEN d.round + 1 ELSE member[m].waiting
<1> DEFINE done == IF d.completed > member[m].completed THEN d.completed ELSE member[m].completed
           s == [member[m] EXCEPT !.result = d.round, !.completed = done]
           over == d.completed >= RoundCount
           next == ~ over /\ m = Submitter(d.round)
           fin == s.finished \/ over
           wait == IF next THEN d.round + 1 ELSE s.waiting
           t == [s EXCEPT !.finished = fin, !.waiting = wait]
           asks == IF next THEN SendRequest(m, s) ELSE {}
<1>1. /\ member[m] \in States /\ member[m].peers \subseteq (Member \ {m}) \cup {Server}
      /\ Recorded \in 0 .. RoundCount /\ RoundCount \in Nat
  BY MemberFacts
<1>2. d.round \in Nat /\ d.completed \in 0 .. Recorded
  BY MessageFacts
<1>3. /\ member' = [member EXCEPT ![m] = t] /\ msgs' = (msgs \ {d}) \cup asks
      /\ d.verdict = "recorded"
  BY DEF OnSuccess
<1> HIDE DEF done
<1>4. /\ s.group = member[m].group /\ s.submitted = member[m].submitted
      /\ s.round = member[m].round /\ s.completed = done
      /\ s.waiting = member[m].waiting /\ s.sigs = member[m].sigs
      /\ s.from_server = member[m].from_server /\ s.finished = member[m].finished
      /\ s.acked = member[m].acked /\ s.peers = member[m].peers
      /\ s = [member[m] EXCEPT !.result = d.round, !.completed = done]
  BY <1>1 DEF States
<1>5. DOMAIN s = DOMAIN member[m]
  OBVIOUS
<1>6. over <=> ~ (d.completed < RoundCount)
  BY <1>1, <1>2
<1>7. over => d.completed = RoundCount
  BY <1>1, <1>2
<1> HIDE DEF s, over
<1>8. fin = member[m].finished \/ over
  <2> SUFFICES ASSUME ~ over PROVE fin = member[m].finished
    OBVIOUS
  <2>1. s.finished \in BOOLEAN
    BY <1>1, <1>4 DEF States
  <2>2. fin = s.finished
    BY <2>1, Zenon
  <2> QED BY <1>4, <2>2
<1> HIDE DEF fin, wait
<1>9. /\ t.group = s.group /\ t.submitted = s.submitted
      /\ t.round = s.round /\ t.completed = s.completed
      /\ t.waiting = wait /\ t.sigs = s.sigs
      /\ t.from_server = s.from_server /\ t.finished = fin
      /\ t.acked = s.acked /\ t.peers = s.peers
  BY <1>1, <1>5 DEF States
<1> HIDE DEF t
<1>10. member'[m] = t /\ \A p \in Member \ {m} : member'[p] = member[p]
  BY <1>3 DEF IInv, Typed
<1>11. \A e \in asks : e.type = "request" /\ e.src = m /\ s.group /\ Server \in s.peers /\ next
  BY RequestFields
<1>12. next => wait # 0 /\ wait = d.round + 1
  BY <1>2 DEF wait
<1>13. \A e \in asks : Sends(m, t, e)
  BY <1>9, <1>11, <1>12 DEF Sends
<1>15. Moves(m, msgs \ {d})
  <2> HIDE DEF asks
  <2> QED BY <1>1, <1>3, <1>4, <1>9, <1>10, <1>13 DEF Moves
<1>17. member'[m].finished = member[m].finished \/ d.completed = RoundCount
  BY <1>7, <1>8, <1>9, <1>10
<1>19. wait = IF next THEN d.round + 1 ELSE member[m].waiting
  BY <1>4 DEF wait
<1>20. done = IF d.completed > member[m].completed THEN d.completed ELSE member[m].completed
  BY DEF done
<1> HIDE DEF asks
<1> QED BY <1>3, <1>4, <1>6, <1>9, <1>10, <1>15, <1>17, <1>19, <1>20

\* on_round_result, when the server no longer knows the challenge.
LEMMA NoActiveChallengeMoves ==
    ASSUME IInv, NEW m \in Member, NEW d \in msgs, d.type = "result", OnNoActiveChallenge(m, d),
           d.round < RoundCount, member[m].group, server' = server
    PROVE  /\ Moves(m, msgs \ {d}) /\ d.verdict = "no active challenge"
           /\ member'[m].group = member[m].group /\ member'[m].submitted = member[m].submitted
           /\ member'[m].round = member[m].round /\ member'[m].sigs = member[m].sigs
           /\ member'[m].from_server = member[m].from_server /\ member'[m].acked = member[m].acked
           /\ member'[m].completed = member[m].completed
           /\ member'[m].finished = member[m].finished
           /\ member'[m].waiting = d.round + 1
<1> DEFINE t == [member[m] EXCEPT !.waiting = d.round + 1]
           asks == SendRequest(m, member[m])
<1>1. member[m] \in States /\ member[m].peers \subseteq (Member \ {m}) \cup {Server}
  BY MemberFacts
<1>2. d.round \in Nat
  BY MessageFacts
<1>3. /\ member' = [member EXCEPT ![m] = t] /\ msgs' = (msgs \ {d}) \cup asks
      /\ d.verdict = "no active challenge"
  BY DEF OnNoActiveChallenge, IInv, Typed
<1>4. /\ t.group = member[m].group /\ t.submitted = member[m].submitted
      /\ t.round = member[m].round /\ t.completed = member[m].completed
      /\ t.waiting = d.round + 1 /\ t.sigs = member[m].sigs
      /\ t.from_server = member[m].from_server /\ t.finished = member[m].finished
      /\ t.acked = member[m].acked /\ t.peers = member[m].peers
  BY <1>1 DEF States
<1> HIDE DEF t
<1>5. member'[m] = t /\ \A p \in Member \ {m} : member'[p] = member[p]
  BY <1>3 DEF IInv, Typed
<1>6. \A e \in asks : e.type = "request" /\ e.src = m /\ Server \in member[m].peers
  BY RequestFields
<1>7. \A e \in asks : Sends(m, t, e)
  BY <1>2, <1>4, <1>6 DEF Sends
<1> HIDE DEF asks
<1> QED BY <1>1, <1>3, <1>4, <1>5, <1>6, <1>7 DEF Moves

\* on_round_result, when the bundle was rejected.
LEMMA RejectionMoves ==
    ASSUME IInv, NEW m \in Member, NEW d \in msgs,
           OnTerminalFailure(m, d) \/ OnInvalidSignature(m, d), server' = server
    PROVE  /\ Moves(m, msgs \ {d}) /\ member'[m].group = member[m].group
           /\ member'[m].round = member[m].round /\ member'[m].sigs = member[m].sigs
           /\ member'[m].waiting = member[m].waiting
           /\ member'[m].completed = member[m].completed
           /\ member'[m].from_server = member[m].from_server /\ member'[m].acked = member[m].acked
           /\ d.verdict \notin {"recorded", "no active challenge"}
<1>1. member[m] \in States /\ member[m].peers \subseteq (Member \ {m}) \cup {Server}
  BY MemberFacts
<1> DEFINE s == [member[m] EXCEPT !.result = d.round, !.finished = TRUE]
           t == [member[m] EXCEPT !.submitted = 0]
           u == member'[m]
<1>2. /\ msgs' = msgs \ {d} /\ d.verdict \notin {"recorded", "no active challenge"}
      /\ member' = [member EXCEPT ![m] = s] \/ member' = [member EXCEPT ![m] = t]
  BY DEF OnTerminalFailure, OnInvalidSignature, IInv, Typed
<1>3. /\ s.group = member[m].group /\ s.round = member[m].round /\ s.sigs = member[m].sigs
      /\ s.waiting = member[m].waiting /\ s.peers = member[m].peers
      /\ s.completed = member[m].completed /\ s.from_server = member[m].from_server
      /\ s.acked = member[m].acked
      /\ t.completed = member[m].completed /\ t.from_server = member[m].from_server
      /\ t.acked = member[m].acked
      /\ t.group = member[m].group /\ t.round = member[m].round /\ t.sigs = member[m].sigs
      /\ t.waiting = member[m].waiting /\ t.peers = member[m].peers
  BY <1>1 DEF States
<1> HIDE DEF s, t
<1>4. (u = s \/ u = t) /\ \A p \in Member \ {m} : member'[p] = member[p]
  BY <1>2 DEF IInv, Typed
<1> QED BY <1>1, <1>2, <1>3, <1>4 DEF Moves

-----------------------------------------------------------------------------
\* What a datagram in flight says stays true while members learn more and the
\* server goes on.
LEMMA FoundedStays ==
    ASSUME IInv, NEW d \in msgs, Founded(d), server'.completed \in Nat,
           server.completed <= server'.completed,
           \A p \in Member : /\ member[p].peers \subseteq member'[p].peers
                             /\ member[p].group => member'[p].group
                             /\ member[p].round # 0 => member'[p].round # 0
    PROVE  Founded(d)'
<1>1. Recorded \in Nat /\ Live' = Recorded' + 1 /\ Live = Recorded + 1 /\ Recorded <= Recorded'
  BY MemberFacts DEF Live, Recorded
<1>2. d.type \in {"signature", "ack", "bundle"} => d.round <= Live'
  <2>1. d.type \in {"signature", "ack", "bundle"} => d.round \in Nat /\ d.round <= Live
    BY MessageFacts DEF Founded
  <2>2. Live' \in Nat /\ Live \in Nat /\ Live <= Live'
    BY <1>1 DEF Recorded
  <2> QED BY <2>1, <2>2
<1>3. /\ d.type \in {"register", "request", "nonce", "signature", "ack", "bundle"} => d.src \in Member
      /\ d.type \in {"registered", "challenge", "nonce", "signature", "ack", "result"}
           => d.dst \in Member
  BY MessageFacts
<1>4. \A p, q \in Member : Knows(p, q) => Knows(p, q)'
  BY DEF Knows
<1> QED BY <1>2, <1>3, <1>4 DEF Founded

\* A step of a member.
LEMMA GroundedMove ==
    ASSUME IInv, Grounded, NEW m \in Member, NEW left \in SUBSET msgs, Moves(m, left),
           member[m].round # 0 => member'[m].round # 0,
           member'[m].round \in Nat, member'[m].round <= Live,
           member'[m].round # 0 \/ member'[m].waiting # 0 => member'[m].group,
           \A g \in member'[m].sigs : /\ g.signer \in Member
                                      /\ \/ g \in member[m].sigs
                                         \/ g.signer = m /\ member'[m].round # 0
                                         \/ Knows(g.signer, m) /\ member[g.signer].round # 0
    PROVE  Grounded'
<1>1. /\ server' = server /\ \A p \in Member \ {m} : member'[p] = member[p]
      /\ \A e \in msgs' : e \in left \/ Sends(m, member'[m], e)
      /\ member[m].peers \subseteq member'[m].peers
      /\ member'[m].peers \subseteq (Member \ {m}) \cup {Server}
      /\ member[m].group => member'[m].group
  BY DEF Moves
<1>2. \A p \in Member : /\ member[p].peers \subseteq member'[p].peers
                        /\ member[p].group => member'[p].group
                        /\ member[p].round # 0 => member'[p].round # 0
  BY <1>1
<1>4. \A p, q \in Member : Knows(p, q) => Knows(p, q)'
  BY <1>2 DEF Knows
<1>5. ASSUME NEW p \in Member
      PROVE  /\ member'[p].round # 0 \/ member'[p].waiting # 0 => member'[p].group
             /\ \A g \in member'[p].sigs : Knows(g.signer, p)' /\ member'[g.signer].round # 0
  <2>1. CASE p = m
    <3>1. ASSUME NEW g \in member'[m].sigs
          PROVE  Knows(g.signer, m)' /\ member'[g.signer].round # 0
      <4>1. CASE g \in member[m].sigs
        BY <1>2, <1>4, <4>1 DEF Grounded
      <4>2. CASE g.signer = m /\ member'[m].round # 0
        BY <4>2 DEF Knows
      <4>3. CASE Knows(g.signer, m) /\ member[g.signer].round # 0
        BY <1>2, <1>4, <4>3
      <4> QED BY <4>1, <4>2, <4>3
    <3> QED BY <2>1, <3>1
  <2>2. CASE p # m
    <3>1. member'[p] = member[p]
      BY <1>1, <2>2
    <3>2. \A g \in member[p].sigs : g.signer \in Member
      BY MemberFacts
    <3> QED BY <1>2, <1>4, <3>1, <3>2 DEF Grounded
  <2> QED BY <2>1, <2>2
<1>6. Live' = Live /\ Recorded' = Recorded /\ Recorded \in Nat
  BY <1>1, MemberFacts DEF Live, Recorded
<1>7. ASSUME NEW d \in msgs' PROVE Founded(d)'
  <2> DEFINE u == member'[m]
  <2>1. CASE d \in left
    <3>1. Founded(d)
      BY <2>1 DEF Grounded
    <3>2. server'.completed \in Nat /\ server.completed <= server'.completed
      BY <1>1, <1>6 DEF Recorded
    <3> QED BY <1>2, <2>1, <3>1, <3>2, FoundedStays
  <2>2. CASE d.type = "register"
    BY <2>2 DEF Founded
  <2>3. CASE d.type = "request" /\ d.src = m /\ u.group /\ Server \in u.peers
    BY <2>3 DEF Founded
  <2>4. CASE d.type = "nonce" /\ d.src = m /\ d.dst \in u.peers \ {Server}
    <3>1. d.src # d.dst
      BY <1>1, <2>4
    <3> QED BY <2>4, <3>1 DEF Founded
  <2>5. CASE d.type = "signature" /\ d.src = m /\ d.dst \in u.peers /\ d.round = u.round /\ u.round # 0
    BY <1>6, <2>5 DEF Founded, Knows
  <2>6. CASE d.type = "ack" /\ d.round = u.round
    BY <1>6, <2>6 DEF Founded
  <2>7. CASE /\ d.type = "bundle" /\ d.src = m /\ d.round = u.round /\ m = Submitter(u.round)
             /\ u.group /\ Server \in u.peers
             /\ \A p \in Member : Own(p, u.round) \in u.sigs
    <3>1. ASSUME NEW p \in Member PROVE Knows(p, m)' /\ member'[p].round # 0
      <4>1. Own(p, u.round) \in u.sigs /\ Own(p, u.round).signer = p
        BY <2>7 DEF Own
      <4> QED BY <1>5, <4>1
    <3> QED BY <1>6, <2>7, <3>1 DEF Founded
  <2>8. d \in left \/ Sends(m, u, d)
    BY <1>1
  <2> HIDE DEF u
  <2> QED BY <2>1, <2>2, <2>3, <2>4, <2>5, <2>6, <2>7, <2>8 DEF Sends
<1>8. \A r \in 1 .. Recorded', p \in Member : Knows(p, Submitter(r))' /\ member'[p].round # 0
  <2> SUFFICES ASSUME NEW r \in 1 .. Recorded, NEW p \in Member
               PROVE  Knows(p, Submitter(r))' /\ member'[p].round # 0
    BY <1>6
  <2>1. Knows(p, Submitter(r)) /\ member[p].round # 0
    BY DEF Grounded
  <2>2. Submitter(r)' = Submitter(r)
    BY DEF Submitter
  <2> QED BY <1>2, <2>1, <2>2 DEF Knows
<1>9. \A p \in server'.used : \E r \in 1 .. Recorded' : p = Submitter(r)
  BY <1>1, <1>6 DEF Grounded
<1> QED BY <1>5, <1>7, <1>8, <1>9 DEF Grounded

\* A step of the server or the network.
LEMMA GroundedServerMove ==
    ASSUME IInv, Grounded, member' = member, NEW x, msgs' \subseteq msgs \cup {x},
           x \in msgs' => Founded(x)',
           server'.completed \in Nat, server.completed <= server'.completed,
           \A r \in 1 .. server'.completed : \/ r \in 1 .. server.completed
                                             \/ \A p \in Member : /\ Knows(p, Submitter(r))
                                                                  /\ member[p].round # 0,
           \A p \in server'.used : \/ p \in server.used
                                   \/ \E r \in 1 .. server'.completed : p = Submitter(r)
    PROVE  Grounded'
<1>2. \A p, q : Knows(p, q)' <=> Knows(p, q)
  BY DEF Knows
<1>3. ASSUME NEW d \in msgs' PROVE Founded(d)'
  <2>1. CASE d = x
    BY <2>1
  <2>2. CASE d \in msgs
    BY <2>2, FoundedStays DEF Grounded
  <2> QED BY <2>1, <2>2
<1>4. Recorded' = server'.completed /\ Recorded = server.completed /\ Recorded \in Nat
  BY MemberFacts DEF Recorded
<1>5. \A r : Submitter(r)' = Submitter(r)
  BY DEF Submitter
<1>6. \A r \in 1 .. Recorded', p \in Member : Knows(p, Submitter(r))' /\ member'[p].round # 0
  <2> SUFFICES ASSUME NEW r \in 1 .. server'.completed, NEW p \in Member
               PROVE  Knows(p, Submitter(r))' /\ member'[p].round # 0
    BY <1>4
  <2>1. Knows(p, Submitter(r)) /\ member[p].round # 0
    BY <1>4 DEF Grounded
  <2>2. Knows(p, Submitter(r))' <=> Knows(p, Submitter(r))
    BY DEF Knows, Submitter
  <2> QED BY <2>1, <2>2
<1>7. \A p \in server'.used : \E r \in 1 .. Recorded' : p = Submitter(r)
  <2> SUFFICES ASSUME NEW p \in server.used PROVE \E r \in 1 .. Recorded' : p = Submitter(r)
    BY <1>4
  <2>1. PICK r \in 1 .. Recorded : p = Submitter(r)
    BY DEF Grounded
  <2>2. r \in 1 .. Recorded'
    BY <1>4
  <2> QED BY <2>1, <2>2
<1> QED BY <1>2, <1>3, <1>6, <1>7 DEF Grounded

\* A datagram is received to no effect, or lost.
LEMMA GroundedLoss ==
    ASSUME IInv, Grounded, member' = member, server' = server, msgs' \subseteq msgs
    PROVE  Grounded'
<1>1. CASE msgs = {}
  <2>1. msgs' = msgs
    BY <1>1
  <2> QED BY <2>1 DEF Grounded, Founded, Knows, Live, Recorded, Submitter
<1>2. CASE msgs # {}
  <2>1. PICK x \in msgs : TRUE
    BY <1>2
  <2>2. /\ server'.completed \in Nat /\ server.completed <= server'.completed
    BY MemberFacts DEF Recorded
  <2>3. x \in msgs' => Founded(x)'
    BY <2>2, FoundedStays DEF Grounded
  <2> QED BY <2>1, <2>2, <2>3, GroundedServerMove
<1> QED BY <1>1, <1>2

\* It holds at first.
LEMMA InitGrounded == Init => Grounded
<1> SUFFICES ASSUME Init PROVE Grounded
  OBVIOUS
<1>1. msgs = {} /\ Recorded = 0 /\ server.used = {}
  BY DEF Init, InitServer, Recorded
<1>2. \A m \in Member : member[m].round = 0 /\ member[m].waiting = 0 /\ member[m].sigs = {}
  BY DEF Init, InitMember
<1> QED BY <1>1, <1>2 DEF Grounded

\* tick
LEMMA GroundedTick ==
    ASSUME IInv, Grounded, NEW m \in Member, NEW found \in SUBSET Undiscovered(m),
           NEW due \in SUBSET Retries, Tick(m, found, due)
    PROVE  Grounded'
<1>1. /\ Moves(m, msgs) /\ member'[m].round = member[m].round
      /\ member'[m].sigs = member[m].sigs /\ member'[m].group = member[m].group
      /\ \/ member'[m].waiting = member[m].waiting
         \/ member[m].group
  BY TickMoves
<1>2. /\ member[m].round \in Nat /\ member[m].round <= Live
      /\ \A g \in member[m].sigs : g.signer \in Member
  BY MemberFacts
<1>3. member[m].round # 0 \/ member[m].waiting # 0 => member[m].group
  BY DEF Grounded
<1> QED BY <1>1, <1>2, <1>3, GroundedMove

\* install_nonce
LEMMA GroundedInstall ==
    ASSUME IInv, Grounded, NEW m \in Member, NEW r \in Round, r <= Live, member[m].group,
           NEW from_server \in BOOLEAN, NEW due, NEW left \in SUBSET msgs,
           InstallNonce(m, r, from_server, due, left), server' = server
    PROVE  Grounded'
<1>1. CASE Current(member[m], r)
  <2>1. /\ Moves(m, left) /\ member'[m].round = r
        /\ member[m].round = r => member'[m].sigs = member[m].sigs
        /\ member[m].round # r => member'[m].sigs = {Own(m, r)}
    BY <1>1, InstallMoves
  <2>2. r \in Nat /\ r # 0 /\ member'[m].group
    BY <2>1 DEF Round, Moves
  <2>3. \A g \in member[m].sigs : g.signer \in Member
    BY MemberFacts
  <2>4. \A g \in member'[m].sigs : /\ g.signer \in Member
                                   /\ g \in member[m].sigs \/ g.signer = m
    BY <2>1, <2>3 DEF Own
  <2> QED BY <2>1, <2>2, <2>4, GroundedMove
<1>2. CASE ~ Current(member[m], r)
  BY <1>2, GroundedLoss DEF InstallNonce
<1> QED BY <1>1, <1>2

\* The handlers of a client.
LEMMA GroundedHandle ==
    ASSUME IInv, Grounded, NEW m \in Member, NEW d \in msgs, Handle(m, d)
    PROVE  Grounded'
<1>1. /\ server' = server /\ d.dst = m /\ Founded(d)
      /\ member[m].round \in Nat /\ member[m].round <= Live
      /\ \A g \in member[m].sigs : g.signer \in Member
      /\ member[m].round # 0 \/ member[m].waiting # 0 => member[m].group
  BY MemberFacts DEF Handle, Grounded
<1>2. CASE OnRegistrationResponse(m, d)
  <2>1. /\ Moves(m, msgs \ {d}) /\ member'[m].group = TRUE
        /\ member'[m].round = member[m].round /\ member'[m].sigs = member[m].sigs
    BY <1>1, <1>2, RegistrationMoves
  <2> QED BY <1>1, <2>1, GroundedMove
<1>3. ASSUME NEW due, OnChallengeResponse(m, d, due) PROVE Grounded'
  <2>1. d.type = "challenge" /\ InstallNonce(m, d.round, TRUE, due, msgs \ {d})
    BY <1>3 DEF OnChallengeResponse
  <2>2. d.round \in Round /\ d.round <= Live /\ member[m].group
    BY <1>1, <2>1, MessageFacts DEF Founded
  <2> QED BY <1>1, <2>1, <2>2, GroundedInstall
<1>4. ASSUME NEW due, OnTeamNonce(m, d, due) PROVE Grounded'
  <2>1. d.type = "nonce" /\ d.round \in Round /\ d.round <= Live
    BY <1>4, MessageFacts DEF OnTeamNonce
  <2>2. CASE member[m].group
    <3>1. InstallNonce(m, d.round, FALSE, due, msgs \ {d})
      BY <1>4, <2>2 DEF OnTeamNonce
    <3> QED BY <1>1, <2>1, <2>2, <3>1, GroundedInstall
  <2>3. CASE ~ member[m].group
    BY <1>1, <1>4, <2>3, GroundedLoss DEF OnTeamNonce
  <2> QED BY <2>2, <2>3
<1>5. ASSUME NEW due, OnTeamSignature(m, d, due) PROVE Grounded'
  <2>1. d.type = "signature" /\ d.src \in Member /\ Knows(d.src, m) /\ member[d.src].round # 0
    BY <1>1, <1>5, MessageFacts DEF OnTeamSignature, Founded
  <2>2. CASE /\ member[m].group /\ d.round = member[m].round
             /\ m = Submitter(d.round) /\ d.sig.round = d.round
    <3>1. /\ Moves(m, msgs \ {d}) /\ member'[m].round = member[m].round
          /\ member'[m].group = member[m].group
          /\ member'[m].sigs = member[m].sigs \cup {Own(d.src, member[m].round)}
      BY <1>1, <1>5, <2>1, <2>2, SignatureMoves
    <3>2. \A g \in member'[m].sigs : /\ g.signer \in Member
                                     /\ \/ g \in member[m].sigs
                                        \/ Knows(g.signer, m) /\ member[g.signer].round # 0
      BY <1>1, <2>1, <3>1 DEF Own
    <3> QED BY <1>1, <2>2, <3>1, <3>2, GroundedMove
  <2>3. CASE ~ (/\ member[m].group /\ d.round = member[m].round
                /\ m = Submitter(d.round) /\ d.sig.round = d.round)
    BY <1>1, <1>5, <2>3, GroundedLoss DEF OnTeamSignature
  <2> QED BY <2>2, <2>3
<1>6. CASE OnTeamAck(m, d)
  <2>1. /\ Moves(m, msgs \ {d}) /\ member'[m].group = member[m].group
        /\ member'[m].round = member[m].round /\ member'[m].sigs = member[m].sigs
        /\ member'[m].waiting = member[m].waiting
    BY <1>1, <1>6, AckMoves
  <2> QED BY <1>1, <2>1, GroundedMove
<1>7. CASE d.type = "result" /\ OnSuccess(m, d)
  <2>1. /\ Moves(m, msgs \ {d}) /\ member'[m].group = member[m].group
        /\ member'[m].round = member[m].round /\ member'[m].sigs = member[m].sigs
    BY <1>1, <1>7, SuccessMoves
  <2>2. member[m].group
    BY <1>1, <1>7 DEF Founded
  <2> QED BY <1>1, <2>1, <2>2, GroundedMove
<1>8. CASE OnTerminalFailure(m, d) \/ OnInvalidSignature(m, d)
  <2>1. /\ Moves(m, msgs \ {d}) /\ member'[m].group = member[m].group
        /\ member'[m].round = member[m].round /\ member'[m].sigs = member[m].sigs
        /\ member'[m].waiting = member[m].waiting
    BY <1>1, <1>8, RejectionMoves
  <2> QED BY <1>1, <2>1, GroundedMove
<1>9. CASE d.type = "result" /\ OnNoActiveChallenge(m, d)
  <2>1. member[m].group
    BY <1>1, <1>9 DEF Founded
  <2>2. CASE d.round < RoundCount
    <3>1. /\ Moves(m, msgs \ {d}) /\ member'[m].group = member[m].group
          /\ member'[m].round = member[m].round /\ member'[m].sigs = member[m].sigs
      BY <1>1, <1>9, <2>1, <2>2, NoActiveChallengeMoves
    <3> QED BY <1>1, <2>1, <3>1, GroundedMove
  <2>3. CASE ~ (d.round < RoundCount)
    BY <1>1, <1>9, <2>3, GroundedLoss DEF OnNoActiveChallenge
  <2> QED BY <2>2, <2>3
<1> QED BY <1>2, <1>3, <1>4, <1>5, <1>6, <1>7, <1>8, <1>9 DEF Handle, OnRoundResult

\* What the server answers.
LEMMA GroundedServe ==
    ASSUME IInv, Grounded, NEW d \in msgs, ServeRegister(d) \/ ServeRequest(d) \/ ServeBundle(d),
           member' = member
    PROVE  Grounded'
<1>1. /\ Founded(d) /\ Recorded \in Nat /\ server.completed = Recorded
      /\ d.type \in {"register", "request", "bundle"} => d.src \in Member
      /\ d.type = "bundle" => d.round \in Nat
  BY MemberFacts, MessageFacts DEF Grounded, Recorded
<1>2. CASE ServeRegister(d)
  <2> DEFINE x == [type |-> "registered", src |-> Server, dst |-> d.src]
  <2>1. x.type = "registered" /\ msgs' = (msgs \ {d}) \cup {x} /\ server' = server
    BY <1>2 DEF ServeRegister, Reply
  <2> HIDE DEF x
  <2>2. Founded(x)'
    BY <2>1 DEF Founded
  <2> QED BY <1>1, <2>1, <2>2, GroundedServerMove
<1>3. CASE ServeRequest(d)
  <2>1. d.type = "request" /\ member[d.src].group /\ Server \in member[d.src].peers
    BY <1>1, <1>3 DEF ServeRequest, Founded
  <2>2. CASE server.completed = RoundCount
    <3> DEFINE x == Result(d.src, RoundCount, RoundCount, "already completed")
    <3>1. /\ x.type = "result" /\ x.dst = d.src /\ server' = server
          /\ msgs' = (msgs \ {d}) \cup {x}
      BY <1>3, <2>2 DEF ServeRequest, Result, Reply
    <3> HIDE DEF x
    <3>2. Founded(x)'
      BY <2>1, <3>1 DEF Founded
    <3> QED BY <1>1, <3>1, <3>2, GroundedServerMove
  <2>3. CASE server.completed # RoundCount
    <3>0. PICK x : x = Challenge(d.src, server.completed + 1)
      OBVIOUS
    <3>1. /\ x.type = "challenge" /\ x.dst = d.src
          /\ server' = [server EXCEPT !.active = TRUE] /\ msgs' = (msgs \ {d}) \cup {x}
      BY <1>3, <2>3, <3>0 DEF ServeRequest, Challenge, Reply
    <3>2. server'.completed = server.completed /\ server'.used = server.used
      BY <3>1 DEF IInv, Typed
    <3>3. Founded(x)'
      BY <2>1, <3>1 DEF Founded
    <3> QED BY <1>1, <3>1, <3>2, <3>3, GroundedServerMove
  <2> QED BY <2>2, <2>3
<1>4. CASE ServeBundle(d)
  <2>1. /\ d.type = "bundle" /\ d.src = Submitter(d.round)
        /\ member[d.src].group /\ Server \in member[d.src].peers
        /\ \A p \in Member : Knows(p, Submitter(d.round)) /\ member[p].round # 0
    BY <1>1, <1>4 DEF ServeBundle, Founded
  <2>2. CASE Objections(d) = {}
    <3> DEFINE x == Result(d.src, d.round, d.round, "recorded")
    <3>1. /\ x.type = "result" /\ x.dst = d.src /\ msgs' = (msgs \ {d}) \cup {x}
          /\ server' = [completed |-> d.round, active |-> FALSE, used |-> server.used \cup {d.src}]
      BY <1>4, <2>2 DEF ServeBundle, Result, Reply
    <3>2. d.round = Recorded + 1
      <4>1. /\ "no active challenge" \notin Objections(d)
            /\ "wrong round number" \notin Objections(d)
        BY <2>2
      <4> QED BY <4>1 DEF Objections, Recorded
    <3> HIDE DEF x
    <3>3. Founded(x)'
      BY <2>1, <3>1 DEF Founded
    <3>4. \A r \in 1 .. server'.completed : r \in 1 .. server.completed \/ r = d.round
      BY <1>1, <3>1, <3>2
    <3>5. d.round \in 1 .. server'.completed
      BY <1>1, <3>1, <3>2
    <3>6. \A p \in server'.used : \/ p \in server.used
                                  \/ \E r \in 1 .. server'.completed : p = Submitter(r)
      BY <2>1, <3>1, <3>5
    <3>7. server'.completed \in Nat /\ server.completed <= server'.completed
      BY <1>1, <3>1, <3>2
    <3>8. \A r \in 1 .. server'.completed : \/ r \in 1 .. server.completed
                                            \/ \A p \in Member : /\ Knows(p, Submitter(r))
                                                                 /\ member[p].round # 0
      BY <2>1, <3>4
    <3>9. msgs' \subseteq msgs \cup {x}
      BY <3>1
    <3> QED BY <3>3, <3>6, <3>7, <3>8, <3>9, GroundedServerMove
  <2>3. CASE Objections(d) # {}
    <3>1. PICK v \in Objections(d) : msgs' = Reply(d, Result(d.src, d.round, server.completed, v))
      BY <1>4, <2>3 DEF ServeBundle
    <3>0. PICK x : x = Result(d.src, d.round, server.completed, v)
      OBVIOUS
    <3>2. /\ x.type = "result" /\ x.dst = d.src /\ server' = server /\ msgs' = (msgs \ {d}) \cup {x}
      BY <1>4, <2>3, <3>0, <3>1 DEF ServeBundle, Result, Reply
    <3>3. Founded(x)'
      BY <2>1, <3>2 DEF Founded
    <3> QED BY <1>1, <3>2, <3>3, GroundedServerMove
  <2> QED BY <2>2, <2>3
<1> QED BY <1>2, <1>3, <1>4

\* The invariant is inductive together with the first one.
LEMMA StepGrounded == IInv /\ Grounded /\ [Next]_vars => Grounded'
<1> SUFFICES ASSUME IInv, Grounded, [Next]_vars PROVE Grounded'
  OBVIOUS
<1>1. ASSUME NEW m \in Member, NEW found \in SUBSET Undiscovered(m), NEW due \in SUBSET Retries,
             Tick(m, found, due)
      PROVE  Grounded'
  BY <1>1, GroundedTick
<1>2. ASSUME NEW d \in msgs, Deliver(d) PROVE Grounded'
  BY <1>2, GroundedHandle, GroundedServe DEF Deliver
<1>3. ASSUME NEW d \in msgs, Lose(d), member' = member PROVE Grounded'
  <2>1. server' = server /\ msgs' \subseteq msgs
    BY <1>3 DEF Lose
  <2> QED BY <1>3, <2>1, GroundedLoss
<1>4. CASE UNCHANGED vars
  BY <1>4, GroundedLoss DEF vars
<1> QED BY <1>1, <1>2, <1>3, <1>4 DEF Next, Drop

-----------------------------------------------------------------------------
\* Who speaks to the server has found it and is in a group, who has a signature knows its
\* signer, and the rounds recorded were of different submitters, each known to all
\* (tick, on_registration_response, on_team_signature).
THEOREM GroupGrounded == Spec => []Grounded
<1>1. Init => Grounded
  BY InitGrounded
<1>2. IInv /\ Grounded /\ [Next]_vars => Grounded'
  BY StepGrounded
<1> QED BY <1>1, <1>2, GroupInvariance, PTL DEF Spec
=============================================================================
