---------------------------- MODULE ReadySigning ----------------------------
(***************************************************************************)
(* The other Lab 2 client (class GroupSigningCommunity).  Its members wait *)
(* for each other before round one, by telling each other Ready until they *)
(* have heard it from all; after that every message is sent exactly once.  *)
(* A Ready may in effect be sent once as well: its sender stops when it    *)
(* has heard the others, whether they have heard it or not.  A datagram    *)
(* that is lost is therefore always a fault.                               *)
(*                                                                         *)
(* It is no fault that datagrams are late as long as they arrive in causal *)
(* order.  One pair is an exception: who asked for a nonce sends its share *)
(* of the signature first and relays the nonce after it, both to the same  *)
(* member.  order says which of the two is there first.                    *)
(***************************************************************************)
EXTENDS SigningServer

CONSTANT MaxMissing     \* bound: how many peers a member misses after a tick

\* Each round has a submitter, and no member is alone.
ASSUME ReadyAssumption == MaxMissing \in Nat /\ GroupSize > 1 /\ RoundCount <= GroupSize

VARIABLES member,    \* member[m]: the state of the client of m
          order      \* "sent": datagrams keep their order; "swapped": the nonce comes first

vars == <<member, server, msgs, faults, order>>

Submitter(r) == r - 1

Others(m) == Member \ {m}

-----------------------------------------------------------------------------
(***************************************************************************)
(* The state of a client.  round is 0 for no nonce, submitted and sent are *)
(* rounds, sigs are the signatures collected for the round.                *)
(***************************************************************************)

NewMember ==
    [peers |-> {}, ready |-> {}, round |-> 0, sigs |-> {}, completed |-> 0,
     submitted |-> 0, sent |-> 0, requested |-> FALSE]

Init ==
    /\ member = [m \in Member |-> NewMember]
    /\ order \in {"sent", "swapped"}
    /\ InitServer

\* Mutated: the server need not be there.
FoundAll_noServer(m, s) == Others(m) \subseteq s.peers

\* Mutated: anybody will do.
FoundAll_some(m, s) == Server \in s.peers /\ s.peers # {Server}

FoundAll(m, s) == s.peers = Others(m) \cup {Server}

StartsRoundOne(m, s, t) ==
    /\ m = 0 /\ t.ready = Member
    /\ t.round = 0 /\ ~ t.requested /\ FoundAll(m, t)

-----------------------------------------------------------------------------
(***************************************************************************)
(* The tick and the handlers.  Member m finds peers at a tick; d is the    *)
(* datagram it receives, and is gone afterwards.                           *)
(***************************************************************************)

Undiscovered(m) == (Others(m) \cup {Server}) \ member[m].peers

Request(m) == [type |-> "request", src |-> m, dst |-> Server]

Ready(m) == {[type |-> "ready", src |-> m, dst |-> p] : p \in Others(m)}

Tick(m, found) ==
    LET s == [member[m] EXCEPT !.peers = @ \cup found]
        t == IF FoundAll(m, s) THEN [s EXCEPT !.ready = @ \cup {m}] ELSE s
        starts == StartsRoundOne(m, s, t)
    IN  /\ Cardinality(Undiscovered(m) \ found) <= MaxMissing
        /\ member' = [member EXCEPT ![m] = [t EXCEPT !.requested = @ \/ starts]]
        /\ msgs' = msgs \cup (IF FoundAll(m, s) /\ s.ready # Member THEN Ready(m) ELSE {})
                        \cup (IF starts THEN {Request(m)} ELSE {})
        /\ UNCHANGED <<server, faults, order>>

OnReady(m, d) ==
    /\ d.type = "ready"
    /\ member' = [member EXCEPT ![m].ready = @ \cup {d.src}]
    /\ msgs' = msgs \ {d}

\* Mutated: the signatures of the last round stay.
EnterRound_keepsSigs(s, r) ==
    IF s.round # r THEN [s EXCEPT !.round = r, !.submitted = 0, !.sent = 0] ELSE s

EnterRound(s, r) ==
    IF s.round # r THEN [s EXCEPT !.round = r, !.sigs = {}, !.submitted = 0, !.sent = 0] ELSE s

\* handle_nonce: the state after it, and the share it sends.
Signed(m, s, r) ==
    LET e == EnterRound(s, r)
    IN  IF m = Submitter(r)
        THEN [e EXCEPT !.sigs = @ \cup {[signer |-> m, round |-> r]}]
        ELSE IF Submitter(r) \in s.peers THEN [e EXCEPT !.sent = r] ELSE e

Share(m, s, r) ==
    IF m # Submitter(r) /\ EnterRound(s, r).sent # r /\ Submitter(r) \in s.peers
    THEN {[type |-> "share", src |-> m, dst |-> Submitter(r), round |-> r,
           sig |-> [signer |-> m, round |-> r]]}
    ELSE {}

HandleNonce(m, r, left) ==
    IF r <= member[m].completed
    THEN UNCHANGED member /\ msgs' = left
    ELSE /\ member' = [member EXCEPT ![m] = Signed(m, @, r)]
         /\ msgs' = left \cup Share(m, member[m], r)

OnNonce(m, d) == d.type = "nonce" /\ HandleNonce(m, d.round, msgs \ {d})

Relay(m, r) ==
    {[type |-> "nonce", src |-> m, dst |-> p, round |-> r] : p \in member[m].peers \ {Server}}

OnChallengeResponse(m, d) ==
    /\ d.type = "challenge"
    /\ HandleNonce(m, d.round, (msgs \ {d}) \cup Relay(m, d.round))

\* Mutated: one signature short of the group.
CanSubmit_oneShort(s) ==
    /\ Server \in s.peers /\ s.submitted # s.round
    /\ Cardinality(s.sigs) >= GroupSize - 1

CanSubmit(s) ==
    /\ Server \in s.peers /\ s.submitted # s.round
    /\ {g.signer : g \in s.sigs} = Member

OnSignatureShare(m, d) ==
    LET s == [member[m] EXCEPT !.sigs = @ \cup {d.sig}]
    IN  /\ d.type = "share"
        /\ IF d.round = member[m].round /\ m = Submitter(d.round)
           THEN /\ member' = [member EXCEPT ![m] =
                                IF CanSubmit(s) THEN [s EXCEPT !.submitted = s.round] ELSE s]
                /\ msgs' = (msgs \ {d}) \cup
                     (IF CanSubmit(s)
                      THEN {[type |-> "bundle", src |-> m, dst |-> Server,
                             round |-> s.round, sigs |-> s.sigs]}
                      ELSE {})
           ELSE UNCHANGED member /\ msgs' = msgs \ {d}

\* Mutated: the submitter of the next round is expected to ask for it.
NextRequest_ofNext(m, d) ==
    IF d.verdict = "recorded" /\ d.completed < RoundCount /\ m = Submitter(d.round + 1)
    THEN {Request(m)} ELSE {}

\* Whoever submitted the last round requests the next nonce.
NextRequest(m, d) ==
    IF d.verdict = "recorded" /\ d.completed < RoundCount /\ m = Submitter(d.round)
    THEN {Request(m)} ELSE {}

OnRoundResult(m, d) ==
    /\ d.type = "result"
    /\ member' = [member EXCEPT ![m].completed =
                    IF d.verdict = "recorded" /\ d.completed > @ THEN d.completed ELSE @]
    /\ msgs' = (msgs \ {d}) \cup NextRequest(m, d)

Handle(m, d) ==
    /\ d.dst = m
    /\ \/ OnReady(m, d)
       \/ OnNonce(m, d)
       \/ OnChallengeResponse(m, d)
       \/ OnSignatureShare(m, d)
       \/ OnRoundResult(m, d)
    /\ UNCHANGED server

-----------------------------------------------------------------------------
(***************************************************************************)
(* The network.                                                            *)
(***************************************************************************)

\* Mutated: the nonce is relayed first, and the share sent after it.
SharedFirst_not(e, d) == FALSE

\* on_challenge_response sent e, the share, before it sent d, the nonce.
SharedFirst(e, d) == e.type = "share" /\ d.type = "nonce" /\ e.src = d.src

\* For e and d of one round: e is to be there before d.
Precedes(e, d) ==
    \/ e.type = "nonce" /\ d.type = "share" /\ ~ (SharedFirst(d, e) /\ order = "sent")
    \/ SharedFirst(e, d) /\ order = "sent"

Overtakes(d) ==
    \E e \in msgs :
        /\ e.dst = d.dst
        /\ {"round"} \subseteq DOMAIN d \cap DOMAIN e
        /\ \/ e.round < d.round
           \/ e.round = d.round /\ Precedes(e, d)

Deliver(d) ==
    /\ faults' = IF Overtakes(d) THEN faults + 1 ELSE faults
    /\ faults' <= MaxFaults
    /\ \/ \E m \in Member : Handle(m, d)
       \/ (ServeRequest(d) \/ ServeBundle(d)) /\ UNCHANGED member
    /\ UNCHANGED order

Next ==
    \/ \E m \in Member : \E found \in SUBSET Undiscovered(m) : Tick(m, found)
    \/ \E d \in msgs : Deliver(d)
    \/ \E d \in msgs : Lose(d) /\ UNCHANGED <<member, order>>

Spec == Init /\ [][Next]_vars

\* The tick runs for ever and finds every peer; what is in flight is delivered or
\* lost, and repeated Readys keep neither each other nor the rest from delivery.
Fairness ==
    /\ \A m \in Member : SF_vars(Tick(m, Undiscovered(m)))
    /\ WF_vars(\E d \in msgs : d.type = "ready" /\ d.src \notin member[d.dst].ready /\ Deliver(d))
    /\ WF_vars(\E d \in msgs : d.type # "ready" /\ Deliver(d))

FairSpec == Spec /\ Fairness

-----------------------------------------------------------------------------
(***************************************************************************)
(* Properties.                                                             *)
(***************************************************************************)

\* Type invariant: among the rest, no member is ahead of the server, and all the
\* signatures a member holds are for the round it is in.
ReadyTypeOK ==
    /\ server.completed \in 0 .. RoundCount /\ server.used \subseteq Member
    /\ \A m \in Member :
        /\ member[m].completed <= server.completed
        /\ member[m].round \in 0 .. server.completed + 1
        /\ {member[m].submitted, member[m].sent} \subseteq {0, member[m].round}
        /\ member[m].peers \subseteq Others(m) \cup {Server}
        /\ member[m].ready \subseteq Member
        /\ member[m].sigs \subseteq [signer : Member, round : {member[m].round}]

\* Round one is asked for only when every member has found all the others and the
\* server (tick): from there on the handlers send to peers found or not at all.
StartsTogether ==
    member[0].requested => \A m \in Member : member[m].peers = Others(m) \cup {Server}

\* Signatures are complete only on the arrival of the last share, so that the bundle
\* goes out there and then: no member is left holding all of them unsubmitted, which
\* nothing would ever make it submit (submit_if_ready is called on a share only).
NothingLeftToSubmit ==
    \A m \in Member :
        LET s == member[m] IN {g.signer : g \in s.sigs} = Member => s.submitted = s.round

\* If each nonce is there before the shares of its round, and nothing is lost that
\* is not repeated, the group gets through all its rounds.
CompletesWhenSwapped ==
    (order = "swapped" /\ [](faults = 0)) => <>(server.completed = RoundCount)

\* On a network that keeps the order of datagrams it never gets through round two:
\* the requester's share is there before the nonce, and on_signature_share drops it.
StallsInSendOrder == (order = "sent" /\ faults = 0) => server.completed <= 1
=============================================================================
