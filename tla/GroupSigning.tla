---------------------------- MODULE GroupSigning ----------------------------
(***************************************************************************)
(* The Lab 2 client (class Lab2Community): the members of a group go       *)
(* through RoundCount rounds; in each, the nonce the server hands out is   *)
(* relayed to all, everybody signs it, and one member submits the bundle.  *)
(*                                                                         *)
(* Every member runs a periodic tick and one handler per message; each is  *)
(* an action, as the event loop runs them one at a time.  A timer that may *)
(* or may not have elapsed is a choice of the tick: due is the set of      *)
(* retries whose interval is over.  The checks of sender keys, group ids   *)
(* and nonce lengths are left out with the payloads that would fail them,  *)
(* and so is the 10-second budget: the question is whether the group gets  *)
(* there.                                                                  *)
(*                                                                         *)
(* A tick may come at any time, with any datagrams in flight.  For TLC,    *)
(* bounds.disorder is how often a tick may come before what was sent is    *)
(* answered or lost, or find only some of its intervals over, and how      *)
(* often a datagram may overtake one of an earlier round; bounds.missing   *)
(* is how many peers a member may have yet to find when it ticks, and      *)
(* bounds.losses how many datagrams may still be lost, each of which       *)
(* counts as a fault (module SigningServer).                               *)
(***************************************************************************)
EXTENDS SigningServer

CONSTANTS Registrar,    \* the member started with --register
          Bounds        \* how many peers are missing at a tick, how many ticks and
                        \* datagrams are out of turn, how many datagrams are lost

ASSUME GroupAssumption ==
    /\ Registrar \in Member
    /\ Bounds \subseteq [missing : Nat, disorder : Nat, losses : Nat]

VARIABLES member,       \* member[m]: the state of the client of m
          putback,      \* history: the members that went back to an earlier round
          bounds        \* what is left of the bounds

vars == <<member, server, msgs, faults, putback, bounds>>

\* Member 1 submits round 1, and so on in turn.
Submitter(r) == (r - 1) % GroupSize

Retries == {"register", "request", "relay", "signature", "bundle"}

-----------------------------------------------------------------------------
(***************************************************************************)
(* The state of a client: its round_state is round (0 for no nonce), sigs, *)
(* from_server, acked, outgoing, submitted and result; peers are those it  *)
(* has discovered, and waiting is 0 for None.                              *)
(***************************************************************************)

NewRound(s, r, from_server) ==
    [s EXCEPT !.round = r, !.from_server = from_server, !.sigs = {}, !.acked = FALSE,
              !.outgoing = FALSE, !.submitted = 0, !.result = 0]

InitMember(m) ==
    [group |-> m # Registrar, registered |-> FALSE, peers |-> {}, waiting |-> 0,
     completed |-> 0, finished |-> FALSE,
     round |-> 0, from_server |-> FALSE, sigs |-> {}, acked |-> FALSE,
     outgoing |-> FALSE, submitted |-> 0, result |-> 0]

Init ==
    /\ member = [m \in Member |-> InitMember(m)]
    /\ putback = {}
    /\ bounds \in Bounds
    /\ InitServer

\* The round is one the member has not seen the end of.
Open(s) == s.round > s.completed /\ s.result # s.round

-----------------------------------------------------------------------------
(***************************************************************************)
(* What a client sends.  Each is a set: empty when the code returns early. *)
(***************************************************************************)

Register(m, s) ==
    IF m = Registrar /\ ~ s.registered /\ Server \in s.peers
    THEN {[type |-> "register", src |-> m, dst |-> Server]} ELSE {}

SendRequest(m, s) ==
    IF s.group /\ Server \in s.peers
    THEN {[type |-> "request", src |-> m, dst |-> Server]} ELSE {}

RetryRequest(m, s) ==
    IF s.waiting # 0 /\ s.round # s.waiting THEN SendRequest(m, s) ELSE {}

Broadcast(m, s) ==
    IF s.group
    THEN {[type |-> "nonce", src |-> m, dst |-> p, round |-> s.round] : p \in s.peers \ {Server}}
    ELSE {}

\* Mutated: the nonce is relayed when it arrives and never again.
RetryRelay_never(m, s) == {}

RetryRelay(m, s) == IF s.from_server /\ Open(s) THEN Broadcast(m, s) ELSE {}

RetrySignature(m, s) ==
    IF s.outgoing /\ Open(s) /\ ~ s.acked /\ Submitter(s.round) \in s.peers
    THEN {[type |-> "signature", src |-> m, dst |-> Submitter(s.round), round |-> s.round,
           sig |-> CHOOSE g \in s.sigs : g.signer = m]}
    ELSE {}

\* Mutated: one signature short of the group.
CanSubmit_oneShort(m, s) ==
    /\ Open(s) /\ m = Submitter(s.round)
    /\ Cardinality(s.sigs) >= GroupSize - 1
    /\ s.group /\ Server \in s.peers

CanSubmit(m, s) ==
    /\ Open(s) /\ m = Submitter(s.round)
    /\ {g.signer : g \in s.sigs} = Member
    /\ s.group /\ Server \in s.peers

\* retry_bundle; a bundle sent before is sent again when its interval is over.
Submits(m, s, due) == CanSubmit(m, s) /\ (s.submitted = s.round => due)

Bundle(m, s, due) ==
    IF Submits(m, s, due)
    THEN {[type |-> "bundle", src |-> m, dst |-> Server, round |-> s.round, sigs |-> s.sigs]}
    ELSE {}

MarkSubmitted(m, s, due) == [s EXCEPT !.submitted = IF Submits(m, s, due) THEN s.round ELSE @]

-----------------------------------------------------------------------------
(***************************************************************************)
(* install_nonce                                                           *)
(***************************************************************************)

\* Mutated: the signatures of the last round stay.
EnterRound_keepsSigs(s, r, from_server) ==
    IF s.round # r
    THEN [NewRound(s, r, from_server) EXCEPT !.sigs = s.sigs]
    ELSE [s EXCEPT !.from_server = @ \/ from_server]

\* Mutated: a nonce that is installed already starts the round afresh.
EnterRound_always(s, r, from_server) == NewRound(s, r, from_server \/ s.from_server)

EnterRound(s, r, from_server) ==
    IF s.round # r
    THEN NewRound(s, r, from_server)
    ELSE [s EXCEPT !.from_server = @ \/ from_server]

\* The state after the member has entered round r, signed its nonce and, unless
\* it is the submitter, prepared its signature for sending.
Installed(m, s, r, from_server) ==
    LET e == EnterRound(s, r, from_server)
    IN  [e EXCEPT !.waiting = IF @ = r THEN 0 ELSE @,
                  !.sigs = IF m \in {g.signer : g \in @} THEN @
                           ELSE @ \cup {[signer |-> m, round |-> r]},
                  !.outgoing = @ \/ m # Submitter(r)]

Current(s, r) == r \in 1 .. RoundCount /\ r > s.completed

InstallNonce(m, r, from_server, due, left) ==
    LET t == Installed(m, member[m], r, from_server)
    IN  IF Current(member[m], r)
        THEN /\ member' = [member EXCEPT ![m] = MarkSubmitted(m, t, due)]
             /\ msgs' = left \cup (IF from_server THEN Broadcast(m, t) ELSE {})
                             \cup RetrySignature(m, t) \cup Bundle(m, t, due)
        ELSE UNCHANGED member /\ msgs' = left

-----------------------------------------------------------------------------
(***************************************************************************)
(* The tick and the handlers of a client.  m is the member, d the datagram *)
(* it receives; the datagram is gone afterwards.                           *)
(***************************************************************************)

\* Counts what is out of turn, up to the bound.
Counts(outOfTurn) ==
    /\ outOfTurn => bounds.disorder > 0
    /\ bounds' = IF outOfTurn THEN [bounds EXCEPT !.disorder = @ - 1] ELSE bounds

\* Round one is requested by member 1, once it has found everybody.
StartsRoundOne(m, s) ==
    /\ s.group /\ s.completed = 0 /\ s.round = 0 /\ s.waiting = 0
    /\ m = 0 /\ s.peers = (Member \ {0}) \cup {Server}

Tick(m, found, due) ==
    LET s == [member[m] EXCEPT !.peers = @ \cup found]
        t == IF StartsRoundOne(m, s) THEN [s EXCEPT !.waiting = 1] ELSE s
        sent == [register  |-> Register(m, s),
                 request   |-> RetryRequest(m, t),
                 relay     |-> RetryRelay(m, t),
                 signature |-> RetrySignature(m, t),
                 bundle    |-> Bundle(m, t, TRUE)]
    IN  /\ ~ s.finished
        /\ Cardinality(s.peers) >= GroupSize - bounds.missing
        /\ \A k \in Retries \ due : sent[k] # {}
        /\ Counts(msgs # {} \/ due # Retries)
        /\ member' = [member EXCEPT ![m] =
                        IF "bundle" \in due THEN MarkSubmitted(m, t, TRUE) ELSE t]
        /\ msgs' = msgs \cup (UNION {sent[k] : k \in due})
                        \cup (IF t # s THEN SendRequest(m, t) ELSE {})
        /\ UNCHANGED <<server, faults, putback>>

\* A refusal, after which the code stops asking without a group, is left out: the
\* server refuses only keys that are not distinct and known to it, or a sender that is
\* not among them (assignment_2_description.md:58-62).
OnRegistrationResponse(m, d) ==
    /\ d.type = "registered"
    /\ member' = [member EXCEPT ![m].registered = TRUE, ![m].group = TRUE]
    /\ msgs' = msgs \ {d}

OnChallengeResponse(m, d, due) ==
    /\ d.type = "challenge"
    /\ InstallNonce(m, d.round, TRUE, due, msgs \ {d})

OnTeamNonce(m, d, due) ==
    /\ d.type = "nonce"
    /\ IF member[m].group
       THEN InstallNonce(m, d.round, FALSE, due, msgs \ {d})
       ELSE UNCHANGED member /\ msgs' = msgs \ {d}

OnTeamSignature(m, d, due) ==
    LET s == [member[m] EXCEPT !.sigs = @ \cup {d.sig}]
    IN  /\ d.type = "signature"
        /\ IF /\ member[m].group /\ d.round = member[m].round
              /\ m = Submitter(d.round) /\ d.sig.round = d.round
           THEN /\ member' = [member EXCEPT ![m] = MarkSubmitted(m, s, due)]
                /\ msgs' = (msgs \ {d}) \cup Bundle(m, s, due)
                     \cup {[type |-> "ack", src |-> m, dst |-> d.src, round |-> d.round]}
           ELSE UNCHANGED member /\ msgs' = msgs \ {d}

OnTeamAck(m, d) ==
    /\ d.type = "ack"
    /\ member' = [member EXCEPT ![m].acked =
                    @ \/ (member[m].group /\ d.round = member[m].round
                            /\ d.src = Submitter(d.round))]
    /\ msgs' = msgs \ {d}

\* Mutated: the next nonce is requested once and not waited for.
OnSuccess_notWaiting(m, d) ==
    LET s == [member[m] EXCEPT !.result = d.round,
                               !.completed = IF d.completed > @ THEN d.completed ELSE @]
        over == d.completed >= RoundCount
        next == ~ over /\ m = Submitter(d.round)
    IN  /\ d.verdict = "recorded"
        /\ member' = [member EXCEPT ![m] =
                        [s EXCEPT !.finished = @ \/ over]]
        /\ msgs' = (msgs \ {d}) \cup (IF next THEN SendRequest(m, s) ELSE {})

\* A success: the submitter asks for the next nonce.
OnSuccess(m, d) ==
    LET s == [member[m] EXCEPT !.result = d.round,
                               !.completed = IF d.completed > @ THEN d.completed ELSE @]
        over == d.completed >= RoundCount
        next == ~ over /\ m = Submitter(d.round)
    IN  /\ d.verdict = "recorded"
        /\ member' = [member EXCEPT ![m] =
                        [s EXCEPT !.finished = @ \/ over,
                                  !.waiting = IF next THEN d.round + 1 ELSE @]]
        /\ msgs' = (msgs \ {d}) \cup (IF next THEN SendRequest(m, s) ELSE {})

OnTerminalFailure(m, d) ==
    /\ d.verdict \in {"budget exceeded", "already completed", "wrong round number",
                      "submitter already used"}
    /\ member' = [member EXCEPT ![m].result = d.round, ![m].finished = TRUE]
    /\ msgs' = msgs \ {d}

OnInvalidSignature(m, d) ==
    /\ d.verdict = "invalid signature"
    /\ member' = [member EXCEPT ![m].submitted = 0]
    /\ msgs' = msgs \ {d}

\* The success may have been lost: ask for the next nonce, unless it was the last.
OnNoActiveChallenge(m, d) ==
    /\ d.verdict = "no active challenge"
    /\ IF d.round < RoundCount
       THEN /\ member' = [member EXCEPT ![m].waiting = d.round + 1]
            /\ msgs' = (msgs \ {d}) \cup SendRequest(m, member[m])
       ELSE UNCHANGED member /\ msgs' = msgs \ {d}

OnRoundResult(m, d) ==
    /\ d.type = "result"
    /\ \/ OnSuccess(m, d)
       \/ OnTerminalFailure(m, d)
       \/ OnInvalidSignature(m, d)
       \/ OnNoActiveChallenge(m, d)

Handle(m, d) ==
    /\ d.dst = m
    /\ \/ OnRegistrationResponse(m, d)
       \/ \E due \in BOOLEAN : OnChallengeResponse(m, d, due)
       \/ \E due \in BOOLEAN : OnTeamNonce(m, d, due)
       \/ \E due \in BOOLEAN : OnTeamSignature(m, d, due)
       \/ OnTeamAck(m, d)
       \/ OnRoundResult(m, d)
    /\ putback' = IF member'[m].round < member[m].round THEN putback \cup {m} ELSE putback
    /\ UNCHANGED server

-----------------------------------------------------------------------------
(***************************************************************************)
(* The server and the network.                                             *)
(***************************************************************************)

ServeRegister(d) ==
    /\ d.type = "register"
    /\ msgs' = Reply(d, [type |-> "registered", src |-> Server, dst |-> d.src])
    /\ UNCHANGED server

\* A datagram of an earlier round is on its way to where d goes.
Overtakes(d) == \E e \in msgs : /\ e.dst = d.dst
                                 /\ {"round"} \subseteq DOMAIN d \cap DOMAIN e
                                 /\ e.round < d.round

Deliver(d) ==
    /\ d \in msgs
    /\ \/ \E m \in Member : Handle(m, d)
       \/ (ServeRegister(d) \/ ServeRequest(d) \/ ServeBundle(d)) /\ UNCHANGED <<member, putback>>
    /\ UNCHANGED faults
    /\ Counts(Overtakes(d))

Drop(d) ==
    /\ Lose(d)
    /\ bounds.losses > 0
    /\ bounds' = [bounds EXCEPT !.losses = @ - 1]
    /\ UNCHANGED <<member, putback>>

Undiscovered(m) == ((Member \ {m}) \cup {Server}) \ member[m].peers

Next ==
    \/ \E m \in Member : \E found \in SUBSET Undiscovered(m), due \in SUBSET Retries :
         Tick(m, found, due)
    \/ \E d \in msgs : Deliver(d)
    \/ \E d \in msgs : Drop(d)

Spec == Init /\ [][Next]_vars

\* The tick runs for ever, finds every peer sooner or later, and every timer
\* elapses; what is in flight is delivered or lost.
Fairness ==
    /\ \A m \in Member : SF_vars(Tick(m, Undiscovered(m), Retries))
    /\ WF_vars(\E d \in msgs : Deliver(d))

FairSpec == Spec /\ Fairness

-----------------------------------------------------------------------------
(***************************************************************************)
(* Properties.                                                             *)
(***************************************************************************)

\* Type invariant: among the rest, no member is ahead of the server, and all the
\* signatures a member holds are for the round it is in.
GroupTypeOK ==
    /\ server.completed \in 0 .. RoundCount /\ server.used \subseteq Member
    /\ \A m \in Member :
        /\ member[m].completed <= server.completed
        /\ member[m].round \in 0 .. server.completed + 1
        /\ member[m].waiting \in 0 .. RoundCount
        /\ member[m].peers \subseteq (Member \ {m}) \cup {Server}
        /\ member[m].sigs \subseteq [signer : Member, round : {member[m].round}]

\* Nothing a client repeats stops it: a client that has finished has seen all rounds
\* recorded.  The comment of retry_bundle relies on it for the bundle that is sent
\* again.
StopsOnlyWhenOver ==
    \A m \in Member : member[m].finished => server.completed = RoundCount

\* No retry has done harm: it made nobody go back to an earlier round, whose nonce a
\* member behind the others relays, and stopped nobody.
Undisturbed == putback = {} /\ StopsOnlyWhenOver

\* A live challenge is always pursued, also when one datagram is lost: a member asks
\* for it again (waiting_challenge_round) or has it from the server and relays it
\* again (nonce_source_is_server); or else the challenge is on its way, or the
\* success after which the submitter asks for it.
ChallengePursued ==
    server.active /\ faults <= 1 /\ Undisturbed =>
        \/ \E m \in Member :
            \/ member[m].waiting = server.completed + 1
            \/ member[m].round = server.completed + 1 /\ member[m].from_server
        \/ \E d \in msgs :
            \/ d.type = "challenge" /\ d.round = server.completed + 1
            \/ d.type = "result" /\ d.verdict = "recorded" /\ d.round = server.completed

\* A signature its signer no longer sends, because the submitter acknowledged it, is
\* with the submitter until the round is recorded, whatever is lost, late or sent
\* twice, unless the submitter went back to an earlier round (install_nonce replaces
\* the round state, signatures included).
AckedIsHeld ==
    \A m \in Member :
        LET s == member[m]
            p == Submitter(s.round)
        IN  s.acked /\ s.round > server.completed /\ p \notin putback =>
                \E g \in member[p].sigs : g.signer = m /\ g.round = s.round

GroupCompletes == <>(server.completed = RoundCount)

\* The group gets through all its rounds unless a client gives up: whatever is not
\* answered is sent again by a later tick.
RetriesSuffice == []StopsOnlyWhenOver => GroupCompletes

\* It does whenever no retry does harm, whatever is lost, late or sent twice, and in
\* whatever order the members find each other.
CompletesUndisturbed == []Undisturbed => GroupCompletes
=============================================================================
