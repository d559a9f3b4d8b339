------------------------- MODULE GroupPursuitProofs -------------------------
(***************************************************************************)
(* Proofs that the clients of module GroupSigning pursue a live challenge  *)
(* as long as no retry has done harm, and that what was acknowledged is    *)
(* held by all submitters that have not gone back, for every size of the   *)
(* group and every number of rounds, with ticks at any time.               *)
(*                                                                         *)
(* The argument is about one round: the member that submitted the round    *)
(* before learns of it and asks for the nonce, whoever gets the nonce from *)
(* the server relays it, and nobody leaves the live round but by going     *)
(* back.  Each of the places where the pursuit may be is left only for     *)
(* another of them, and a single loss empties only one.                    *)
(***************************************************************************)
EXTENDS GroupSigningProofs

\* The last nonce the server has handed out.
Issued == IF server.active THEN Live ELSE Recorded

\* The member that requests the nonce of the live round: the submitter of the last one.
Asker == IF Recorded = 0 THEN 0 ELSE Submitter(Recorded)

\* Where the pursuit of the live round may be: the asker waits for the nonce, the
\* challenge is on its way, a member has it from the server, or the success that makes
\* the asker wait is on its way.
Asks == member[Asker].waiting = Live
Handed == \E d \in msgs : d.type = "challenge" /\ d.round = Live
Holder == \E m \in Member : member[m].round = Live /\ member[m].from_server
Told == \E d \in msgs : d.type = "result" /\ d.verdict = "recorded" /\ d.round = Recorded

\* Somebody has heard of the nonce of the live round.
Seen ==
    \/ \E m \in Member : member[m].round = Live
    \/ \E d \in msgs : d.type = "nonce" /\ d.round = Live

\* What holds whatever is lost or late, and whoever goes back.
NoneAhead ==
    /\ Issued <= RoundCount
    /\ \A m \in Member : member[m].round <= Issued
    /\ \A d \in msgs : d.type \in {"challenge", "nonce", "bundle"} => d.round <= Issued
Verdicts ==
    \A d \in msgs : d.type = "result" /\ d.verdict \in {"recorded", "no active challenge"} =>
        d.round <= Recorded /\ d.dst = Submitter(d.round)
OneTurn ==
    \A r, q \in 1 .. Recorded : /\ Submitter(r) \in server.used
                                /\ Submitter(r) = Submitter(q) => r = q
Heard == faults = 0 /\ Recorded > 0 => Told \/ member[Asker].completed = Recorded
AcksHeld ==
    \A d \in msgs : d.type = "ack" =>
        /\ d.src = Submitter(d.round)
        /\ d.round > Recorded /\ d.src \notin putback => Own(d.dst, d.round) \in member[d.src].sigs

Order == faults \in Nat /\ NoneAhead /\ Verdicts /\ OneTurn /\ Heard /\ AcksHeld /\ AckedIsHeld

\* What holds as long as nobody has gone back.
SeenIsHeld == Seen => Holder
FirstIsAsked ==
    Recorded = 0 /\ (server.active \/ (\E d \in msgs : d.type = "request")
                       \/ \E m \in Member : member[m].waiting # 0) => Asks \/ Holder
NextIsAsked ==
    Recorded \in 1 .. RoundCount - 1 /\ member[Asker].completed = Recorded =>
        Asks \/ member[Asker].round = Live
LiveIsHeld == server.active /\ faults = 0 => Handed \/ Holder
LiveIsPursued == server.active /\ faults <= 1 => Handed \/ Holder \/ Asks \/ Told

Pursuit == SeenIsHeld /\ FirstIsAsked /\ NextIsAsked /\ LiveIsHeld /\ LiveIsPursued

\* The third invariant.
PInv == Order /\ (putback = {} => Pursuit)

-----------------------------------------------------------------------------
\* The invariant holds at first.
LEMMA InitPursuit == Init => PInv
<1> SUFFICES ASSUME Init PROVE PInv
  OBVIOUS
<1>1. /\ msgs = {} /\ Recorded = 0 /\ Live = 1 /\ faults = 0 /\ server.active = FALSE
      /\ Issued = 0
  BY DEF Init, InitServer, Recorded, Live, Issued
<1>2. \A m \in Member : /\ member[m].round = 0 /\ member[m].waiting = 0
                        /\ member[m].acked = FALSE
  BY DEF Init, InitMember
<1>3. 0 <= RoundCount
  BY ServerAssumption
<1>4. Order
  BY <1>1, <1>2, <1>3 DEF Order, NoneAhead, Verdicts, OneTurn, Heard, AcksHeld, AckedIsHeld
<1>5. Pursuit
  BY <1>1, <1>2 DEF Pursuit, SeenIsHeld, Seen, FirstIsAsked, NextIsAsked, LiveIsHeld, LiveIsPursued
<1> QED BY <1>4, <1>5 DEF PInv

-----------------------------------------------------------------------------
(***************************************************************************)
(* The steps of a client.                                                  *)
(***************************************************************************)

\* Member m learns that a round is over from d, and waits for the next nonce.
Learns(m, d) ==
    /\ member'[m].completed >= d.completed
    /\ d.completed < RoundCount /\ m = Submitter(d.round) => member'[m].waiting = d.round + 1

\* Member m has the challenge d.
Takes(m, d) == member'[m].round = d.round /\ member'[m].from_server

\* A step of member m that makes it go back is recorded as such.
GoesBack(m) ==
    putback' = IF member'[m].round < member[m].round THEN putback \cup {m} ELSE putback

\* A member that stays in its round keeps what it has; one that enters another has had
\* its nonce from somebody.
Stays(m) ==
    member'[m].round = member[m].round =>
        /\ member[m].sigs \subseteq member'[m].sigs
        /\ member[m].from_server => member'[m].from_server
        /\ member'[m].acked => \/ member[m].acked
                               \/ \E d \in msgs : /\ d.type = "ack" /\ d.dst = m
                                                  /\ d.round = member[m].round
Enters(m) ==
    member'[m].round # member[m].round =>
        /\ ~ member'[m].acked
        /\ \E d \in msgs : /\ d.type \in {"challenge", "nonce"} /\ d.round = member'[m].round
                           /\ d.type = "challenge" => member'[m].from_server

\* What makes a member wait for another nonce, and what it learns of the rounds recorded.
Awaits(m) ==
    \/ member'[m].waiting = member[m].waiting
    \/ member'[m].waiting = 0 /\ member'[m].round = member[m].waiting
    \/ m = 0 /\ member[m].round = 0 /\ member[m].waiting = 0 /\ member'[m].waiting = 1
    \/ \E d \in msgs : /\ d.type = "result" /\ d.verdict \in {"recorded", "no active challenge"}
                       /\ d.dst = m /\ member'[m].waiting = d.round + 1
Hears(m) ==
    /\ member'[m].completed >= member[m].completed
    /\ \/ member'[m].completed = member[m].completed
       \/ \E d \in msgs : /\ d.type = "result" /\ d.verdict = "recorded" /\ d.dst = m
                          /\ member'[m].completed = d.completed /\ Learns(m, d)

\* The datagram d is received by m.
Receives(m, d) ==
    /\ d.dst = m
    /\ d.type = "challenge" => d.round <= member[m].completed \/ Takes(m, d)
    /\ d.type = "result" /\ d.verdict = "recorded" => Learns(m, d)

\* A step of member m, which receives the datagrams that are not in left.
Steps(m, left) ==
    /\ Moves(m, left) /\ faults' = faults
    /\ GoesBack(m) /\ Stays(m) /\ Enters(m) /\ Awaits(m) /\ Hears(m)
    /\ \A d \in msgs : d \in left \/ Receives(m, d)

\* A step in which m keeps its round and all that goes with it.
LEMMA SameRound ==
    ASSUME NEW m \in Member, member'[m].round = member[m].round, member[m].round \in Nat,
           member[m].sigs \subseteq member'[m].sigs,
           member'[m].from_server = member[m].from_server,
           \/ member'[m].acked = member[m].acked
           \/ \E d \in msgs : d.type = "ack" /\ d.dst = m /\ d.round = member[m].round
    PROVE  /\ Stays(m) /\ Enters(m)
           /\ putback' = putback => GoesBack(m)
           /\ GoesBack(m) => putback' = putback
<1>1. ~ (member'[m].round < member[m].round)
  OBVIOUS
<1>2. Stays(m)
  BY Zenon DEF Stays
<1> QED BY <1>1, <1>2 DEF Enters, GoesBack

\* A step in which m learns nothing of the rounds recorded.
LEMMA NothingHeard ==
    ASSUME NEW m \in Member, member[m].completed \in Nat,
           member'[m].completed = member[m].completed
    PROVE  Hears(m)
<1>1. member'[m].completed >= member[m].completed
  OBVIOUS
<1> QED BY <1>1 DEF Hears

\* A step in which m waits for nothing new.
LEMMA NothingAwaited ==
    ASSUME NEW m \in Member, member'[m].waiting = member[m].waiting
    PROVE  Awaits(m)
BY DEF Awaits

\* tick
LEMMA TickSteps ==
    ASSUME IInv, NEW m \in Member, NEW found \in SUBSET Undiscovered(m),
           NEW due \in SUBSET Retries, Tick(m, found, due)
    PROVE  Steps(m, msgs)
<1>1. /\ Moves(m, msgs) /\ faults' = faults /\ putback' = putback
      /\ member'[m].round = member[m].round /\ member'[m].completed = member[m].completed
      /\ member'[m].from_server = member[m].from_server /\ member'[m].sigs = member[m].sigs
      /\ member'[m].acked = member[m].acked
      /\ \/ member'[m].waiting = member[m].waiting
         \/ m = 0 /\ member[m].round = 0 /\ member[m].waiting = 0 /\ member'[m].waiting = 1
  BY TickMoves
<1>2. member[m].round \in Nat /\ member[m].completed \in Nat
  BY MemberFacts
<1>3. Stays(m) /\ Enters(m) /\ GoesBack(m)
  BY <1>1, <1>2, SameRound
<1>4. Hears(m)
  BY <1>1, <1>2, NothingHeard
<1>5. Awaits(m)
  BY <1>1, NothingAwaited DEF Awaits
<1> QED BY <1>1, <1>3, <1>4, <1>5 DEF Steps

\* A datagram is received and changes nothing.
LEMMA IdleSteps ==
    ASSUME IInv, NEW m \in Member, NEW d \in msgs, d.dst = m, member' = member,
           msgs' = msgs \ {d}, server' = server, faults' = faults, putback' = putback,
           d.type = "challenge" => d.round <= member[m].completed,
           ~ (d.type = "result" /\ d.verdict = "recorded")
    PROVE  Steps(m, msgs \ {d})
<1>1. /\ member[m].round \in Nat /\ member[m].completed \in Nat
      /\ member[m].peers \subseteq (Member \ {m}) \cup {Server}
  BY MemberFacts
<1>2. Moves(m, msgs \ {d})
  BY <1>1 DEF Moves
<1>3. Stays(m) /\ Enters(m) /\ GoesBack(m)
  BY <1>1, SameRound
<1>4. Hears(m) /\ Awaits(m)
  BY <1>1, NothingHeard, NothingAwaited
<1>5. Receives(m, d)
  BY DEF Receives
<1> QED BY <1>2, <1>3, <1>4, <1>5 DEF Steps

\* install_nonce, on the arrival of d.
LEMMA InstallSteps ==
    ASSUME IInv, NEW m \in Member, NEW d \in msgs, d.dst = m, d.type \in {"challenge", "nonce"},
           NEW from_server \in BOOLEAN, from_server <=> d.type = "challenge", NEW due,
           InstallNonce(m, d.round, from_server, due, msgs \ {d}),
           server' = server, faults' = faults, GoesBack(m)
    PROVE  Steps(m, msgs \ {d})
<1>1. /\ d.round \in Round /\ member[m].round \in Nat /\ member[m].completed \in Nat
      /\ d.round \in Nat
  BY MemberFacts, MessageFacts
<1>2. CASE Current(member[m], d.round)
  <2>1. /\ Moves(m, msgs \ {d}) /\ member'[m].round = d.round
        /\ member'[m].waiting = IF member[m].waiting = d.round THEN 0 ELSE member[m].waiting
        /\ member'[m].completed = member[m].completed
        /\ member[m].round = d.round => member'[m].sigs = member[m].sigs
    BY <1>1, <1>2, InstallMoves
  <2>2. /\ member'[m].acked => member[m].acked /\ member[m].round = d.round
        /\ from_server => member'[m].from_server
        /\ member[m].from_server /\ member[m].round = d.round => member'[m].from_server
    BY <1>1, <1>2, InstallFlags
  <2>3. Stays(m)
    BY <2>1, <2>2 DEF Stays
  <2>4. Enters(m)
    BY <2>1, <2>2 DEF Enters
  <2>5. Hears(m)
    BY <1>1, <2>1, NothingHeard
  <2>6. Awaits(m)
    BY <2>1 DEF Awaits
  <2>7. Receives(m, d)
    BY <2>1, <2>2 DEF Receives, Takes
  <2> QED BY <2>1, <2>3, <2>4, <2>5, <2>6, <2>7 DEF Steps
<1>3. CASE ~ Current(member[m], d.round)
  <2>0. member' = member /\ msgs' = msgs \ {d}
    BY <1>3 DEF InstallNonce
  <2>1. member' = member /\ msgs' = msgs \ {d} /\ putback' = putback
    BY <1>1, <2>0 DEF GoesBack
  <2>2. d.round <= member[m].completed
    BY <1>1, <1>3 DEF Current, Round
  <2> QED BY <2>1, <2>2, IdleSteps
<1> QED BY <1>2, <1>3

\* on_round_result
LEMMA ResultSteps ==
    ASSUME IInv, Grounded, NEW m \in Member, NEW d \in msgs, d.dst = m, OnRoundResult(m, d),
           server' = server, faults' = faults, GoesBack(m)
    PROVE  Steps(m, msgs \ {d})
<1>1. /\ d.type = "result" /\ d.round \in Nat /\ d.completed \in Nat /\ member[m].group
      /\ d.verdict = "recorded" => d.round = d.completed
      /\ member[m].round \in Nat /\ member[m].completed \in Nat
  BY MemberFacts, MessageFacts DEF OnRoundResult, Grounded, Founded
<1>2. CASE OnSuccess(m, d)
  <2>1. /\ Moves(m, msgs \ {d}) /\ d.verdict = "recorded"
        /\ member'[m].round = member[m].round /\ member'[m].sigs = member[m].sigs
        /\ member'[m].from_server = member[m].from_server /\ member'[m].acked = member[m].acked
        /\ member'[m].completed =
             IF d.completed > member[m].completed THEN d.completed ELSE member[m].completed
        /\ member'[m].waiting = IF d.completed < RoundCount /\ m = Submitter(d.round)
                                THEN d.round + 1 ELSE member[m].waiting
    BY <1>1, <1>2, SuccessMoves
  <2>2. Learns(m, d)
    BY <1>1, <2>1 DEF Learns
  <2>3. Stays(m) /\ Enters(m)
    BY <1>1, <2>1, SameRound
  <2>4. Hears(m)
    BY <1>1, <2>1, <2>2 DEF Hears
  <2>5. Awaits(m)
    BY <1>1, <2>1 DEF Awaits
  <2>6. Receives(m, d)
    BY <1>1, <2>2 DEF Receives
  <2> QED BY <2>1, <2>3, <2>4, <2>5, <2>6 DEF Steps
<1>3. CASE OnNoActiveChallenge(m, d) /\ d.round < RoundCount
  <2>1. /\ Moves(m, msgs \ {d}) /\ d.verdict = "no active challenge"
        /\ member'[m].round = member[m].round /\ member'[m].sigs = member[m].sigs
        /\ member'[m].from_server = member[m].from_server /\ member'[m].acked = member[m].acked
        /\ member'[m].completed = member[m].completed
        /\ member'[m].waiting = d.round + 1
    BY <1>1, <1>3, NoActiveChallengeMoves
  <2>2. Stays(m) /\ Enters(m)
    BY <1>1, <2>1, SameRound
  <2>3. Hears(m)
    BY <1>1, <2>1, NothingHeard
  <2>4. Awaits(m)
    BY <1>1, <2>1 DEF Awaits
  <2>5. Receives(m, d)
    BY <1>1, <2>1 DEF Receives
  <2> QED BY <2>1, <2>2, <2>3, <2>4, <2>5 DEF Steps
<1>4. CASE OnNoActiveChallenge(m, d) /\ ~ (d.round < RoundCount)
  <2>0. /\ member' = member /\ msgs' = msgs \ {d}
        /\ d.verdict = "no active challenge"
    BY <1>4 DEF OnNoActiveChallenge
  <2>1. putback' = putback
    BY <1>1, <2>0, SameRound
  <2> QED BY <1>1, <2>0, <2>1, IdleSteps
<1>5. CASE OnTerminalFailure(m, d) \/ OnInvalidSignature(m, d)
  <2>1. /\ Moves(m, msgs \ {d}) /\ d.verdict \notin {"recorded", "no active challenge"}
        /\ member'[m].round = member[m].round /\ member'[m].sigs = member[m].sigs
        /\ member'[m].from_server = member[m].from_server /\ member'[m].acked = member[m].acked
        /\ member'[m].completed = member[m].completed
        /\ member'[m].waiting = member[m].waiting
    BY <1>1, <1>5, RejectionMoves
  <2>2. Stays(m) /\ Enters(m)
    BY <1>1, <2>1, SameRound
  <2>3. Hears(m) /\ Awaits(m)
    BY <1>1, <2>1, NothingHeard, NothingAwaited
  <2>4. Receives(m, d)
    BY <1>1, <2>1 DEF Receives
  <2> QED BY <2>1, <2>2, <2>3, <2>4 DEF Steps
<1> QED BY <1>2, <1>3, <1>4, <1>5 DEF OnRoundResult

\* A datagram is received by a client.
LEMMA HandleSteps ==
    ASSUME IInv, Grounded, NEW m \in Member, NEW d \in msgs, Handle(m, d), faults' = faults
    PROVE  Steps(m, msgs \ {d})
<1>1. d.dst = m /\ server' = server /\ GoesBack(m)
  BY DEF Handle, GoesBack
<1>2. /\ member[m].round \in Nat /\ member[m].completed \in Nat
      /\ d.type = "signature" => d.src \in Member
  BY MemberFacts, MessageFacts
<1>3. CASE OnRegistrationResponse(m, d)
  <2>1. /\ Moves(m, msgs \ {d}) /\ d.type = "registered"
        /\ member'[m].round = member[m].round /\ member'[m].sigs = member[m].sigs
        /\ member'[m].from_server = member[m].from_server /\ member'[m].acked = member[m].acked
        /\ member'[m].completed = member[m].completed
        /\ member'[m].waiting = member[m].waiting
    BY <1>1, <1>3, RegistrationMoves
  <2>2. Stays(m) /\ Enters(m)
    BY <1>2, <2>1, SameRound
  <2>3. Hears(m) /\ Awaits(m)
    BY <1>2, <2>1, NothingHeard, NothingAwaited
  <2>4. Receives(m, d)
    BY <1>1, <2>1 DEF Receives
  <2> QED BY <1>1, <2>1, <2>2, <2>3, <2>4 DEF Steps
<1>4. ASSUME NEW due, OnChallengeResponse(m, d, due) PROVE Steps(m, msgs \ {d})
  <2>1. d.type = "challenge" /\ InstallNonce(m, d.round, TRUE, due, msgs \ {d})
    BY <1>4 DEF OnChallengeResponse
  <2> QED BY <1>1, <2>1, InstallSteps
<1>5. ASSUME NEW due, OnTeamNonce(m, d, due) PROVE Steps(m, msgs \ {d})
  <2>1. d.type = "nonce"
    BY <1>5 DEF OnTeamNonce
  <2>2. CASE member[m].group
    <3>1. InstallNonce(m, d.round, FALSE, due, msgs \ {d})
      BY <1>5, <2>2 DEF OnTeamNonce
    <3> QED BY <1>1, <2>1, <3>1, InstallSteps
  <2>3. CASE ~ member[m].group
    <3>1. member' = member /\ msgs' = msgs \ {d}
      BY <1>5, <2>3 DEF OnTeamNonce
    <3>2. putback' = putback
      BY <1>1, <1>2, <3>1, SameRound
    <3> QED BY <1>1, <2>1, <3>1, <3>2, IdleSteps
  <2> QED BY <2>2, <2>3
<1>6. ASSUME NEW due, OnTeamSignature(m, d, due) PROVE Steps(m, msgs \ {d})
  <2>1. d.type = "signature"
    BY <1>6 DEF OnTeamSignature
  <2>2. CASE /\ member[m].group /\ d.round = member[m].round
             /\ m = Submitter(d.round) /\ d.sig.round = d.round
    <3>1. /\ Moves(m, msgs \ {d}) /\ member'[m].round = member[m].round
          /\ member'[m].completed = member[m].completed /\ member'[m].waiting = member[m].waiting
          /\ member'[m].from_server = member[m].from_server /\ member'[m].acked = member[m].acked
          /\ member'[m].sigs = member[m].sigs \cup {Own(d.src, member[m].round)}
      BY <1>1, <1>6, <2>1, <2>2, SignatureMoves
    <3>2. Stays(m) /\ Enters(m)
      <4>1. member[m].sigs \subseteq member'[m].sigs
        BY <3>1
      <4> QED BY <1>2, <3>1, <4>1, SameRound
    <3>3. Hears(m) /\ Awaits(m)
      BY <1>2, <3>1, NothingHeard, NothingAwaited
    <3>4. Receives(m, d)
      BY <1>1, <2>1 DEF Receives
    <3> QED BY <1>1, <3>1, <3>2, <3>3, <3>4 DEF Steps
  <2>3. CASE ~ (/\ member[m].group /\ d.round = member[m].round
                /\ m = Submitter(d.round) /\ d.sig.round = d.round)
    <3>1. member' = member /\ msgs' = msgs \ {d}
      BY <1>6, <2>3 DEF OnTeamSignature
    <3>2. putback' = putback
      BY <1>1, <1>2, <3>1, SameRound
    <3> QED BY <1>1, <2>1, <3>1, <3>2, IdleSteps
  <2> QED BY <2>2, <2>3
<1>7. CASE OnTeamAck(m, d)
  <2>1. /\ Moves(m, msgs \ {d}) /\ d.type = "ack"
        /\ member'[m].round = member[m].round /\ member'[m].sigs = member[m].sigs
        /\ member'[m].from_server = member[m].from_server
        /\ member'[m].completed = member[m].completed
        /\ member'[m].waiting = member[m].waiting
        /\ member'[m].acked => member[m].acked \/ d.round = member[m].round
    BY <1>1, <1>7, AckMoves
  <2>2. Stays(m)
    BY <1>1, <2>1 DEF Stays
  <2>3. Enters(m)
    BY <2>1 DEF Enters
  <2>4. Hears(m) /\ Awaits(m)
    BY <1>2, <2>1, NothingHeard, NothingAwaited
  <2>5. Receives(m, d)
    BY <1>1, <2>1 DEF Receives
  <2> QED BY <1>1, <2>1, <2>2, <2>3, <2>4, <2>5 DEF Steps
<1>8. CASE OnRoundResult(m, d)
  BY <1>1, <1>8, ResultSteps
<1> QED BY <1>3, <1>4, <1>5, <1>6, <1>7, <1>8 DEF Handle

-----------------------------------------------------------------------------
(***************************************************************************)
(* What the server answers with x when it is served d.                     *)
(***************************************************************************)

Refuses(d, x) ==
    /\ server' = server
    /\ \/ x.type = "registered"
       \/ x.type = "result" /\ x.verdict \notin {"recorded", "no active challenge"}
NotLive(d, x) ==
    /\ server' = server /\ ~ server.active /\ d.type = "bundle"
    /\ x.type = "result" /\ x.verdict = "no active challenge"
    /\ x.round = d.round /\ x.dst = d.src
Hands(d, x) ==
    /\ Recorded' = Recorded /\ server'.used = server.used /\ server'.active
    /\ d.type = "request" /\ Recorded < RoundCount
    /\ x.type = "challenge" /\ x.round = Live
Records(d, x) ==
    /\ server.active /\ Recorded' = Live /\ server'.active = FALSE
    /\ server'.used = server.used \cup {d.src}
    /\ d.type = "bundle" /\ d.round = Live /\ d.src \notin server.used
    /\ x.type = "result" /\ x.verdict = "recorded" /\ x.round = Live /\ x.dst = d.src

\* A step in which the server gets d and answers x.
Serves(d, x) ==
    /\ member' = member /\ faults' = faults /\ putback' = putback
    /\ msgs' = (msgs \ {d}) \cup {x}
    /\ d.type \in {"register", "request", "bundle"}
    /\ Refuses(d, x) \/ NotLive(d, x) \/ Hands(d, x) \/ Records(d, x)

\* What the server does is one of these.
LEMMA ServerServes ==
    ASSUME IInv, NEW d \in msgs, ServeRegister(d) \/ ServeRequest(d) \/ ServeBundle(d),
           member' = member, faults' = faults, putback' = putback
    PROVE  \E x : Serves(d, x)
<1>1. /\ Recorded \in 0 .. RoundCount /\ server.completed = Recorded
      /\ server = [completed |-> Recorded, active |-> server.active, used |-> server.used]
      /\ server.active \in BOOLEAN
  BY DEF IInv, Typed, Recorded
<1>2. CASE ServeRegister(d)
  <2>0. PICK x : x = [type |-> "registered", src |-> Server, dst |-> d.src]
    OBVIOUS
  <2>1. /\ d.type = "register" /\ server' = server
        /\ x.type = "registered" /\ msgs' = (msgs \ {d}) \cup {x}
    BY <1>2, <2>0 DEF ServeRegister, Reply
  <2>2. Serves(d, x)
    BY <2>1 DEF Serves, Refuses
  <2> QED BY <2>2
<1>3. CASE ServeRequest(d)
  <2>1. CASE Recorded = RoundCount
    <3>0. PICK x : x = Result(d.src, RoundCount, RoundCount, "already completed")
      OBVIOUS
    <3>1. /\ d.type = "request" /\ server' = server /\ msgs' = (msgs \ {d}) \cup {x}
      BY <1>1, <1>3, <2>1, <3>0 DEF ServeRequest, Reply
    <3>2. x.type = "result" /\ x.verdict = "already completed"
      BY <3>0 DEF Result
    <3>3. Serves(d, x)
      BY <3>1, <3>2 DEF Serves, Refuses
    <3> QED BY <3>3
  <2>2. CASE Recorded # RoundCount
    <3>0. PICK x : x = Challenge(d.src, Recorded + 1)
      OBVIOUS
    <3>1. /\ d.type = "request" /\ msgs' = (msgs \ {d}) \cup {x}
          /\ server' = [server EXCEPT !.active = TRUE]
      BY <1>1, <1>3, <2>2, <3>0 DEF ServeRequest, Reply
    <3>2. x.type = "challenge" /\ x.round = Live
      BY <3>0 DEF Challenge, Live
    <3>3. Recorded' = Recorded /\ server'.used = server.used /\ server'.active
      BY <1>1, <3>1 DEF Recorded
    <3>4. Recorded < RoundCount
      BY <1>1, <2>2, ServerAssumption
    <3>5. Serves(d, x)
      BY <3>1, <3>2, <3>3, <3>4 DEF Serves, Hands
    <3> QED BY <3>5
  <2> QED BY <2>1, <2>2
<1>4. CASE ServeBundle(d)
  <2>1. CASE Objections(d) = {}
    <3>0. PICK x : x = Result(d.src, d.round, d.round, "recorded")
      OBVIOUS
    <3>1. /\ d.type = "bundle" /\ msgs' = (msgs \ {d}) \cup {x}
          /\ server' = [completed |-> d.round, active |-> FALSE, used |-> server.used \cup {d.src}]
      BY <1>4, <2>1, <3>0 DEF ServeBundle, Reply
    <3>2. server.active /\ d.round = Live /\ d.src \notin server.used
      <4>1. /\ "no active challenge" \notin Objections(d)
            /\ "wrong round number" \notin Objections(d)
            /\ "submitter already used" \notin Objections(d)
        BY <2>1
      <4>2. server.active
        BY <4>1 DEF Objections
      <4>3. d.round = server.completed + 1
        BY <4>1, <4>2 DEF Objections
      <4>4. d.src \notin server.used
        BY <4>1, <4>2 DEF Objections
      <4> QED BY <1>1, <4>2, <4>3, <4>4 DEF Live
    <3>3. x.type = "result" /\ x.verdict = "recorded" /\ x.round = d.round /\ x.dst = d.src
      BY <3>0 DEF Result
    <3>4. Recorded' = Live /\ server'.active = FALSE /\ server'.used = server.used \cup {d.src}
      BY <3>1, <3>2 DEF Recorded
    <3>5. Serves(d, x)
      BY <3>1, <3>2, <3>3, <3>4 DEF Serves, Records
    <3> QED BY <3>5
  <2>2. CASE Objections(d) # {}
    <3>1. PICK v \in Objections(d) :
            d.type = "bundle" /\ server' = server
              /\ msgs' = Reply(d, Result(d.src, d.round, server.completed, v))
      BY <1>4, <2>2 DEF ServeBundle
    <3>0. PICK x : x = Result(d.src, d.round, server.completed, v)
      OBVIOUS
    <3>2. /\ x.type = "result" /\ x.verdict = v /\ x.round = d.round /\ x.dst = d.src
          /\ msgs' = (msgs \ {d}) \cup {x}
      BY <3>0, <3>1 DEF Result, Reply
    <3>3. v # "recorded" /\ (v = "no active challenge" => ~ server.active)
      <4>1. v # "recorded"
        BY DEF Objections
      <4>2. ASSUME v = "no active challenge" PROVE ~ server.active
        <5>1. "no active challenge" \in Objections(d)
          BY <4>2
        <5> QED BY <5>1 DEF Objections
      <4> QED BY <4>1, <4>2
    <3>4. Serves(d, x)
      <4>1. CASE v = "no active challenge"
        BY <3>1, <3>2, <3>3, <4>1 DEF Serves, NotLive
      <4>2. CASE v # "no active challenge"
        BY <3>1, <3>2, <3>3, <4>2 DEF Serves, Refuses
      <4> QED BY <4>1, <4>2
    <3> QED BY <3>4
  <2> QED BY <2>1, <2>2
<1> QED BY <1>2, <1>3, <1>4

-----------------------------------------------------------------------------
(***************************************************************************)
(* What holds in any order, step by step.                                  *)
(***************************************************************************)

\* The terms the invariant is made of.
LEMMA OrderFacts ==
    ASSUME IInv, Order
    PROVE  /\ faults \in Nat /\ Recorded \in Nat /\ Live \in Nat /\ Live = Recorded + 1
           /\ Issued \in {Recorded, Live} /\ Issued <= RoundCount
           /\ server.active => Issued = Live /\ Recorded < RoundCount
           /\ ~ server.active => Issued = Recorded
           /\ Recorded > 0 => Asker = Submitter(Recorded)
           /\ Recorded = 0 => Asker = 0
           /\ Asker \in Member /\ RoundCount \in Nat
           /\ \A m \in Member : /\ member[m].round \in Nat /\ member[m].completed \in Nat
                               /\ member[m].round <= Live /\ member[m].completed <= Recorded
<1>1. /\ Recorded \in Nat /\ RoundCount \in Nat /\ Recorded <= RoundCount
      /\ \A m \in Member : /\ member[m].round \in Nat /\ member[m].completed \in Nat
                          /\ member[m].round <= Live /\ member[m].completed <= Recorded
  BY MemberFacts
<1>2. Live = Recorded + 1 /\ Live \in Nat
  BY <1>1 DEF Live
<1>3. /\ server.active => Issued = Live
      /\ ~ server.active => Issued = Recorded
      /\ Issued \in {Recorded, Live}
  BY DEF Issued
<1>4. Issued <= RoundCount /\ faults \in Nat
  BY DEF Order, NoneAhead
<1>5. server.active => Recorded < RoundCount
  BY <1>1, <1>2, <1>3, <1>4
<1>6. Recorded = 0 => Asker = 0 /\ 0 \in Member
  BY ServerAssumption DEF Asker, Member
<1>7. Recorded > 0 => Asker = Submitter(Recorded) /\ Submitter(Recorded) \in Member
  <2>1. Recorded > 0 => Recorded \in Round /\ Recorded # 0
    BY <1>1 DEF Round
  <2> QED BY <2>1, SubmitterIsMember DEF Asker
<1>8. Recorded > 0 \/ Recorded = 0
  BY <1>1
<1> QED BY <1>1, <1>2, <1>3, <1>4, <1>5, <1>6, <1>7, <1>8

\* After the step as well, nobody is ahead of the server.
LEMMA NextRounds ==
    ASSUME IInv', NEW m \in Member
    PROVE  /\ member'[m].round \in Nat /\ member'[m].round <= Live'
           /\ member'[m].completed \in Nat /\ member'[m].completed <= Recorded'
<1>1. member'[m] \in States /\ Local(m, member'[m], server'.completed)
  BY DEF IInv, Typed
<1>2. member'[m].round \in Nat /\ member'[m].completed \in Nat
  BY <1>1 DEF States
<1> QED BY <1>1, <1>2 DEF Local, Live, Recorded

\* A signature for a round that is not recorded stays where it is, unless the one that
\* holds it goes back.
LEMMA HeldKept ==
    ASSUME IInv, IInv', NEW m \in Member, NEW left, Steps(m, left), NEW p \in Member, NEW q, NEW r,
           r > Recorded, p \notin putback', Own(q, r) \in member[p].sigs
    PROVE  Own(q, r) \in member'[p].sigs
<1>1. server' = server /\ (p # m => member'[p] = member[p]) /\ GoesBack(m) /\ Stays(m)
  BY DEF Steps, Moves
<1>2. CASE p = m
  <2>1. member[p].round = r /\ r \in Nat /\ Recorded \in Nat /\ r <= Live /\ Live = Recorded + 1
    BY MemberFacts DEF Own, Live
  <2>2. Recorded' = Recorded /\ Live' = Live
    BY <1>1 DEF Recorded, Live
  <2>3. member'[p].round \in Nat /\ member'[p].round <= Live'
    BY NextRounds
  <2>4. ~ (member'[p].round < member[p].round)
    BY <1>1, <1>2 DEF GoesBack
  <2>5. member'[p].round = member[p].round
    BY <2>1, <2>2, <2>3, <2>4
  <2> QED BY <1>1, <1>2, <2>5 DEF Stays
<1> QED BY <1>1, <1>2

\* A step of a client.
LEMMA StepsOrder ==
    ASSUME IInv, IInv', Grounded, Order, NEW m \in Member, NEW left \in SUBSET msgs, Steps(m, left)
    PROVE  Order'
<1>1. /\ server' = server /\ (\A p \in Member \ {m} : member'[p] = member[p]) /\ GoesBack(m)
      /\ Stays(m) /\ Enters(m) /\ Hears(m) /\ left \subseteq msgs' /\ faults' = faults
      /\ (\A e \in msgs' : e \in left \/ Sends(m, member'[m], e))
      /\ (\A d \in msgs : d \in left \/ Receives(m, d))
  BY DEF Steps, Moves
<1>2. /\ Recorded' = Recorded /\ Live' = Live /\ Issued' = Issued /\ Asker' = Asker
  BY <1>1 DEF Recorded, Live, Issued, Asker
<1>3. NoneAhead'
  <2>1. ASSUME NEW p \in Member PROVE member'[p].round <= Issued
    <3>1. CASE p # m
      BY <1>1, <3>1 DEF Order, NoneAhead
    <3>2. CASE p = m
      BY <1>1, <3>2 DEF Enters, Order, NoneAhead
    <3> QED BY <3>1, <3>2
  <2>2. ASSUME NEW e \in msgs', e.type \in {"challenge", "nonce", "bundle"}
        PROVE  e.round <= Issued
    <3>1. CASE e \in left
      BY <2>2, <3>1 DEF Order, NoneAhead
    <3>2. CASE Sends(m, member'[m], e)
      BY <2>1, <2>2, <3>2 DEF Sends
    <3> QED BY <1>1, <3>1, <3>2
  <2>3. Issued <= RoundCount
    BY DEF Order, NoneAhead
  <2> QED BY <1>2, <2>1, <2>2, <2>3 DEF NoneAhead
<1>4. Verdicts'
  <2>1. \A e \in msgs' : e.type = "result" => e \in msgs
    BY <1>1 DEF Sends
  <2> QED BY <1>2, <2>1 DEF Order, Verdicts
<1>5. OneTurn'
  BY <1>1, <1>2 DEF Order, OneTurn
<1>6. Heard'
  <2> SUFFICES ASSUME faults = 0, Recorded > 0 PROVE Told' \/ member'[Asker].completed = Recorded
    BY <1>1, <1>2 DEF Heard
  <2>1. Told \/ member[Asker].completed = Recorded
    BY DEF Order, Heard
  <2>2. Asker \in Member /\ Asker = Submitter(Recorded) /\ Recorded \in Nat
    BY OrderFacts
  <2>3. member'[Asker].completed \in Nat /\ member'[Asker].completed <= Recorded
    BY <1>2, <2>2, NextRounds
  <2>4. CASE member[Asker].completed = Recorded
    <3>1. member'[Asker].completed >= Recorded
      BY <1>1, <2>2, <2>3, <2>4 DEF Hears
    <3> QED BY <2>2, <2>3, <3>1
  <2>5. CASE Told
    <3>1. PICK d \in msgs : d.type = "result" /\ d.verdict = "recorded" /\ d.round = Recorded
      BY <2>5 DEF Told
    <3>2. CASE d \in left
      BY <1>1, <1>2, <3>1, <3>2 DEF Told
    <3>3. CASE Receives(m, d)
      <4>1. d.dst = m /\ d.completed = Recorded /\ d.dst = Asker
        BY <2>2, <3>1, <3>3, MessageFacts DEF Receives, Order, Verdicts
      <4>2. member'[m].completed >= d.completed
        BY <3>1, <3>3 DEF Receives, Learns
      <4> QED BY <2>2, <2>3, <4>1, <4>2
    <3> QED BY <1>1, <3>2, <3>3
  <2> QED BY <2>1, <2>4, <2>5
<1>7. AcksHeld'
  <2> SUFFICES ASSUME NEW e \in msgs', e.type = "ack"
               PROVE  /\ e.src = Submitter(e.round)
                      /\ e.round > Recorded /\ e.src \notin putback' =>
                            Own(e.dst, e.round) \in member'[e.src].sigs
    BY <1>2 DEF AcksHeld
  <2>1. CASE e \in left
    <3>1. e.src \in Member
      BY <2>1, MessageFacts
    <3>2. e.src \notin putback' => e.src \notin putback
      BY <1>1 DEF GoesBack
    <3>3. /\ e.src = Submitter(e.round)
          /\ e.round > Recorded /\ e.src \notin putback => Own(e.dst, e.round) \in member[e.src].sigs
      BY <2>1 DEF Order, AcksHeld
    <3> QED BY <3>1, <3>2, <3>3, HeldKept
  <2>2. CASE Sends(m, member'[m], e)
    BY <2>2 DEF Sends
  <2> QED BY <1>1, <2>1, <2>2
<1>8. AckedIsHeld'
  <2> SUFFICES ASSUME NEW q \in Member, member'[q].acked, member'[q].round > Recorded,
                      Submitter(member'[q].round) \notin putback'
               PROVE  \E g \in member'[Submitter(member'[q].round)].sigs :
                        g.signer = q /\ g.round = member'[q].round
    BY <1>1 DEF AckedIsHeld, Recorded
  <2> DEFINE r == member'[q].round
             p == Submitter(r)
  <2>1. r \in Round
    <3>1. member'[q] \in States /\ Recorded \in Nat
      BY MemberFacts DEF IInv, Typed
    <3> QED BY <3>1 DEF States, Round
  <2>2. p \in Member /\ p \notin putback
    BY <1>1, <2>1, SubmitterIsMember DEF GoesBack
  <2>3. Own(q, r) \in member[p].sigs
    <3>1. member[q].round = r
      BY <1>1 DEF Enters
    <3>2. CASE member[q].acked
      <4>1. PICK g \in member[p].sigs : g.signer = q /\ g.round = r
        BY <2>2, <3>1, <3>2 DEF Order, AckedIsHeld, Recorded
      <4>2. g \in Signature
        BY <2>2, <4>1 DEF IInv, Typed, States
      <4> QED BY <4>1, <4>2, SignatureIsOwn
    <3>3. ASSUME NEW d \in msgs, d.type = "ack", d.dst = m, d.round = member[m].round, q = m
          PROVE  Own(q, r) \in member[p].sigs
      BY <2>2, <3>1, <3>3 DEF Order, AcksHeld
    <3>4. member[q].acked \/ q = m
      BY <1>1
    <3>5. CASE q = m
      BY <1>1, <3>1, <3>2, <3>3, <3>5 DEF Stays
    <3> QED BY <3>2, <3>4, <3>5
  <2>4. Own(q, r) \in member'[p].sigs
    <3> HIDE DEF r, p
    <3>1. r > Recorded /\ p \notin putback'
      BY DEF r, p
    <3> QED BY <2>2, <2>3, <3>1, HeldKept
  <2>5. Own(q, r).signer = q /\ Own(q, r).round = r
    BY DEF Own
  <2> QED BY <2>4, <2>5
<1> QED BY <1>1, <1>3, <1>4, <1>5, <1>6, <1>7, <1>8 DEF Order

\* An answer of the server.
LEMMA ServesOrder ==
    ASSUME IInv, Grounded, Order, NEW d \in msgs, NEW x, Serves(d, x)
    PROVE  Order'
<1>1. /\ member' = member /\ faults' = faults /\ putback' = putback
      /\ msgs' = (msgs \ {d}) \cup {x} /\ d.type \in {"register", "request", "bundle"}
      /\ Refuses(d, x) \/ NotLive(d, x) \/ Hands(d, x) \/ Records(d, x)
  BY DEF Serves
<1>2. /\ Recorded \in Nat /\ Live = Recorded + 1 /\ Issued \in Nat /\ RoundCount \in Nat
      /\ Issued \in {Recorded, Live} /\ Issued <= RoundCount
      /\ ~ server.active => Issued = Recorded
      /\ server.active => Issued = Live
  BY OrderFacts
<1>3. /\ d.type = "bundle" => /\ d.round \in Nat /\ d.round <= Issued
                              /\ d.src = Submitter(d.round)
      /\ \A e \in msgs : e.type = "result" => e.round \in Nat
  BY MessageFacts DEF Order, NoneAhead, Grounded, Founded
<1>4. /\ Recorded' \in {Recorded, Live} /\ Issued <= Issued' /\ Issued' <= RoundCount
      /\ Issued' \in Nat
      /\ x.type \in {"registered", "challenge", "result"}
      /\ x.type = "challenge" => x.round <= Issued'
      /\ Recorded' = Live => Records(d, x)
  <2>1. CASE Refuses(d, x) \/ NotLive(d, x)
    <3>1. /\ server' = server /\ x.type \in {"registered", "result"}
      BY <2>1 DEF Refuses, NotLive
    <3>2. Recorded' = Recorded /\ Issued' = Issued
      BY <3>1 DEF Recorded, Issued, Live
    <3> QED BY <1>2, <3>1, <3>2
  <2>2. CASE Hands(d, x)
    <3>1. /\ Recorded' = Recorded /\ Live' = Live /\ Issued' = Live
          /\ x.type = "challenge" /\ x.round = Live /\ Recorded < RoundCount
      BY <2>2 DEF Hands, Live, Issued
    <3> QED BY <1>2, <3>1
  <2>3. CASE Records(d, x)
    <3>1. /\ Recorded' = Live /\ Issued' = Live /\ Issued = Live /\ x.type = "result"
      BY <2>3 DEF Records, Issued
    <3> QED BY <1>2, <2>3, <3>1
  <2> QED BY <1>1, <2>1, <2>2, <2>3
<1>5. Recorded' \in Nat /\ Recorded <= Recorded'
  BY <1>2, <1>4
<1>6. NoneAhead'
  <2>1. \A m \in Member : member[m].round <= Issued /\ member[m].round \in Nat
    BY OrderFacts DEF Order, NoneAhead
  <2>2. \A e \in msgs : e.type \in {"challenge", "nonce", "bundle"} =>
                          e.round <= Issued /\ e.round \in Nat
    BY MessageFacts DEF Order, NoneAhead
  <2>3. \A m \in Member : member'[m].round <= Issued'
    BY <1>1, <1>2, <1>4, <2>1
  <2>4. \A e \in msgs' : e.type \in {"challenge", "nonce", "bundle"} => e.round <= Issued'
    BY <1>1, <1>2, <1>4, <2>2
  <2> QED BY <1>4, <2>3, <2>4 DEF NoneAhead
<1>7. Verdicts'
  <2>1. ASSUME NEW e \in msgs, e.type = "result", e.verdict \in {"recorded", "no active challenge"}
        PROVE  e.round <= Recorded' /\ e.dst = Submitter(e.round)
    <3>1. e.round <= Recorded /\ e.dst = Submitter(e.round) /\ e.round \in Nat
      BY <1>3, <2>1 DEF Order, Verdicts
    <3> QED BY <1>2, <1>5, <3>1
  <2>2. ASSUME x.type = "result", x.verdict \in {"recorded", "no active challenge"}
        PROVE  x.round <= Recorded' /\ x.dst = Submitter(x.round)
    <3>1. CASE Records(d, x)
      BY <1>2, <1>3, <1>5, <3>1 DEF Records
    <3>2. CASE NotLive(d, x)
      <4>1. /\ x.round = d.round /\ x.dst = Submitter(d.round)
            /\ d.round \in Nat /\ d.round <= Recorded
        BY <1>2, <1>3, <3>2 DEF NotLive
      <4> QED BY <1>2, <1>5, <4>1
    <3> QED BY <1>1, <2>2, <3>1, <3>2 DEF Refuses, Hands
  <2> QED BY <1>1, <2>1, <2>2 DEF Verdicts
<1>8. OneTurn'
  <2>1. CASE Records(d, x)
    <3>1. /\ server'.used = server.used \cup {Submitter(Live)} /\ Recorded' = Live
          /\ Submitter(Live) \notin server.used
      BY <1>3, <2>1 DEF Records
    <3>2. \A r \in 1 .. Recorded' : r \in 1 .. Recorded \/ r = Live
      BY <1>2, <3>1
    <3>3. \A r, q \in 1 .. Recorded : /\ Submitter(r) \in server.used
                                      /\ Submitter(r) = Submitter(q) => r = q
      BY DEF Order, OneTurn
    <3> QED BY <3>1, <3>2, <3>3 DEF OneTurn
  <2>2. CASE ~ Records(d, x)
    <3>1. Recorded' = Recorded /\ server'.used = server.used
      BY <1>1, <2>2 DEF Refuses, NotLive, Hands, Recorded
    <3> QED BY <3>1 DEF Order, OneTurn
  <2> QED BY <2>1, <2>2
<1>9. Heard'
  <2>1. CASE Records(d, x)
    <3>1. x.type = "result" /\ x.verdict = "recorded" /\ x.round = Recorded'
      BY <2>1 DEF Records
    <3>2. Told'
      BY <1>1, <3>1 DEF Told
    <3> QED BY <3>2 DEF Heard
  <2>2. CASE ~ Records(d, x)
    <3>1. Recorded' = Recorded /\ Asker' = Asker
      BY <1>1, <2>2 DEF Refuses, NotLive, Hands, Recorded, Asker
    <3>2. Told => Told'
      BY <1>1, <3>1 DEF Told
    <3> QED BY <1>1, <3>1, <3>2 DEF Order, Heard
  <2> QED BY <2>1, <2>2
<1>10. AcksHeld'
  <2>1. \A e \in msgs' : e.type = "ack" => e \in msgs /\ e.round \in Nat
    BY <1>1, <1>4, MessageFacts
  <2> QED BY <1>1, <1>2, <1>5, <2>1 DEF Order, AcksHeld
<1>11. AckedIsHeld'
  <2>1. \A m \in Member : member[m].round > Recorded' => member[m].round > Recorded
    BY <1>2, <1>5, OrderFacts
  <2>2. server.completed = Recorded /\ server'.completed = Recorded'
    BY DEF Recorded
  <2> QED BY <1>1, <2>1, <2>2 DEF Order, AckedIsHeld
<1>12. faults' \in Nat
  BY <1>1 DEF Order
<1> QED BY <1>6, <1>7, <1>8, <1>9, <1>10, <1>11, <1>12 DEF Order

\* A loss.
LEMMA LossOrder ==
    ASSUME Order, NEW d \in msgs, Lose(d), member' = member, putback' = putback
    PROVE  Order'
<1>1. msgs' = msgs \ {d} /\ server' = server /\ faults' = faults + 1 /\ faults \in Nat
  BY DEF Lose, Order
<1>2. /\ Recorded' = Recorded /\ Live' = Live /\ Issued' = Issued
  BY <1>1 DEF Recorded, Live, Issued
<1>3. NoneAhead'
  BY <1>1, <1>2 DEF Order, NoneAhead
<1>4. Verdicts'
  BY <1>1, <1>2 DEF Order, Verdicts
<1>5. OneTurn'
  BY <1>1, <1>2 DEF Order, OneTurn
<1>6. Heard'
  BY <1>1 DEF Heard
<1>7. AcksHeld'
  BY <1>1, <1>2 DEF Order, AcksHeld
<1>8. AckedIsHeld'
  BY <1>1 DEF Order, AckedIsHeld
<1> QED BY <1>1, <1>3, <1>4, <1>5, <1>6, <1>7, <1>8 DEF Order

-----------------------------------------------------------------------------
(***************************************************************************)
(* What holds as long as nobody has gone back, step by step.               *)
(***************************************************************************)

\* Nobody leaves the live round.
LEMMA LiveKept ==
    ASSUME IInv, IInv', NEW m \in Member, NEW left, Steps(m, left), putback' = {},
           NEW p \in Member, member[p].round = Live
    PROVE  /\ member'[p].round = Live
           /\ member[p].from_server => member'[p].from_server
<1>1. server' = server /\ (p # m => member'[p] = member[p]) /\ GoesBack(m) /\ Stays(m)
  BY DEF Steps, Moves
<1>2. CASE p = m
  <2>1. Live' = Live /\ Live \in Nat
    BY <1>1, MemberFacts DEF Recorded, Live
  <2>2. member'[p].round \in Nat /\ member'[p].round <= Live'
    BY NextRounds
  <2>3. ~ (member'[p].round < member[p].round)
    BY <1>1, <1>2 DEF GoesBack
  <2>4. member'[p].round = member[p].round
    BY <2>1, <2>2, <2>3
  <2> QED BY <1>1, <1>2, <2>4 DEF Stays
<1> QED BY <1>1, <1>2

\* The asker waits until it has the nonce.
LEMMA AsksKept ==
    ASSUME IInv, Order, NEW m \in Member, NEW left, Steps(m, left), Asks
    PROVE  Asks' \/ member'[Asker].round = Live
<1>1. server' = server /\ (\A p \in Member \ {m} : member'[p] = member[p]) /\ Awaits(m)
  BY DEF Steps, Moves
<1>2. /\ Live' = Live /\ Asker' = Asker /\ Asker \in Member /\ Recorded \in Nat
      /\ Live = Recorded + 1
      /\ Recorded > 0 => Asker = Submitter(Recorded)
      /\ member[Asker].waiting = Live
  BY <1>1, OrderFacts DEF Recorded, Live, Asker, Asks
<1>3. CASE Asker # m
  BY <1>1, <1>2, <1>3 DEF Asks
<1>4. CASE Asker = m
  <2>1. CASE member'[m].waiting = member[m].waiting
    BY <1>2, <1>4, <2>1 DEF Asks
  <2>2. CASE member'[m].waiting = 0 /\ member'[m].round = member[m].waiting
    BY <1>2, <1>4, <2>2
  <2>3. ASSUME NEW d \in msgs, d.type = "result", d.verdict \in {"recorded", "no active challenge"},
               d.dst = m, member'[m].waiting = d.round + 1
        PROVE  Asks'
    <3>1. /\ d.round \in Round /\ d.round <= Recorded /\ d.dst = Submitter(d.round)
      BY <2>3, MessageFacts DEF Order, Verdicts
    <3>2. d.round \in 1 .. Recorded /\ Recorded \in 1 .. Recorded
      BY <1>2, <3>1 DEF Round
    <3>3. Submitter(d.round) = Submitter(Recorded)
      <4>1. Recorded > 0
        BY <1>2, <3>2
      <4> QED BY <1>2, <1>4, <2>3, <3>1, <4>1
    <3>4. d.round = Recorded
      BY <3>2, <3>3 DEF Order, OneTurn
    <3> QED BY <1>2, <1>4, <2>3, <3>4 DEF Asks
  <2>4. member[m].waiting # 0
    BY <1>2, <1>4
  <2> QED BY <1>1, <2>1, <2>2, <2>3, <2>4 DEF Awaits
<1> QED BY <1>3, <1>4

\* A step of a client: the pursuit is handed on.
LEMMA StepsPursuit ==
    ASSUME IInv, IInv', Grounded, Order, Pursuit, NEW m \in Member, NEW left \in SUBSET msgs,
           Steps(m, left), putback' = {}
    PROVE  Pursuit'
<1>1. /\ server' = server /\ (\A p \in Member \ {m} : member'[p] = member[p])
      /\ Enters(m) /\ Hears(m) /\ Awaits(m) /\ left \subseteq msgs' /\ faults' = faults
      /\ (\A e \in msgs' : e \in left \/ Sends(m, member'[m], e))
      /\ (\A d \in msgs : d \in left \/ Receives(m, d))
  BY DEF Steps, Moves
<1>2. /\ Recorded' = Recorded /\ Live' = Live /\ Asker' = Asker
  BY <1>1 DEF Recorded, Live, Asker
<1>3. /\ Recorded \in Nat /\ Live = Recorded + 1 /\ Asker \in Member /\ RoundCount \in Nat
      /\ Recorded > 0 => Asker = Submitter(Recorded)
      /\ Recorded = 0 => Asker = 0
      /\ server.active => Recorded < RoundCount
  BY OrderFacts
<1>4. Holder => Holder'
  BY <1>2, LiveKept DEF Holder
<1>5. SeenIsHeld'
  <2>1. ASSUME NEW p \in Member, member'[p].round = Live PROVE Seen \/ Holder'
    <3>1. CASE member[p].round = Live
      BY <3>1 DEF Seen
    <3>2. CASE p = m /\ member'[m].round # member[m].round
      <4>1. PICK d \in msgs : /\ d.type \in {"challenge", "nonce"} /\ d.round = Live
                              /\ d.type = "challenge" => member'[m].from_server
        BY <1>1, <2>1, <3>2 DEF Enters
      <4>2. CASE d.type = "nonce"
        BY <4>1, <4>2 DEF Seen
      <4>3. CASE d.type = "challenge"
        BY <1>2, <2>1, <3>2, <4>1, <4>3 DEF Holder
      <4> QED BY <4>1, <4>2, <4>3
    <3> QED BY <1>1, <2>1, <3>1, <3>2
  <2>2. ASSUME NEW e \in msgs', e.type = "nonce", e.round = Live PROVE Seen \/ Holder'
    <3>1. CASE e \in left
      BY <2>2, <3>1 DEF Seen
    <3>2. CASE Sends(m, member'[m], e)
      <4>1. member'[m].round = Live /\ member'[m].from_server
        BY <2>2, <3>2 DEF Sends
      <4> QED BY <1>2, <4>1 DEF Holder
    <3> QED BY <1>1, <3>1, <3>2
  <2>3. Seen' => Seen \/ Holder'
    BY <1>2, <2>1, <2>2 DEF Seen
  <2> QED BY <1>4, <2>3 DEF Pursuit, SeenIsHeld
<1>6. \A p \in Member : member'[p].round = Live => Holder'
  BY <1>2, <1>5 DEF SeenIsHeld, Seen
<1>7. Asks => Asks' \/ Holder'
  BY <1>3, <1>6, AsksKept
<1>8. \A p \in Member : member[p].round = Live => member'[p].round = Live
  BY LiveKept
<1>9. FirstIsAsked'
  <2> SUFFICES ASSUME Recorded = 0,
                      \/ server.active \/ (\E e \in msgs' : e.type = "request")
                      \/ \E p \in Member : member'[p].waiting # 0
               PROVE  Asks' \/ Holder'
    BY <1>1, <1>2 DEF FirstIsAsked
  <2>1. ASSUME NEW p \in Member, member'[p].waiting # 0
        PROVE  member[p].waiting # 0 \/ Asks'
    <3>1. CASE p # m
      BY <1>1, <2>1, <3>1
    <3>2. CASE p = m
      <4>1. CASE m = 0 /\ member[m].round = 0 /\ member[m].waiting = 0 /\ member'[m].waiting = 1
        BY <1>2, <1>3, <4>1 DEF Asks
      <4>2. \A d \in msgs : d.type = "result" /\ d.verdict \in {"recorded", "no active challenge"} =>
                               d.round <= 0 /\ d.round \in Round
        BY MessageFacts DEF Order, Verdicts
      <4>3. \A r \in Round : ~ (r <= 0)
        BY DEF Round
      <4> QED BY <1>1, <2>1, <3>2, <4>1, <4>2, <4>3 DEF Awaits
    <3> QED BY <3>1, <3>2
  <2>2. ASSUME NEW e \in msgs', e.type = "request"
        PROVE  e \in msgs \/ member'[m].waiting # 0
    <3>1. CASE e \in left
      BY <3>1
    <3>2. CASE Sends(m, member'[m], e)
      BY <2>2, <3>2 DEF Sends
    <3> QED BY <1>1, <3>1, <3>2
  <2>3. \/ Asks'
        \/ server.active \/ (\E e \in msgs : e.type = "request")
        \/ \E p \in Member : member[p].waiting # 0
    BY <2>1, <2>2
  <2> QED BY <1>4, <1>7, <2>3 DEF Pursuit, FirstIsAsked
<1>10. NextIsAsked'
  <2> SUFFICES ASSUME Recorded \in 1 .. RoundCount - 1, member'[Asker].completed = Recorded
               PROVE  Asks' \/ member'[Asker].round = Live
    BY <1>2 DEF NextIsAsked
  <2>1. CASE member[Asker].completed = Recorded
    <3>1. Asks \/ member[Asker].round = Live
      BY <2>1 DEF Pursuit, NextIsAsked
    <3> QED BY <1>3, <1>8, <3>1, AsksKept
  <2>2. CASE member[Asker].completed # Recorded
    <3>1. Asker = m
      BY <1>1, <1>3, <2>2
    <3>2. PICK d \in msgs : /\ d.type = "result" /\ d.verdict = "recorded" /\ d.dst = m
                            /\ member'[m].completed = d.completed /\ Learns(m, d)
      BY <1>1, <2>2, <3>1 DEF Hears
    <3>3. d.round = Recorded /\ d.completed = Recorded /\ m = Submitter(d.round)
      BY <3>1, <3>2, MessageFacts DEF Order, Verdicts
    <3>4. member'[m].waiting = Recorded + 1
      BY <1>3, <3>2, <3>3 DEF Learns
    <3> QED BY <1>2, <1>3, <3>1, <3>4 DEF Asks
  <2> QED BY <2>1, <2>2
<1>11. Handed => Handed' \/ Holder'
  <2> SUFFICES ASSUME NEW d \in msgs, d.type = "challenge", d.round = Live
               PROVE  Handed' \/ Holder'
    BY DEF Handed
  <2>1. CASE d \in left
    BY <1>1, <1>2, <2>1 DEF Handed
  <2>2. CASE Receives(m, d)
    <3>1. ~ (d.round <= member[m].completed)
      BY <1>3, OrderFacts
    <3>2. member'[m].round = Live
      BY <2>2, <3>1 DEF Receives, Takes
    <3> QED BY <1>6, <3>2
  <2> QED BY <1>1, <2>1, <2>2
<1>12. LiveIsHeld'
  BY <1>1, <1>4, <1>11 DEF Pursuit, LiveIsHeld
<1>13. server.active /\ Told => Told' \/ Asks'
  <2> SUFFICES ASSUME server.active, NEW d \in msgs, d.type = "result", d.verdict = "recorded",
                      d.round = Recorded
               PROVE  Told' \/ Asks'
    BY DEF Told
  <2>1. CASE d \in left
    BY <1>1, <1>2, <2>1 DEF Told
  <2>2. CASE Receives(m, d)
    <3>1. d.completed = Recorded /\ m = Submitter(d.round) /\ d.round \in Round
      BY <2>2, MessageFacts DEF Receives, Order, Verdicts
    <3>2. member'[m].waiting = Recorded + 1
      BY <1>3, <2>2, <3>1 DEF Receives, Learns
    <3>3. Recorded > 0
      BY <3>1 DEF Round
    <3> QED BY <1>2, <1>3, <3>1, <3>2, <3>3 DEF Asks
  <2> QED BY <1>1, <2>1, <2>2
<1>14. LiveIsPursued'
  BY <1>1, <1>4, <1>7, <1>11, <1>13 DEF Pursuit, LiveIsPursued
<1> QED BY <1>5, <1>9, <1>10, <1>12, <1>14 DEF Pursuit

\* An answer of the server: a nonce handed out is on its way, and a round recorded has
\* no live challenge.
LEMMA ServesPursuit ==
    ASSUME IInv, Order, Order', Pursuit, NEW d \in msgs, NEW x, Serves(d, x)
    PROVE  Pursuit'
<1>1. /\ member' = member /\ faults' = faults /\ msgs' = (msgs \ {d}) \cup {x}
      /\ d.type \in {"register", "request", "bundle"}
      /\ Refuses(d, x) \/ NotLive(d, x) \/ Hands(d, x) \/ Records(d, x)
  BY DEF Serves
<1>2. /\ Recorded \in Nat /\ Live = Recorded + 1 /\ Asker \in Member
      /\ \A m \in Member : member[m].completed <= Recorded
  BY OrderFacts
<1>3. CASE Refuses(d, x) \/ NotLive(d, x)
  <2>1. /\ server' = server /\ x.type \in {"registered", "result"}
    BY <1>3 DEF Refuses, NotLive
  <2>2. Recorded' = Recorded /\ Live' = Live /\ Asker' = Asker
    BY <2>1 DEF Recorded, Live, Asker
  <2>3. (Holder' <=> Holder) /\ (Asks' <=> Asks)
    BY <1>1, <2>2 DEF Holder, Asks
  <2>4. (Handed => Handed') /\ (Told => Told')
    BY <1>1, <2>2 DEF Handed, Told
  <2>5. Seen' => Seen
    BY <1>1, <2>1, <2>2 DEF Seen
  <2>6. \A e \in msgs' : e.type = "request" => e \in msgs
    BY <1>1, <2>1
  <2>7. SeenIsHeld'
    BY <2>3, <2>5 DEF Pursuit, SeenIsHeld
  <2>8. FirstIsAsked'
    BY <1>1, <2>1, <2>2, <2>3, <2>6 DEF Pursuit, FirstIsAsked
  <2>9. NextIsAsked'
    BY <1>1, <2>2, <2>3 DEF Pursuit, NextIsAsked
  <2>10. LiveIsHeld' /\ LiveIsPursued'
    BY <1>1, <2>1, <2>3, <2>4 DEF Pursuit, LiveIsHeld, LiveIsPursued
  <2> QED BY <2>7, <2>8, <2>9, <2>10 DEF Pursuit
<1>4. CASE Hands(d, x)
  <2>1. /\ Recorded' = Recorded /\ d.type = "request" /\ x.type = "challenge" /\ x.round = Live
    BY <1>4 DEF Hands
  <2>2. Live' = Live /\ Asker' = Asker
    BY <2>1 DEF Live, Asker
  <2>3. (Holder' <=> Holder) /\ (Asks' <=> Asks)
    BY <1>1, <2>2 DEF Holder, Asks
  <2>4. Handed'
    BY <1>1, <2>1, <2>2 DEF Handed
  <2>5. Seen' => Seen
    BY <1>1, <2>1, <2>2 DEF Seen
  <2>6. SeenIsHeld'
    BY <2>3, <2>5 DEF Pursuit, SeenIsHeld
  <2>7. FirstIsAsked'
    BY <2>1, <2>3 DEF Pursuit, FirstIsAsked
  <2>8. NextIsAsked'
    BY <1>1, <2>1, <2>2, <2>3 DEF Pursuit, NextIsAsked
  <2>9. LiveIsHeld' /\ LiveIsPursued'
    BY <2>4 DEF LiveIsHeld, LiveIsPursued
  <2> QED BY <2>6, <2>7, <2>8, <2>9 DEF Pursuit
<1>5. CASE Records(d, x)
  <2>1. Recorded' = Live /\ server'.active = FALSE
    BY <1>5 DEF Records
  <2>2. Issued' = Live /\ Live' = Live + 1
    BY <2>1 DEF Issued, Live
  <2>3. /\ \A m \in Member : member'[m].round <= Live
        /\ \A e \in msgs' : e.type = "nonce" => e.round <= Live
    BY <2>2 DEF Order, NoneAhead
  <2>4. ~ Seen'
    <3>1. ~ (Live' <= Live)
      BY <1>2, <2>2
    <3> QED BY <2>3, <3>1 DEF Seen
  <2>5. SeenIsHeld'
    BY <2>4 DEF SeenIsHeld
  <2>6. FirstIsAsked'
    BY <1>2, <2>1 DEF FirstIsAsked
  <2>7. NextIsAsked'
    <3>1. Asker' \in Member
      <4>1. Live \in Round
        BY <1>2, <2>2, ServerAssumption DEF Order, NoneAhead, Round
      <4>2. Asker' = Submitter(Live)
        BY <1>2, <2>1 DEF Asker
      <4> QED BY <4>1, <4>2, SubmitterIsMember
    <3>2. member'[Asker'].completed <= Recorded
      BY <1>1, <1>2, <3>1
    <3>3. ~ (Live <= Recorded)
      BY <1>2
    <3> QED BY <2>1, <3>2, <3>3 DEF NextIsAsked
  <2>8. LiveIsHeld' /\ LiveIsPursued'
    BY <2>1 DEF LiveIsHeld, LiveIsPursued
  <2> QED BY <2>5, <2>6, <2>7, <2>8 DEF Pursuit
<1> QED BY <1>1, <1>3, <1>4, <1>5

\* A loss empties one of the places.
LEMMA LossPursuit ==
    ASSUME IInv, Order, Pursuit, NEW d \in msgs, Lose(d), member' = member
    PROVE  Pursuit'
<1>1. msgs' = msgs \ {d} /\ server' = server /\ faults' = faults + 1
  BY DEF Lose
<1>2. Recorded' = Recorded /\ Live' = Live /\ Asker' = Asker
  BY <1>1 DEF Recorded, Live, Asker
<1>3. /\ Recorded \in Nat /\ Asker \in Member /\ faults \in Nat
      /\ RoundCount \in Nat
      /\ server.active => Recorded < RoundCount
  BY OrderFacts
<1>4. (Holder' <=> Holder) /\ (Asks' <=> Asks)
  BY <1>2 DEF Holder, Asks
<1>5. SeenIsHeld'
  <2>1. Seen' => Seen
    BY <1>1, <1>2 DEF Seen
  <2> QED BY <1>4, <2>1 DEF Pursuit, SeenIsHeld
<1>6. FirstIsAsked'
  BY <1>1, <1>2, <1>4 DEF Pursuit, FirstIsAsked
<1>7. NextIsAsked'
  BY <1>1, <1>2, <1>4 DEF Pursuit, NextIsAsked
<1>8. LiveIsHeld'
  BY <1>1, <1>3 DEF LiveIsHeld
<1>9. LiveIsPursued'
  <2> SUFFICES ASSUME server.active, faults = 0 PROVE Handed' \/ Holder \/ Asks \/ Told'
    BY <1>1, <1>3, <1>4 DEF LiveIsPursued
  <2>1. CASE Holder
    BY <2>1
  <2>2. CASE Recorded = 0
    BY <2>2 DEF Pursuit, FirstIsAsked
  <2>3. CASE Recorded > 0 /\ member[Asker].completed = Recorded
    <3>1. Asks \/ member[Asker].round = Live
      BY <1>3, <2>3 DEF Pursuit, NextIsAsked
    <3> QED BY <1>3, <3>1 DEF Pursuit, SeenIsHeld, Seen
  <2>4. CASE Handed /\ Told
    <3>1. PICK e \in msgs : e.type = "result" /\ e.verdict = "recorded" /\ e.round = Recorded
      BY <2>4 DEF Told
    <3>2. PICK h \in msgs : h.type = "challenge" /\ h.round = Live
      BY <2>4 DEF Handed
    <3>3. e # d => Told'
      BY <1>1, <1>2, <3>1 DEF Told
    <3>4. h # d => Handed'
      BY <1>1, <1>2, <3>2 DEF Handed
    <3> QED BY <3>1, <3>2, <3>3, <3>4
  <2>5. Handed \/ Holder
    BY DEF Pursuit, LiveIsHeld
  <2>6. Recorded > 0 => Told \/ member[Asker].completed = Recorded
    BY <1>3 DEF Order, Heard
  <2>7. Recorded > 0 \/ Recorded = 0
    BY <1>3
  <2> QED BY <2>1, <2>2, <2>3, <2>4, <2>5, <2>6, <2>7
<1> QED BY <1>5, <1>6, <1>7, <1>8, <1>9 DEF Pursuit

-----------------------------------------------------------------------------
\* Who has gone back stays so.
LEMMA PutbackStays ==
    ASSUME NEW m, GoesBack(m) PROVE putback \subseteq putback'
BY DEF GoesBack

\* The invariant is inductive together with the first two.
LEMMA StepPursuit == IInv /\ Grounded /\ PInv /\ [Next]_vars => PInv'
<1> SUFFICES ASSUME IInv, Grounded, PInv, [Next]_vars PROVE PInv'
  OBVIOUS
<1>1. IInv' /\ Order /\ (putback = {} => Pursuit)
  BY StepInv DEF PInv
<1>2. ASSUME NEW m \in Member, NEW left \in SUBSET msgs, Steps(m, left) PROVE PInv'
  <2>1. putback' = {} => putback = {}
    BY <1>2, PutbackStays DEF Steps
  <2>2. Order'
    BY <1>1, <1>2, StepsOrder
  <2>3. putback' = {} => Pursuit'
    BY <1>1, <1>2, <2>1, StepsPursuit
  <2> QED BY <2>2, <2>3 DEF PInv
<1>3. ASSUME NEW d \in msgs, NEW x, Serves(d, x) PROVE PInv'
  <2>1. putback' = putback
    BY <1>3 DEF Serves
  <2>2. Order'
    BY <1>1, <1>3, ServesOrder
  <2>3. putback' = {} => Pursuit'
    BY <1>1, <1>3, <2>1, <2>2, ServesPursuit
  <2> QED BY <2>2, <2>3 DEF PInv
<1>4. ASSUME NEW m \in Member, NEW found \in SUBSET Undiscovered(m), NEW due \in SUBSET Retries,
             Tick(m, found, due)
      PROVE  PInv'
  BY <1>2, <1>4, TickSteps
<1>5. ASSUME NEW d \in msgs, Deliver(d) PROVE PInv'
  <2>1. faults' = faults
    BY <1>5 DEF Deliver
  <2>2. ASSUME NEW m \in Member, Handle(m, d) PROVE PInv'
    <3>1. Steps(m, msgs \ {d})
      BY <2>1, <2>2, HandleSteps
    <3>2. msgs \ {d} \in SUBSET msgs
      OBVIOUS
    <3> QED BY <1>2, <3>1, <3>2
  <2>3. ASSUME ServeRegister(d) \/ ServeRequest(d) \/ ServeBundle(d),
               member' = member, putback' = putback
        PROVE  PInv'
    BY <1>3, <2>1, <2>3, ServerServes
  <2> QED BY <1>5, <2>2, <2>3 DEF Deliver
<1>6. ASSUME NEW d \in msgs, Lose(d), member' = member, putback' = putback PROVE PInv'
  <2>1. Order'
    BY <1>1, <1>6, LossOrder
  <2>2. putback' = {} => Pursuit'
    BY <1>1, <1>6, LossPursuit
  <2> QED BY <2>1, <2>2 DEF PInv
<1>7. CASE UNCHANGED vars
  <2>1. /\ member' = member /\ server' = server /\ msgs' = msgs /\ faults' = faults
        /\ putback' = putback
    BY <1>7 DEF vars
  <2>2. /\ Recorded' = Recorded /\ Live' = Live /\ Issued' = Issued /\ Asker' = Asker
        /\ (Told' <=> Told) /\ (Handed' <=> Handed) /\ (Holder' <=> Holder) /\ (Asks' <=> Asks)
        /\ (Seen' <=> Seen)
    BY <2>1 DEF Recorded, Live, Issued, Asker, Told, Handed, Holder, Asks, Seen
  <2>3. Order'
    BY <1>1, <2>1, <2>2 DEF Order, NoneAhead, Verdicts, OneTurn, Heard, AcksHeld, AckedIsHeld
  <2>4. Pursuit => Pursuit'
    BY <2>1, <2>2 DEF Pursuit, SeenIsHeld, FirstIsAsked, NextIsAsked, LiveIsHeld, LiveIsPursued
  <2> QED BY <1>1, <2>1, <2>3, <2>4 DEF PInv
<1> QED BY <1>4, <1>5, <1>6, <1>7 DEF Next, Drop

-----------------------------------------------------------------------------
\* Nobody is ahead of the nonces the server has handed out, each submitter has its turn
\* once, and, as long as nobody has gone back to an earlier round, whoever is in the
\* live round has its nonce from one that relays it and the submitter of the round
\* before asks for it (tick, install_nonce, on_round_result).
THEOREM GroupPursues == Spec => []PInv
<1>1. Init => PInv
  BY InitPursuit
<1>2. IInv /\ Grounded /\ PInv /\ [Next]_vars => PInv'
  BY StepPursuit
<1> QED BY <1>1, <1>2, GroupInvariance, GroupGrounded, PTL DEF Spec

\* A live challenge is pursued, also when one datagram is lost, whenever the clients
\* tick, as long as no retry has done harm (tick, install_nonce, on_round_result).
THEOREM ChallengesPursued == Spec => []ChallengePursued
<1>1. IInv /\ PInv => ChallengePursued
  <2> SUFFICES ASSUME IInv, PInv, server.active, faults <= 1, putback = {}
               PROVE  \/ \E m \in Member :
                          \/ member[m].waiting = server.completed + 1
                          \/ member[m].round = server.completed + 1 /\ member[m].from_server
                      \/ \E d \in msgs :
                          \/ d.type = "challenge" /\ d.round = server.completed + 1
                          \/ d.type = "result" /\ d.verdict = "recorded" /\ d.round = server.completed
    BY DEF ChallengePursued, Undisturbed
  <2>1. Handed \/ Holder \/ Asks \/ Told
    BY DEF PInv, Pursuit, LiveIsPursued
  <2>2. Asker \in Member
    BY OrderFacts DEF PInv
  <2>3. Live = server.completed + 1 /\ Recorded = server.completed
    BY DEF Live, Recorded
  <2>4. CASE Handed \/ Told
    BY <2>3, <2>4 DEF Handed, Told
  <2>5. CASE Holder
    BY <2>3, <2>5 DEF Holder
  <2>6. CASE Asks
    BY <2>2, <2>3, <2>6 DEF Asks
  <2> QED BY <2>1, <2>4, <2>5, <2>6
<1> QED BY <1>1, GroupInvariance, GroupPursues, PTL

\* A signature that was acknowledged is with the submitter until the round is recorded,
\* whatever is lost, late or sent twice and whenever the clients tick, unless the
\* submitter has gone back to an earlier round (on_team_signature, on_team_ack,
\* install_nonce).
THEOREM AcksHold == Spec => []AckedIsHeld
<1>1. PInv => AckedIsHeld
  BY DEF PInv, Order
<1> QED BY <1>1, GroupPursues, PTL
=============================================================================
