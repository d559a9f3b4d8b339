---------------------------- MODULE SigningServer ---------------------------
(***************************************************************************)
(* The Lab 2 server and the network, as the two clients of the group use   *)
(* them; both are external.                                                *)
(*                                                                         *)
(* The server goes through RoundCount rounds, each submitted by another    *)
(* member of the group.  It issues one nonce per round, so that a nonce is *)
(* its round number, and a signature is its signer with the round whose    *)
(* nonce it signed.                                                        *)
(*                                                                         *)
(* A datagram is delivered at most once, in any order.  It is a fault if   *)
(* it is lost; the module of each client says what else counts as one.     *)
(***************************************************************************)
EXTENDS Integers, FiniteSets

CONSTANTS GroupSize, RoundCount,
          Server,
          MaxFaults     \* bound: how many faults the network makes

Member == 0 .. GroupSize - 1

ASSUME ServerAssumption ==
    /\ GroupSize \in Nat \ {0} /\ RoundCount \in Nat \ {0}
    /\ Server \notin Member
    /\ MaxFaults \in Nat

VARIABLES server,    \* rounds recorded, whether a challenge is live, who submitted
          msgs,      \* the datagrams in flight
          faults     \* how many faults the network has made

InitServer ==
    /\ server = [completed |-> 0, active |-> FALSE, used |-> {}]
    /\ msgs = {}
    /\ faults = 0

Reply(d, message) == (msgs \ {d}) \cup {message}

Result(to, r, completed, verdict) ==
    [type |-> "result", src |-> Server, dst |-> to, round |-> r, completed |-> completed,
     verdict |-> verdict]

Challenge(to, r) == [type |-> "challenge", src |-> Server, dst |-> to, round |-> r]

\* Asking again while the challenge is live gives the same nonce.
ServeRequest(d) ==
    /\ d.type = "request"
    /\ IF server.completed = RoundCount
       THEN /\ msgs' = Reply(d, Result(d.src, RoundCount, RoundCount, "already completed"))
            /\ UNCHANGED server
       ELSE /\ msgs' = Reply(d, Challenge(d.src, server.completed + 1))
            /\ server' = [server EXCEPT !.active = TRUE]

\* The reasons to reject a bundle; which one is given when several apply is the
\* server's business.
Objections(d) ==
    {v \in {"no active challenge", "wrong round number", "submitter already used",
            "invalid signature"} :
        CASE v = "no active challenge"    -> ~ server.active
          [] v = "wrong round number"     -> server.active /\ d.round # server.completed + 1
          [] v = "submitter already used" -> server.active /\ d.src \in server.used
          [] v = "invalid signature"      -> server.active /\ \E g \in d.sigs : g.round # d.round}

ServeBundle(d) ==
    /\ d.type = "bundle"
    /\ \/ /\ \E v \in Objections(d) :
               msgs' = Reply(d, Result(d.src, d.round, server.completed, v))
          /\ UNCHANGED server
       \/ /\ Objections(d) = {}
          /\ server' = [completed |-> d.round, active |-> FALSE, used |-> server.used \cup {d.src}]
          /\ msgs' = Reply(d, Result(d.src, d.round, d.round, "recorded"))

Lose(d) ==
    /\ faults < MaxFaults
    /\ faults' = faults + 1
    /\ msgs' = msgs \ {d}
    /\ UNCHANGED server

-----------------------------------------------------------------------------
\* However late nonces, signatures and acknowledgements arrive, a bundle on its way
\* to the server has the signatures of all members, over the nonce of its round
\* (retry_bundle and on_team_signature of the one client, submit_if_ready and
\* on_signature_share of the other).
BundleIsWhole ==
    \A d \in msgs : d.type = "bundle" =>
        d.sigs = {[signer |-> m, round |-> d.round] : m \in Member}
=============================================================================
