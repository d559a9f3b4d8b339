---------------------------- MODULE Registration ----------------------------
(***************************************************************************)
(* The registration of the group with the course's server: the start of a  *)
(* node (main of run_node), the gate that holds the registrant back until  *)
(* its teammates are in the blockchain community (wait_for_teammates), and *)
(* the periodic attempt to register (RegistrationCommunity).               *)
(*                                                                         *)
(* The gate, the attempt and the handler run one at a time in one event    *)
(* loop; the task is scheduled before the gate is reached.  Nothing is     *)
(* stored, so that a node that stops and starts again registers again,     *)
(* while answers to its earlier requests may still arrive.  The network    *)
(* loses, repeats and reorders.  The server, the network and the discovery *)
(* of peers are external.                                                  *)
(***************************************************************************)
EXTENDS Naturals, FiniteSets

CONSTANTS Node,
          Settings     \* the command lines, and how often nodes stop and the server refuses

ASSUME RegistrationAssumption ==
    Settings \subseteq [register : SUBSET Node, teammates : [Node -> SUBSET Node],
                         stops : Nat, refusals : Nat]

VARIABLES node,        \* node[n]: the state of the process of n
          msgs,        \* the datagrams in flight
          recorded,    \* whether the server has recorded the group
          joined,      \* history: the nodes that have been in the blockchain community
          setting      \* the setting in force, with what is left of its bounds

vars == <<node, msgs, recorded, joined, setting>>

-----------------------------------------------------------------------------
(***************************************************************************)
(* A process is down, refused its arguments ("exited"), waits at the gate, *)
(* or runs.  seen are the teammates it has discovered, server whether it   *)
(* has discovered the server, details whether set_registration_details was *)
(* called, and task whether attempt_registration is scheduled.             *)
(***************************************************************************)

Fresh == [pc |-> "down", seen |-> {}, server |-> FALSE, details |-> FALSE,
          registered |-> FALSE, task |-> FALSE]

Up(n) == node[n].pc \in {"waiting", "running"}

Init ==
    /\ node = [n \in Node |-> Fresh]
    /\ msgs = {} /\ recorded = FALSE /\ joined = {}
    /\ setting \in Settings

-----------------------------------------------------------------------------
(***************************************************************************)
(* The node.                                                               *)
(***************************************************************************)

BadArguments(n) == n \in setting.register /\ Cardinality(setting.teammates[n]) # 2

\* main, up to the gate; started of both overlays.
Start(n) ==
    /\ node[n].pc = "down"
    /\ IF BadArguments(n)
       THEN node' = [node EXCEPT ![n].pc = "exited"] /\ UNCHANGED joined
       ELSE /\ node' = [node EXCEPT ![n] =
                            IF n \in setting.register
                            THEN [@ EXCEPT !.pc = "waiting", !.task = TRUE]
                            ELSE [@ EXCEPT !.pc = "running"]]
            /\ joined' = joined \cup {n}
    /\ UNCHANGED <<msgs, recorded, setting>>

\* Mutated: the registrant looks for its own key as well.
AllSeen_self(n) == setting.teammates[n] \cup {n} \subseteq node[n].seen

AllSeen(n) == setting.teammates[n] \subseteq node[n].seen

\* wait_for_teammates returns, and main sets the registration details.
PassGate(n) ==
    /\ node[n].pc = "waiting" /\ AllSeen(n)
    /\ node' = [node EXCEPT ![n].pc = "running", ![n].details = TRUE]
    /\ UNCHANGED <<msgs, recorded, joined, setting>>

\* Mutated: the task ends with the first request.
AfterAttempt_once(s) == [s EXCEPT !.task = ~ (s.registered \/ (s.details /\ s.server))]

AfterAttempt(s) == [s EXCEPT !.task = ~ s.registered]

\* Mutated: does not wait for the details, as the task is scheduled with them.
Requests_early(n) == ~ node[n].registered /\ node[n].server

Requests(n) == ~ node[n].registered /\ node[n].details /\ node[n].server

\* attempt_registration
Attempt(n) ==
    /\ node[n].task
    /\ node' = [node EXCEPT ![n] = AfterAttempt(@)]
    /\ msgs' = msgs \cup (IF Requests(n) THEN {[type |-> "register", node |-> n]} ELSE {})
    /\ UNCHANGED <<recorded, joined, setting>>

\* Mutated: the state follows the last answer.
Answered_last(s, success) == [s EXCEPT !.registered = success, !.task = @ /\ ~ success]

\* Mutated: any answer ends the registration.
Answered_any(s, success) == [s EXCEPT !.registered = TRUE, !.task = FALSE]

Answered(s, success) ==
    IF success THEN [s EXCEPT !.registered = TRUE, !.task = FALSE] ELSE s

\* on_register_blockchain_response; left are the datagrams afterwards.
OnResponse(n, d, left) ==
    /\ d.type = "response" /\ d.node = n /\ Up(n)
    /\ node' = [node EXCEPT ![n] = Answered(@, d.success)]
    /\ msgs' = left
    /\ UNCHANGED <<recorded, joined, setting>>

Stop(n) ==
    /\ Up(n) /\ setting.stops > 0
    /\ node' = [node EXCEPT ![n] = Fresh]
    /\ setting' = [setting EXCEPT !.stops = @ - 1]
    /\ UNCHANGED <<msgs, recorded, joined>>

-----------------------------------------------------------------------------
(***************************************************************************)
(* Discovery, the server and the network.                                  *)
(***************************************************************************)

\* A node never discovers itself.  What others than a registrant discover makes no
\* difference here.
Discover(n, p) ==
    /\ n \in setting.register /\ Up(n) /\ Up(p) /\ p # n
    /\ node' = [node EXCEPT ![n].seen = @ \cup {p}]
    /\ UNCHANGED <<msgs, recorded, joined, setting>>

\* A peer that went away drops out of get_peers sooner or later.
Forget(n, p) ==
    /\ Up(n) /\ ~ Up(p) /\ p \in node[n].seen
    /\ node' = [node EXCEPT ![n].seen = @ \ {p}]
    /\ UNCHANGED <<msgs, recorded, joined, setting>>

FindServer(n) ==
    /\ n \in setting.register /\ Up(n) /\ ~ node[n].server
    /\ node' = [node EXCEPT ![n].server = TRUE]
    /\ UNCHANGED <<msgs, recorded, joined, setting>>

Response(n, success) == [type |-> "response", node |-> n, success |-> success]

Accept(d, left) ==
    /\ d.type = "register"
    /\ recorded' = TRUE
    /\ msgs' = left \cup {Response(d.node, TRUE)}
    /\ UNCHANGED <<node, joined, setting>>

\* Also a repeated request may be refused.
Refuse(d, left) ==
    /\ d.type = "register" /\ setting.refusals > 0
    /\ setting' = [setting EXCEPT !.refusals = @ - 1]
    /\ msgs' = left \cup {Response(d.node, FALSE)}
    /\ UNCHANGED <<node, recorded, joined>>

Lose(d) == msgs' = msgs \ {d} /\ UNCHANGED <<node, recorded, joined, setting>>

\* What is delivered may be delivered again.
After(d) == {msgs, msgs \ {d}}

Next ==
    \/ \E n \in Node : Start(n) \/ PassGate(n) \/ Attempt(n) \/ Stop(n) \/ FindServer(n)
    \/ \E n, p \in Node : Discover(n, p) \/ Forget(n, p)
    \/ \E n \in Node, d \in msgs : \E left \in After(d) : OnResponse(n, d, left)
    \/ \E d \in msgs : \E left \in After(d) : Accept(d, left) \/ Refuse(d, left)
    \/ \E d \in msgs : Lose(d)

Spec == Init /\ [][Next]_vars

\* Nodes are started again, peers and server are found, the gate and the task are
\* polled for ever, and of datagrams sent again and again one gets through.
Fairness ==
    /\ \A n \in Node :
        /\ WF_vars(Start(n)) /\ WF_vars(FindServer(n))
        /\ SF_vars(\E p \in Node \ node[n].seen : Discover(n, p))
        /\ WF_vars(PassGate(n)) /\ WF_vars(Attempt(n))
        /\ SF_vars(\E d \in msgs : d.node = n /\ Accept(d, msgs \ {d}))
        /\ SF_vars(\E d \in msgs : d = Response(n, TRUE) /\ OnResponse(n, d, msgs \ {d}))

FairSpec == Spec /\ Fairness

-----------------------------------------------------------------------------
(***************************************************************************)
(* Properties.                                                             *)
(***************************************************************************)

\* Type invariant: among the rest, only a node that was started to register, and has
\* not registered, has the task; and it stops only when registered.
RegistrationTypeOK ==
    /\ recorded \in BOOLEAN /\ joined \subseteq Node
    /\ \A n \in Node :
        /\ node[n].pc \in {"down", "exited", "waiting", "running"}
        /\ node[n].seen \subseteq joined \ {n}
        /\ node[n].task = (Up(n) /\ n \in setting.register /\ ~ node[n].registered)
        /\ node[n].details = (node[n].pc = "running" /\ n \in setting.register)

\* The group is not recorded before all of a registrant's teammates, and the
\* registrant, have been in the blockchain community: the task, which runs from the
\* start, does nothing until the gate has been passed (main sets the details after
\* wait_for_teammates), whichever node stops or starts again in between.
RecordedAfterAllJoined ==
    recorded => \E n \in setting.register : setting.teammates[n] \cup {n} \subseteq joined

\* A node that holds itself registered is recorded, whatever answers were lost,
\* repeated, late, or meant for the process that ran before it.
RegisteredIsRecorded == \A n \in Node : node[n].registered => recorded

\* A refusal that arrives after a success does not undo it, nor start the attempts
\* again: only the end of the process does (on_register_blockchain_response).
StaysRegistered ==
    [][\A n \in Node : node[n].registered /\ Up(n)' => node[n].registered' /\ ~ node[n].task']_vars

\* The registrant has been given the keys of the two others, not its own, and none
\* of them refuses its arguments.
Named(n) ==
    /\ n \in setting.register /\ n \notin setting.teammates[n]
    /\ \A p \in setting.teammates[n] \cup {n} : ~ BadArguments(p)

\* The group gets registered exactly if a registrant was given the keys of two others
\* that run: with its own among them it waits at the gate for ever, since a node does
\* not discover itself (main checks only how many keys there are).
RegistersIfNamed ==
    /\ (\E n \in Node : Named(n)) => <>recorded
    /\ (\A n \in Node : ~ Named(n)) => [] ~ recorded

\* The attempts come to an end, also after lost answers, refusals and restarts.
FallsSilent ==
    (\A n \in setting.register : Named(n)) => <>[](\A n \in setting.register : ~ node[n].task)
=============================================================================
