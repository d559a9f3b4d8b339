-------------------------- MODULE RegistrationProofs ------------------------
(***************************************************************************)
(* Proofs of the safety properties of module Registration, for every set   *)
(* of nodes, of command lines and of bounds.                               *)
(***************************************************************************)
EXTENDS Registration, TLAPS

States == [pc : {"down", "exited", "waiting", "running"}, seen : SUBSET Node,
           server : BOOLEAN, details : BOOLEAN, registered : BOOLEAN, task : BOOLEAN]

Typed ==
    /\ node \in [Node -> States]
    /\ setting \in [register : SUBSET Node, teammates : [Node -> SUBSET Node],
                    stops : Nat, refusals : Nat]
    /\ msgs \subseteq [type : {"register"}, node : Node]
                 \cup [type : {"response"}, node : Node, success : BOOLEAN]
    /\ recorded \in BOOLEAN
    /\ joined \subseteq Node

\* The teammates of n, and n, have been there.
Gathered(n) == n \in setting.register /\ setting.teammates[n] \cup {n} \subseteq joined

\* What one process knows, and the phases of its life.
ProcessInv(n) ==
    /\ node[n].seen \subseteq joined \ {n}
    /\ Up(n) => n \in joined
    /\ node[n].pc = "waiting" => n \in setting.register
    /\ node[n].task <=> (Up(n) /\ n \in setting.register /\ ~ node[n].registered)
    /\ node[n].details <=> (node[n].pc = "running" /\ n \in setting.register)
    /\ node[n].details => Gathered(n)
    /\ node[n].registered => Up(n) /\ recorded

\* What is in flight: a request was sent behind the gate, a success by a server that
\* has recorded the group.
FlightInv ==
    \A d \in msgs : /\ d.type = "register" => Gathered(d.node)
                    /\ d.type = "response" => (d.success => recorded)

IInv ==
    /\ Typed
    /\ \A n \in Node : ProcessInv(n)
    /\ FlightInv
    /\ recorded => \E n \in Node : Gathered(n)

-----------------------------------------------------------------------------

\* The invariant holds of the initial states: no process runs, nothing is in flight.
LEMMA InitInv == Init => IInv
<1> SUFFICES ASSUME Init PROVE IInv
  OBVIOUS
<1>1. Fresh \in States
  BY DEF Fresh, States
<1>2. Typed
  BY <1>1, RegistrationAssumption DEF Init, Typed
<1>3. ASSUME NEW n \in Node PROVE ProcessInv(n)
  <2>1. node[n] = Fresh
    BY DEF Init
  <2>2. QED
    BY <2>1 DEF Init, ProcessInv, Up, Fresh
<1>4. FlightInv /\ ~ recorded
  BY DEF Init, FlightInv
<1>5. QED
  BY <1>2, <1>3, <1>4 DEF IInv

\* A step that changes only process n, and sends nothing, keeps what holds of the
\* others and of what is in flight.
LEMMA OneProcess ==
  ASSUME IInv, NEW n \in Node, NEW s \in States,
         node' = [node EXCEPT ![n] = s],
         setting' = setting \/ (\E k \in Nat : setting' = [setting EXCEPT !.stops = k]),
         recorded' = recorded, joined \subseteq joined', joined' \subseteq Node,
         msgs' \subseteq msgs,
         ProcessInv(n)'
  PROVE  IInv'
<1>1. setting'.register = setting.register /\ setting'.teammates = setting.teammates
  BY DEF IInv, Typed
<1>2. Typed'
  BY DEF IInv, Typed
<1>3. \A m \in Node : Gathered(m) => Gathered(m)'
  BY <1>1 DEF Gathered
<1>4. ASSUME NEW m \in Node, m # n PROVE ProcessInv(m)'
  <2>1. node'[m] = node[m]
    BY <1>4 DEF IInv, Typed
  <2>2. QED
    BY <1>1, <1>3, <2>1 DEF IInv, ProcessInv, Up
<1>5. FlightInv'
  BY <1>3 DEF IInv, Typed, FlightInv
<1>6. recorded' => \E m \in Node : Gathered(m)'
  BY <1>3 DEF IInv
<1>7. QED
  BY <1>2, <1>4, <1>5, <1>6 DEF IInv

\* A step of the server or the network leaves the processes as they are; what it puts
\* in flight is an answer, which is a success only if the group is recorded.
LEMMA NoProcess ==
  ASSUME IInv, node' = node, joined' = joined,
         setting' = setting \/ (\E k \in Nat : setting' = [setting EXCEPT !.refusals = k]),
         NEW success \in BOOLEAN, NEW n \in Node, success => recorded',
         msgs' \subseteq msgs \cup {Response(n, success)},
         recorded' \in BOOLEAN, recorded => recorded',
         recorded' => \E m \in Node : Gathered(m)
  PROVE  IInv'
<1>1. setting'.register = setting.register /\ setting'.teammates = setting.teammates
  BY DEF IInv, Typed
<1>2. Typed'
  BY DEF IInv, Typed, Response
<1>3. \A m \in Node : Gathered(m)' <=> Gathered(m)
  BY <1>1 DEF Gathered
<1>4. \A m \in Node : ProcessInv(m)'
  BY <1>1, <1>3 DEF IInv, ProcessInv, Up
<1>5. FlightInv'
  BY <1>3 DEF IInv, Typed, FlightInv, Response
<1>6. QED
  BY <1>2, <1>3, <1>4, <1>5 DEF IInv

-----------------------------------------------------------------------------

\* The two starts: a process that refuses its arguments, and one that schedules the
\* task if it is to register.
LEMMA StartInv == ASSUME IInv, NEW n \in Node, Start(n) PROVE IInv'
<1>1. CASE BadArguments(n)
  <2> DEFINE s == [node[n] EXCEPT !.pc = "exited"]
  <2>1. node' = [node EXCEPT ![n] = s] /\ s \in States
    BY <1>1 DEF Start, IInv, Typed, States
  <2>2. ProcessInv(n)'
    BY <1>1 DEF Start, IInv, Typed, States, ProcessInv, Up, BadArguments
  <2>3. QED
    BY <2>1, <2>2, OneProcess, <1>1 DEF Start, IInv, Typed
<1>2. ASSUME ~ BadArguments(n), NEW s \in States, node' = [node EXCEPT ![n] = s],
             s.seen = node[n].seen, s.registered = node[n].registered,
             s.details = node[n].details,
             n \in setting.register => s.pc = "waiting" /\ s.task,
             n \notin setting.register => s.pc = "running" /\ ~ s.task
      PROVE  IInv'
  <2>1. node[n].pc = "down" /\ ProcessInv(n) /\ node'[n] = s
    BY <1>2 DEF Start, IInv, Typed
  <2>2. ~ s.registered /\ ~ s.details /\ s.seen \subseteq joined \ {n}
    BY <1>2, <2>1 DEF ProcessInv, Up
  <2>3. /\ joined' = joined \cup {n} /\ UNCHANGED <<msgs, recorded, setting>>
        /\ joined' \subseteq Node
    BY <1>2 DEF Start, IInv, Typed
  <2>4. ProcessInv(n)'
    BY <1>2, <2>1, <2>2, <2>3 DEF ProcessInv, Up
  <2>5. QED
    BY <1>2, <2>3, <2>4, OneProcess
<1>3. node[n] \in States /\ node[n].pc = "down" /\ (~ node[n].task)
  BY DEF Start, IInv, Typed, ProcessInv, Up
<1>4. CASE ~ BadArguments(n) /\ n \in setting.register
  <2> DEFINE s == [node[n] EXCEPT !.pc = "waiting", !.task = TRUE]
  <2>1. s \in States
    BY <1>3 DEF States
  <2>2. QED
    BY <1>2, <1>3, <1>4, <2>1 DEF Start, States
<1>5. CASE ~ BadArguments(n) /\ n \notin setting.register
  <2> DEFINE s == [node[n] EXCEPT !.pc = "running"]
  <2>1. s \in States
    BY <1>3 DEF States
  <2>2. QED
    BY <1>2, <1>3, <1>5, <2>1 DEF Start, States
<1>6. QED
  BY <1>1, <1>4, <1>5

\* Behind the gate all teammates have been seen, and so have been there.
LEMMA PassGateInv == ASSUME IInv, NEW n \in Node, PassGate(n) PROVE IInv'
<1> DEFINE s == [node[n] EXCEPT !.pc = "running", !.details = TRUE]
<1>1. node' = [node EXCEPT ![n] = s] /\ s \in States
  BY DEF PassGate, IInv, Typed, States
<1>2. n \in setting.register
  BY DEF PassGate, IInv, ProcessInv
<1>3. ProcessInv(n)'
  BY <1>2 DEF PassGate, AllSeen, IInv, Typed, States, ProcessInv, Gathered, Up
<1>4. QED
  BY <1>1, <1>3, OneProcess DEF PassGate, IInv, Typed

\* A request is sent behind the gate only.
LEMMA AttemptInv == ASSUME IInv, NEW n \in Node, Attempt(n) PROVE IInv'
<1>1. /\ node[n].task /\ Up(n) /\ n \in setting.register /\ ~ node[n].registered
      /\ UNCHANGED <<recorded, joined, setting>>
  BY DEF Attempt, IInv, ProcessInv
<1>2. node' = node
  <2>1. AfterAttempt(node[n]) = node[n]
    BY <1>1 DEF AfterAttempt, IInv, Typed, States
  <2>2. QED
    BY <2>1 DEF Attempt, IInv, Typed
<1>3. \A d \in msgs' : d \in msgs \/ (d = [type |-> "register", node |-> n] /\ Gathered(n))
  BY DEF Attempt, Requests, IInv, ProcessInv
<1>4. Typed'
  BY <1>1, <1>2, <1>3 DEF IInv, Typed
<1>5. \A m \in Node : Gathered(m)' <=> Gathered(m)
  BY <1>1 DEF Gathered
<1>6. \A m \in Node : ProcessInv(m)'
  BY <1>1, <1>2, <1>5 DEF IInv, ProcessInv, Up
<1>7. FlightInv'
  BY <1>1, <1>3, <1>5 DEF IInv, Typed, FlightInv
<1>8. QED
  BY <1>1, <1>4, <1>5, <1>6, <1>7 DEF IInv

\* A success in flight was sent by a server that has recorded the group.
LEMMA OnResponseInv ==
  ASSUME IInv, NEW n \in Node, NEW d \in msgs, NEW left \in After(d), OnResponse(n, d, left)
  PROVE  IInv'
<1> DEFINE s == Answered(node[n], d.success)
<1>1. d.success \in BOOLEAN /\ (d.success => recorded)
  BY DEF OnResponse, IInv, Typed, FlightInv
<1>2. node' = [node EXCEPT ![n] = s] /\ s \in States
  <2>1. node[n] \in States /\ node' = [node EXCEPT ![n] = s]
    BY DEF OnResponse, IInv, Typed
  <2>2. CASE d.success
    BY <2>1, <2>2 DEF Answered, States
  <2>3. CASE ~ d.success
    BY <2>1, <2>3 DEF Answered
  <2>4. QED
    BY <2>1, <2>2, <2>3
<1>3. ProcessInv(n)'
  BY <1>1, <1>2 DEF OnResponse, Answered, IInv, Typed, States, ProcessInv, Up, Gathered
<1>4. msgs' \subseteq msgs /\ UNCHANGED <<recorded, joined, setting>> /\ joined \subseteq Node
  BY DEF OnResponse, After, IInv, Typed
<1>5. QED
  BY <1>2, <1>3, <1>4, OneProcess

LEMMA StopInv == ASSUME IInv, NEW n \in Node, Stop(n) PROVE IInv'
<1>1. node' = [node EXCEPT ![n] = Fresh] /\ Fresh \in States
  BY DEF Stop, Fresh, States
<1>2. setting' = [setting EXCEPT !.stops = setting.stops - 1] /\ setting.stops - 1 \in Nat
  BY DEF Stop, IInv, Typed
<1>3. ProcessInv(n)'
  <2>1. node'[n] = Fresh
    BY <1>1 DEF IInv, Typed
  <2>2. QED
    BY <2>1 DEF ProcessInv, Up, Fresh
<1>4. \E k \in Nat : setting' = [setting EXCEPT !.stops = k]
  BY <1>2
<1>5. UNCHANGED <<msgs, recorded, joined>> /\ joined \subseteq Node
  BY DEF Stop, IInv, Typed
<1>6. QED
  BY <1>1, <1>3, <1>4, <1>5, OneProcess

LEMMA DiscoveryInv ==
  ASSUME IInv, NEW n \in Node, NEW p \in Node,
         Discover(n, p) \/ Forget(n, p) \/ FindServer(n)
  PROVE  IInv'
<1>1. ASSUME NEW s \in States, node' = [node EXCEPT ![n] = s],
             s.seen \subseteq joined \ {n}, s.pc = node[n].pc, s.details = node[n].details,
             s.registered = node[n].registered, s.task = node[n].task
      PROVE  IInv'
  <2>1. UNCHANGED <<msgs, recorded, joined, setting>> /\ node'[n] = s /\ joined \subseteq Node
    BY <1>1 DEF Discover, Forget, FindServer, IInv, Typed
  <2>2. ProcessInv(n)'
    BY <1>1, <2>1 DEF IInv, ProcessInv, Up, Gathered
  <2>3. QED
    BY <1>1, <2>1, <2>2, OneProcess
<1>2. ProcessInv(n) /\ node[n] \in States
  BY DEF IInv, Typed
<1>3. CASE Discover(n, p)
  <2> DEFINE s == [node[n] EXCEPT !.seen = node[n].seen \cup {p}]
  <2>1. p # n /\ p \in joined
    BY <1>3 DEF Discover, IInv, ProcessInv
  <2>2. s \in States /\ s.seen \subseteq joined \ {n}
    BY <1>2, <2>1 DEF States, ProcessInv
  <2>3. QED
    BY <1>1, <1>2, <1>3, <2>2 DEF Discover, States
<1>4. CASE Forget(n, p)
  <2> DEFINE s == [node[n] EXCEPT !.seen = node[n].seen \ {p}]
  <2>1. s \in States /\ s.seen \subseteq joined \ {n}
    BY <1>2 DEF States, ProcessInv
  <2>2. QED
    BY <1>1, <1>2, <1>4, <2>1 DEF Forget, States
<1>5. CASE FindServer(n)
  <2> DEFINE s == [node[n] EXCEPT !.server = TRUE]
  <2>1. s \in States /\ s.seen \subseteq joined \ {n}
    BY <1>2 DEF States, ProcessInv
  <2>2. QED
    BY <1>1, <1>2, <1>5, <2>1 DEF FindServer, States
<1>6. QED
  BY <1>3, <1>4, <1>5

LEMMA ServerInv ==
  ASSUME IInv, NEW d \in msgs, NEW left \in After(d), Accept(d, left) \/ Refuse(d, left)
  PROVE  IInv'
<1>1. left \subseteq msgs /\ d.node \in Node /\ Gathered(d.node)
  BY DEF After, Accept, Refuse, IInv, Typed, FlightInv
<1>2. CASE Accept(d, left)
  BY <1>1, <1>2, NoProcess DEF Accept, IInv, Typed
<1>3. CASE Refuse(d, left)
  <2>1. \E k \in Nat : setting' = [setting EXCEPT !.refusals = k]
    BY <1>3 DEF Refuse, IInv, Typed
  <2>2. /\ msgs' \subseteq msgs \cup {Response(d.node, FALSE)}
        /\ UNCHANGED <<node, joined, recorded>>
    BY <1>1, <1>3 DEF Refuse
  <2>3. recorded' \in BOOLEAN /\ (recorded' => \E n \in Node : Gathered(n))
    BY <2>2 DEF IInv, Typed
  <2>4. QED
    BY <1>1, <2>1, <2>2, <2>3, NoProcess
<1>4. QED
  BY <1>2, <1>3

LEMMA LoseInv == ASSUME IInv, NEW d \in msgs, Lose(d) PROVE IInv'
<1>1. d.node \in Node /\ FALSE \in BOOLEAN /\ msgs' \subseteq msgs \cup {Response(d.node, FALSE)}
  BY DEF Lose, IInv, Typed
<1>2. UNCHANGED <<node, joined, setting, recorded>>
  BY DEF Lose
<1>3. recorded' \in BOOLEAN /\ (recorded' => \E n \in Node : Gathered(n))
  BY <1>2 DEF IInv, Typed
<1>4. QED
  BY <1>1, <1>2, <1>3, NoProcess

LEMMA StutterInv == ASSUME IInv, UNCHANGED vars PROVE IInv'
<1>1. UNCHANGED <<node, msgs, recorded, joined, setting>>
  BY DEF vars
<1>2. Typed' /\ FlightInv'
  BY <1>1 DEF IInv, Typed, FlightInv, Gathered
<1>3. \A n \in Node : ProcessInv(n)' /\ (Gathered(n)' <=> Gathered(n))
  BY <1>1 DEF IInv, ProcessInv, Up, Gathered
<1>4. QED
  BY <1>1, <1>2, <1>3 DEF IInv

\* Every step keeps the invariant.
LEMMA NextInv == IInv /\ [Next]_vars => IInv'
<1> SUFFICES ASSUME IInv, [Next]_vars PROVE IInv'
  OBVIOUS
<1>1. ASSUME NEW n \in Node, Start(n) \/ PassGate(n) \/ Attempt(n) \/ Stop(n) \/ FindServer(n)
      PROVE IInv'
  BY <1>1, StartInv, PassGateInv, AttemptInv, StopInv, DiscoveryInv
<1>2. ASSUME NEW n \in Node, NEW p \in Node, Discover(n, p) \/ Forget(n, p) PROVE IInv'
  BY <1>2, DiscoveryInv
<1>3. ASSUME NEW n \in Node, NEW d \in msgs, NEW left \in After(d), OnResponse(n, d, left)
      PROVE IInv'
  BY <1>3, OnResponseInv
<1>4. ASSUME NEW d \in msgs, NEW left \in After(d), Accept(d, left) \/ Refuse(d, left)
      PROVE IInv'
  BY <1>4, ServerInv
<1>5. ASSUME NEW d \in msgs, Lose(d) PROVE IInv'
  BY <1>5, LoseInv
<1>6. CASE UNCHANGED vars
  BY <1>6, StutterInv
<1>7. QED
  BY <1>1, <1>2, <1>3, <1>4, <1>5, <1>6 DEF Next

\* The inductive invariant holds in every reachable state.
THEOREM Invariance == Spec => []IInv
  BY InitInv, NextInv, PTL DEF Spec

-----------------------------------------------------------------------------

\* The phases of a process, and when its registration task is scheduled (started,
\* attempt_registration, on_register_blockchain_response).
THEOREM TypeCorrect == Spec => []RegistrationTypeOK
<1>1. IInv => RegistrationTypeOK
  BY DEF IInv, Typed, States, ProcessInv, RegistrationTypeOK, Up
<1>2. QED
  BY <1>1, Invariance, PTL

\* The gate holds: the group is recorded only after a registrant and all its teammates
\* have been in the blockchain community (wait_for_teammates, main).
THEOREM GateHolds == Spec => []RecordedAfterAllJoined
<1>1. IInv => RecordedAfterAllJoined
  BY DEF IInv, Gathered, RecordedAfterAllJoined
<1>2. QED
  BY <1>1, Invariance, PTL

\* A node that holds itself registered is right, whatever the network does to the
\* answers (on_register_blockchain_response).
THEOREM RegistrationIsReal == Spec => []RegisteredIsRecorded
<1>1. IInv => RegisteredIsRecorded
  BY DEF IInv, ProcessInv, RegisteredIsRecorded
<1>2. QED
  BY <1>1, Invariance, PTL

\* Only the end of the process undoes a registration, and the attempts are over with
\* it (on_register_blockchain_response, attempt_registration).
THEOREM NeverUndone == Spec => StaysRegistered
<1> DEFINE Kept == \A n \in Node : node[n].registered /\ Up(n)' => node[n].registered' /\ ~ node[n].task'
<1>1. ASSUME IInv, IInv', [Next]_vars PROVE [Kept]_vars
  <2> SUFFICES ASSUME NEW n \in Node, node[n].registered, Up(n)', Next PROVE node'[n].registered
    BY <1>1 DEF IInv, ProcessInv
  <2>1. /\ node \in [Node -> States] /\ Up(n) /\ n \in Node /\ node[n] \in States
        /\ node[n].registered = TRUE
    BY <1>1 DEF IInv, Typed, ProcessInv, States
  <2>2. ASSUME NEW m \in Node,
               Start(m) \/ PassGate(m) \/ Attempt(m) \/ Stop(m) \/ FindServer(m)
        PROVE  node'[n].registered
    <3>1. CASE Start(m)
      BY <2>1, <3>1 DEF Start, Up
    <3>2. CASE PassGate(m)
      BY <2>1, <3>2 DEF PassGate, States
    <3>3. CASE Attempt(m)
      BY <2>1, <3>3 DEF Attempt, AfterAttempt, States
    <3>4. CASE Stop(m)
      BY <2>1, <3>4 DEF Stop, Up, Fresh
    <3>5. CASE FindServer(m)
      BY <2>1, <3>5 DEF FindServer, States
    <3>6. QED
      BY <2>2, <3>1, <3>2, <3>3, <3>4, <3>5
  <2>3. ASSUME NEW m \in Node, NEW p \in Node, Discover(m, p) \/ Forget(m, p)
        PROVE  node'[n].registered
    BY <2>1, <2>3 DEF Discover, Forget, States
  <2>4. ASSUME NEW m \in Node, NEW d \in msgs, NEW left \in After(d), OnResponse(m, d, left)
        PROVE  node'[n].registered
    <3>1. node' = [node EXCEPT ![m] = Answered(node[m], d.success)]
      BY <2>1, <2>4 DEF OnResponse
    <3>2. m = n => Answered(node[m], d.success).registered
      BY <2>1 DEF Answered, States
    <3>3. QED
      BY <2>1, <3>1, <3>2
  <2>5. ASSUME NEW d \in msgs,
               (\E left \in After(d) : Accept(d, left) \/ Refuse(d, left)) \/ Lose(d)
        PROVE  node'[n].registered
    BY <2>1, <2>5 DEF Accept, Refuse, Lose
  <2>6. QED
    BY <2>2, <2>3, <2>4, <2>5 DEF Next
<1>2. QED
  BY <1>1, Invariance, PTL DEF Spec, StaysRegistered
=============================================================================
