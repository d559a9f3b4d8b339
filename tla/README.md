# Specification of the blockchain group node

TLA+ models of the programs in this repository, their TLC configurations, and
TLAPS proofs. Paths such as `blockchain.py:60` are relative to the repository
root. Lab 2 has two clients: *the Lab 2 client* is
`assignment_1_2/assignment2_hristo.py`, and *the barrier client* is
`assignment_1_2/assignment2.py`.

## 1. The system

Three teammates each run a Lab 3 node (`run_node.py`): an IPv8 overlay over UDP
in which they mine blocks, gossip transactions and pull each other's chains. A
grading server submits transactions to the nodes and asks for heights and
blocks. Before that, in Lab 2, the same three people ran a client that collects
three signatures per round and submits them to a server, three rounds long.

All of it is single-threaded `asyncio`: a handler, or the stretch of a task
between two `await`s, runs to completion. The concurrency is in the order of
datagrams, timers and tasks, and between processes.

| Part | State | Operations | Talks to |
|---|---|---|---|
| `Mempool` (`mempool.py`) | `free_txs`, `chain_txs` | `add`, `remove_confirmed`, `move_from_chain` | called by `Blockchain`, the transaction handlers, the miner |
| `Blockchain` (`blockchain.py`) | block tree, heights, `tip`, `chain`, `chain_height` | `validate_block`, `add_block`, `reorganize`, `get_chain`, `find_fork_point` | updates the pool on every change of tip |
| `BlockchainCommunity` (`blockchain_community.py`) | orphan buffer, the miner's snapshot | `add_block` with `_connect_orphans`, `_mine_loop`, `_sync_step`, handlers of 7 messages | other nodes and the server, by datagrams that get lost, repeated, reordered |
| Block format and proof of work (`blockchain_utils.py`) | none | header packing with its range checks, hash, leading zeros, `mine_nonce`, body hash | used by all of the above |
| Registration (`registration_community.py`) | `registered`, the details to send | a task every 2 s, one response handler | the server; its details come from `run_node` |
| Start-up (`run_node.py`) | none | waits for teammates, then sets the details | both overlays |
| Lab 2 client | round state, peers, `waiting_challenge_round`, `rounds_completed` | a tick of 0.1 s with five retries, six handlers | two teammates and the server |
| Barrier client | peers, who is ready, round, signatures | a tick of 0.5 s that repeats Ready, five handlers that send everything once | the same |
| Lab 1 scripts (`mine_pow.py`, `submit_assignment1.py`) | a file with the nonce | nonce search, check, one submission | the server |

What is hard, and what makes each part correct:

* **Block tree.** Blocks arrive in any order, repeatedly, before their parents,
  some invalid. The fork choice is incremental, the chain is kept in two ways
  (extended in place, rebuilt by a reorganisation), and one block may connect a
  whole subtree of orphans. Correct: chain, tip and buffer are what a
  recomputation from the set of received blocks would give.
* **Pool.** Reorganisations move transactions back and forth. Correct: nothing
  accepted is forgotten, and confirmed means on the chain.
* **Mining.** The miner reads tip and pool, yields, and later builds on what it
  read. Correct: as long as the tip is the same, so are the transactions.
* **Sync and gossip.** Questions are answered from a chain that has changed
  since; only the tip hash decides who pulls at equal height; the buffer
  overflows; a node restarts from nothing. Correct: one tip in the end; a
  transaction gets to everybody and gossip dies out.
* **Block format.** The message carries signed 64-bit numbers, the header
  unsigned ones of 64 and 32 bits; nonces are searched in chunks that wrap
  around; leading zeros are counted in two ways. Correct: a hash names one
  header, a block passes through nodes unchanged, no nonce is left out, both
  counts are those of the number.
* **Registration and start-up.** The task runs before the gate of `main` is
  reached; requests are repeated, so that answers come late, repeatedly, in any
  order, or to the process after a restart. Correct: nobody registers a group
  that is not there, a success stays, the attempts end.
* **Lab 2.** Timers repeat what may have been answered, each nonce replaces the
  round state, and only a submitter hears that its round is over. The barrier
  client has no timers but that of Ready: it depends on the order in which
  things arrive. Correct: the group gets through, and never submits a mix of
  rounds.

The list of hazards with their lines is in `PROJECT.json`.

## 2. The modules

```
Mempool <- Blockchain <- ChainNode <- MCChainNode <- MCSpoiltNode
           Blockchain <- BlockchainCommunity <- MCCommunity
Ledger (abstract; instantiated by ChainNode, its refinement)
SigningServer <- GroupSigning <- MCGroupSigning
SigningServer <- ReadySigning
Registration <- MCRegistration
BlockFormat <- ProofOfWork <- MCProofOfWork

Blockchain <- NodeProofs
NodeProofs, ChainNode <- ChainNodeProofs
NodeProofs, BlockchainCommunity <- CommunityProofs
GroupSigning <- GroupSigningProofs <- GroupPursuitProofs
ReadySigning <- ReadySigningProofs
Registration <- RegistrationProofs
ProofOfWork <- ProofOfWorkProofs
```

* **`Mempool`, `Blockchain`** hold the operations as operators on records, so
  that one node and a group of nodes share them. `IntegrateBlock` is
  `BlockchainCommunity.add_block`; its worklist loop is the recursive function
  `run` in `ConnectOrphans`, one `ConnectStep` per turn. The walks over parent
  links are defined as least closed sets (`Ancestors`), which can be reasoned
  about, and not by recursion; `GetChain` puts them in order. Hashes are
  integers, because the fork choice compares them; SHA-256 is taken to be
  injective; a body is a set of txids.
* **`ChainNode`** is one node whose network is arbitrary: `world` is any set of
  blocks from `Worlds`, each of which may arrive at any time, any number of
  times or never.
* **`Ledger`** is what a node promises about blocks: the tree is the set of
  received blocks connected to genesis, and the tip is the best of them. There
  are no orphans, no incremental steps, no reorganisations in it.
* **`BlockchainCommunity`** has `Node` many nodes, their miners and the
  datagrams. `MineStart`, `MineAbort` and `MineBlock` are the stretches of
  `_mine_loop` between its `sleep`s; `SyncStep` is the poll; each handler is an
  action. `Restart` is a crash: nothing is on disk. Who runs a node, what the
  miners can find and how many crashes there are is the variable `setting`,
  chosen at the start from the constant `Settings`, so that one run goes through
  several scenarios. `Registration`, `ProofOfWork` and `GroupSigning` do the
  same (`setting`, `bounds`).
* **`SigningServer`** is the Lab 2 server as the assignment describes it, and
  the network; both clients extend it and share `BundleIsWhole`.
* **`GroupSigning`** is the Lab 2 client, `GroupSize` times. `Tick` is the whole
  of `tick`, discovery and the five retries included; `due` are the retries
  whose interval is over. It may come at any time, with anything in flight, as
  the task of 0.1 s does; `bounds.disorder` is how many ticks may come before
  what was sent is answered or lost, or find only some of their intervals over,
  and how many datagrams may overtake one of an earlier round. `putback` is a
  history variable: who has gone back to an earlier round.
* **`ReadySigning`** is the barrier client. `Tick` finds any set of peers and
  then does what `tick` does; `Signed` and `Share` are `handle_nonce`, the state
  after it and the share it sends; `OnSignatureShare` includes
  `submit_if_ready`. The variable `order` says whether the share and the nonce
  that `on_challenge_response` sends to one member arrive in the order sent, or
  swapped.
* **`Registration`** is the start of a node (`Start`), its gate (`PassGate`),
  the periodic `Attempt` and the response handler, with restarts. A command line
  is who registers, with which keys.
* **`BlockFormat`** has the pure functions of `blockchain_utils` and `mine_pow`,
  with the sizes of bytes, hashes and fields as constants. Digests are
  identified with what was hashed where only their identity matters; where
  leading zeros are counted, any digest may come out. **`ProofOfWork`** puts
  them to use: the chunked search of `_mine_loop`, blocks that nodes find, serve
  and take, blocks from other programs with any numbers the message can carry,
  and the Lab 1 scripts. `Blockchain` abstracts from this by `zeros` and by
  integer hashes; `HashNamesHeader` and `MinedMeetsTarget` are what makes that
  sound.
* The lemmas and theorems are in modules of their own. **`NodeProofs`** is first
  about walks in a tree, then about the operations of one node; both
  **`ChainNodeProofs`** and **`CommunityProofs`** rest on it.
  **`RegistrationProofs`, `ReadySigningProofs`** and **`ProofOfWorkProofs`**
  stand beside their modules. **`GroupSigningProofs`** has what the Lab 2 client
  keeps whatever happens, **`GroupPursuitProofs`** who pursues a live challenge
  and what an acknowledgement is worth.
* `MC*` modules define the sets of blocks and hashes for TLC. Operators called
  `X_something` with a comment "Mutated" are faulty variants of `X`, used to see
  that a property notices the fault; nothing else refers to them.

## 3. The runs

| Run | Asks | Instance |
|---|---|---|
| `node_tree` | do chain, tip, buffer and pool stay consistent (`ChainIsPathToTip`, `TipIsBest`, `NoOrphanWithKnownParent`, `BufferedIsNotStored`, `ConfirmedIsOnChain`, `AcceptedTxKept`, `TypeOK`) | every tree of 4 blocks with every order of hashes and every choice of bodies over 1 transaction; buffer of 2 |
| `node_ledger` | does the node implement `Ledger` | every tree of 4 blocks, at most one of them invalid in any of 4 ways; buffer that does not overflow |
| `net_lossy` | `MinedBodyStillFree`, `RelayOnce`, `ToldHeightIsServed`, `NetworkTypeOK` | 2 nodes, a block each and 1 transaction, or 3 blocks between them; buffer of 1; datagrams lost, repeated, reordered |
| `net_agree` | `Convergence`, `TxSpreads` | 3 nodes, a block each, mined apart; 2 nodes with forks of depth 2, window 1, buffer of 1 and a crash at any moment; 2 nodes that each mine a block at any moment; 2 nodes, 1 transaction and a block mined at any moment, also after the network is linked |
| `group_rounds` | `ChallengePursued`, `AckedIsHeld`, `BundleIsWhole`, `CompletesUndisturbed`, `GroupTypeOK` | 3 members, 3 rounds; any order of discovery and 1 datagram lost, or all found and 1 tick or datagram out of turn |
| `ready_rounds` | `BundleIsWhole`, `StartsTogether`, `NothingLeftToSubmit`, `CompletesWhenSwapped`, `StallsInSendOrder`, `ReadyTypeOK` | 3 members, 3 rounds, any order of discovery, 1 datagram lost or out of order, both settings of `order` |
| `registration` | `RecordedAfterAllJoined`, `RegisteredIsRecorded`, `StaysRegistered`, `RegistersIfNamed`, `FallsSilent`, `RegistrationTypeOK` | 3 nodes; one registrant with 2 restarts and 2 refusals; two registrants; the own key among the teammates; a command line with one key |
| `pow_format` | `HashNamesHeader`, `RelayFaithful`, `ServedIsTaken`, `MinedMeetsTarget`, `LabMeetsTarget`, `NothingSkipped`, `PowTypeOK` | bytes of 2 bits, longs of 2 bytes, ints of 1; 2 nodes; a chunk that does not divide the nonces |
| `finding_*` | one property each that the code breaks, see section 6 | |

Why the bounds are enough. Four blocks give every shape the tree code
distinguishes: a side branch that overtakes, ties broken by the hash both ways,
a fork point that is not genesis, orphans of orphans, two orphans of one parent,
a reorganisation caused by a connected orphan. A buffer of 2 overflows with 4
blocks. In the runs of several nodes the window, the batch and the buffer are 0
or 1, so that a fork of depth 2 and one batch already lie across each of them;
the constants of the code (16, 256 and 4096) differ only in where the same
boundary is. The Lab 2 runs have the real sizes. One tick out of turn is enough
for either kind of harm that section 6 shows; one datagram out of turn for a
nonce or a signature that arrives after its round. The node runs with one
transaction suffice for properties that speak of one transaction at a time.
Registration has the real number of nodes. In `pow_format` bytes, fields and
chunk are as small as they can be with every boundary still there: numbers below
zero, between the signed and the unsigned maximum and above the 32-bit field, a
digest that is zero or has its first bit in any place, a last chunk that wraps
around.

Bounds on the behaviours: `finds`, `txs`, `late` and `crashes` of a network's
setting, `stops` and `refusals` of a registration's, the four `bounds` of
`ProofOfWork`, the three `bounds` of `GroupSigning`, and `MaxFaults`. With the
reliable network a poll waits until nothing is in flight. A tick of a Lab 2
client misses at most `bounds.missing` peers, or `MaxMissing` for the barrier
client.

`CHECK_DEADLOCK` is turned off where everything may really stop: in
`registration`, once the group is registered and every datagram is gone; and in
`group_rounds` and `finding_group`, once every client has finished, which
rejected resends bring about. No other run reaches a state in which every
process has stopped.

### Fairness

* `BlockchainCommunity`: the poll is a task with an interval, `SF(SyncStep(n))`.
  It is strong because the bound "nothing in flight" disables it now and then;
  in the code it is never disabled. Datagrams sent after `Link` are delivered,
  `WF(Delivery)`, written out with its enabling condition, since `Delivery` is
  enabled exactly when something is in flight. Without eventual delivery UDP
  code can promise no convergence. Miners have no fairness.
* `GroupSigning`: every member ticks for ever until it is finished, finds the
  others, and its timers run out (`SF` of that tick, strong because
  `bounds.disorder` disables it now and then while something is in flight); what
  is in flight is delivered or lost (`WF(Deliver)`), and at most `bounds.losses`
  are lost.
* `ReadySigning`: ticks go on for ever and find every peer (`SF` of the tick
  that finds all that are missing); what is in flight is delivered, Readys that
  say something new (`WF`, since repeated ones could crowd each other out) and
  everything else (`WF`).
* `Registration`: a stopped node is started again, peers and server are found,
  gate and task are polled (`WF`); a request that is sent again and again is
  accepted one day, and a success that is sent again and again arrives (`SF`).
  Losses have no bound.

## 4. What is proved

By TLAPS, for every value of the constants.

| Module | Theorem | Property |
|---|---|---|
| `ChainNodeProofs` | `Invariance` | `[]Inv`, the inductive invariant |
| | `TypeCorrect` | `TypeOK` |
| | `BestTip` | `TipIsBest` |
| | `OrphansConnected` | `NoOrphanWithKnownParent` |
| | `BufferedAreNews` | `BufferedIsNotStored` |
| | `ChainIsPath` | `ChainIsPathToTip` |
| | `ConfirmedOnChain` | `ConfirmedIsOnChain` |
| | `TxKept` | `AcceptedTxKept` |
| | `LedgerImplemented` | `ImplementsLedger`, while there is `Room`, in `HonestWorlds` |
| `CommunityProofs` | `NetInvariance` | `[]NetInv`, the inductive invariant |
| | `NetworkTyped` | `NetworkTypeOK` |
| | `MinedBodyFree` | `MinedBodyStillFree` |
| | `RelayedOnce` | `RelayOnce` |
| | `ToldHeightServed` | `ToldHeightIsServed` |
| `RegistrationProofs` | `Invariance` | `[]IInv`, the inductive invariant |
| | `TypeCorrect` | `RegistrationTypeOK` |
| | `GateHolds` | `RecordedAfterAllJoined` |
| | `RegistrationIsReal` | `RegisteredIsRecorded` |
| | `NeverUndone` | `StaysRegistered` |
| `GroupSigningProofs` | `GroupInvariance` | `[]IInv`, the inductive invariant |
| | `GroupTyped` | `GroupTypeOK` |
| | `BundlesWhole` | `BundleIsWhole` |
| | `GroupGrounded` | `[]Grounded`, the second invariant |
| `GroupPursuitProofs` | `GroupPursues` | `[]PInv`, the third invariant |
| | `ChallengesPursued` | `ChallengePursued` |
| | `AcksHold` | `AckedIsHeld` |
| `ReadySigningProofs` | `Invariance` | `[]IInv`, the inductive invariant |
| | `TypeCorrect` | `ReadyTypeOK` |
| | `BundlesAreWhole` | `BundleIsWhole` |
| | `BarrierHolds` | `StartsTogether` |
| | `NothingIsLeft` | `NothingLeftToSubmit` |
| | `GroupStalls` | `StallsInSendOrder` |
| `ProofOfWorkProofs` | `PowInvariance` | `[]PowInv`, the inductive invariant |
| | `PowTyped` | `PowTypeOK` |
| | `NothingIsSkipped` | `NothingSkipped` |
| | `HeadersNamed` | `HashNamesHeader` |
| | `RelaysFaithfully` | `RelayFaithful` |
| | `ServedTaken` | `ServedIsTaken` |
| | `MinedMeets` | `MinedMeetsTarget` |
| | `LabMeets` | `LabMeetsTarget` |

**The node**: any set of blocks, valid or not, any capacity of the buffer, any
transactions. Assumptions: hashes are integers and the bounds of config.py
natural numbers (`BlockchainAssumption`), and worlds are sets of blocks in which
a hash identifies its header (`WorldsAssumption`).

The argument. The properties are not inductive: that the tip stays best needs
the heights to be those of the parent paths, that the chain is a path needs
every block's walk to end in genesis. The invariant of a node, `NodeInv`,
therefore adds a tree part (every stored block but genesis has a stored parent
one level below, and genesis is on every walk) and a node part (the tip's bound,
the chain as `GetChain` of the tip, the pool against the chain, the buffer). The
first part of `NodeProofs` proves what the walks do when a block is put on the
tree: existing paths stay, the new path is the parent's and one more
(`AncestorsPut`, `TreeInvPut`); the path has one block per level
(`GetChainLevels`); two walks meet in a fork point (`ForkPointMeets`). The rest
takes it through `ExtendTip` and `Reorganize` to `AddBlock`, then through the
worklist: `ConnectStepInv` says that a turn keeps the invariant for all orphans
except those of parents still on the worklist, and that a measure decreases;
`RunInv` follows the turns to an empty worklist, which gives `OrphansConnected`,
and with it `BufferedAreNews`: a stored block has a stored parent, so that no
orphan has its hash. `NodeProofs` also proves what a call leaves behind of what
was there before: `Grows`, that nothing stored or accepted is lost, that the tip
only gets better and that a tip once left is never taken up again; and
`Complete`, that while there is room no block received is dropped.

**The refinement.** `LedgerImplemented` is `Spec /\ []Room => ImplementsLedger`.
Its invariant `LedgerInv` adds to `Inv` that every block received is on the
tree, in the buffer, or not fit to be stored. From this and `OrphansConnected`,
`TreeIsConnected` shows that the tree is exactly what `Ledger` calls connected,
`HeightIsDepth` that the recorded heights are its depths, and `TipIsBestOfAll`
that the tip is its choice; a step of the node then is a step of the ledger or
none (`LedgerStep`). Both hypotheses are needed. Without `Room` blocks are
dropped and have to come again. `HonestWorlds` says that parent links run in no
circle, which is what a hash over the parent's hash gives, and that a header has
one body: the buffer is keyed by the header's hash, so that an orphan with a
wrong body can take the place of the right one, which is then asked for again
only by chance. Both hold in the worlds of `node_ledger`, where TLC checks
`HonestWorlds` as `SpoiltAssumption`, and the buffer has room for all blocks.

**The group of nodes**: any nodes, miners, transactions, crashes, windows and
buffers, both kinds of network. `NetInv` gives every node the `NodeInv` of one
node, with the blocks mined so far (and genesis, which peers serve too) for the
world. A miner's snapshot is consistent as long as its parent is the tip: since
a handler only grows its node, a tip that is still there was never left, and
then the free transactions have only become more (`TipNotResumed`,
`IntegrateConserves`). Messages carry blocks that were mined and, without a
crash, heights below the end of their sender's chain. `RelayOnce` is not
inductive by itself; with "what was relayed is known" (`RelaysOK`) it follows,
because nothing known is forgotten. `ToldHeightIsServed` speaks of executions up
to the first crash: a node that restarts has told heights it does not have.

**Registration**: any set of nodes, any command lines, any number of restarts
and refusals. That `recorded` implies a gathered group is not inductive, because
between the gate and the server there is a request in flight, and the registrant
may have stopped meanwhile. The invariant says of every request in flight that
its sender's group has gathered (which, being about the past, stays true), of
every success in flight that the group is recorded, and of each process which of
its fields go with which phase. `OneProcess` and `NoProcess` say what is to be
shown of a step that changes one process, or none; a lemma for each action
follows.

**The Lab 2 client**: everything is for any size of the group and number of
rounds, with ticks at any time and any number of datagrams lost or out of order,
so that the retries may overtake what they repeat. The invariant says of each
member that its signatures are all of its round and its own is among them, and
of each datagram what was true when it was sent and stays so: a signature is its
sender's over the nonce of its round, a bundle is whole, a result that records
is of the last round recorded then. `Grounded` says that who is in a round or
waits for one is in a group, who speaks to the server has found it, who holds a
signature knows its signer, and the submitters of the rounds recorded are known
to everybody.

Retries do harm in two ways (section 6): a stale relay makes a member that is
ahead of the others go back to an earlier round, and a resent bundle makes its
sender stop. `Undisturbed` says that neither has happened to anybody, and
`putback` to whom the first has; no bound on when a client ticks, and none on
what it finds in flight, is assumed. `ChallengePursued` holds after one loss as
long as the execution is undisturbed; two losses can take the success and the
challenge that followed it on a duplicate. `AckedIsHeld` needs no bound on
losses and speaks of every submitter that has not gone back itself.

`PInv` has two parts. `Order` holds whatever happens: nobody is in a round, and
no nonce or bundle of a round is in flight, that the server has not handed out
(`NoneAhead`); a result that makes its receiver ask for a nonce goes to the
submitter of its round (`Verdicts`), and no two rounds recorded have the same
submitter (`OneTurn`, from the server's rule); without losses, the submitter of
the last round knows that it is over, or the success is on its way (`Heard`);
who sends an acknowledgement has the signature (`AcksHeld`). `Pursuit` holds as
long as nobody has gone back: whoever has heard of the live nonce has it from a
member that has it from the server (`SeenIsHeld`), for nobody leaves the live
round but by going back; the member whose turn it is to ask, `Asker`, waits for
the nonce or has it (`FirstIsAsked`, `NextIsAsked`), for nothing but a result of
the last round, or the nonce itself, changes what it waits for (`AsksKept`).
From these, `LiveIsPursued` survives a loss (`LossPursuit`): of the challenge
and the success only one can be lost, and if the success was heard, the asker
asks. `ChallengePursued` alone is not inductive: without `SeenIsHeld` a relayed
nonce could end the asker's wait with nobody there to relay it again. A lemma
for each stretch of `tick` and for each handler says what it sends and which
fields it changes (`...Moves`); `Steps` sums up what all of them have in common,
`Serves` what the server does, and each conjunct is shown once for either.

**The barrier client**: groups of two or more, any number of rounds they can
submit, any number of faults, any order of delivery. `BundleIsWhole` needs to
know what each share in flight is a signature of, and that all signatures a
member holds are of its round. `NothingLeftToSubmit` needs that the submitter's
own signature is there before any other, so that the set is completed by a share
of somebody else, and that the server has been found by then; this is where the
barrier comes in: who is ready, or says so, has found everybody, and nothing but
Readys is in flight before member 0 has heard from all. `MemberStep`,
`HandlerStep` and `ServerStep` reduce the invariant to the state of one member
and to what it sends; `SignersMakeWhole` relates the count of signers to the set
of signatures.

`GroupStalls` is a safety property that shows a failure: the invariant `Stuck`
says that, in the order of sending, the share that member 1 needs for round two
is in flight only while member 1 is not yet in that round, that member 0 has
sent it before the nonce and will not again, and that member 1 in round two does
not hold it. So no bundle of round two is ever sent.

**Block format and proof of work**: bytes of any number of bits, hashes and
fields of any width as long as an int is narrower than a long, any chunk, any
digests, any messages from other programs. `PowInv` says of a held block that it
can be packed and of which message it is, or which digest it was found with; the
properties are then facts about the operators:

* `BigEndianInjective`: the bytes of a number determine it, by the uniqueness of
  quotient and remainder, byte after byte (`NextByte`); `ConcatCancel` takes the
  header apart, so `PackHeaderInjective`.
* `JoinOfSplit`, `SplitOfJoin`: where each byte of each hash is in the joined
  bytes (`Joined`, `Places`). `FlattenSeq` is a fold whose value is the last of
  the concatenations of the beginnings (`FlattenSeqConcats`), which exist by
  well-founded induction on their number (`ConcatsExist`).
* `LeadingZerosMeet`: the number of a digest is a sum over a set, proved to be
  the size of a set of numbers, a slice for each byte (`NumberIsSize`,
  `SlicesDisjoint`); with the first n bits zero all slices lie below the target.
  `CountsAgree`: both counts end at the highest bit of the first byte that is
  not zero.
* `ChunkTries`: a chunk tries exactly its own nonces, and the last one, which
  wraps around, all that are left.

What the prover does not know of powers of two (it treats `2 ^ n` with a
variable exponent as unknown) is derived from the sizes of power sets
(`PowerPositive`, `PowerSum`). The induction theorems of the library take an
operator; these proofs use instead that a non-empty set of natural numbers has a
least element (`LeastNatural`, from the well-foundedness of `<`) and argue about
the least counterexample.

Only model-checked: the liveness properties `Convergence`, `TxSpreads`,
`CompletesUndisturbed`, `CompletesWhenSwapped`, `RegistersIfNamed` and
`FallsSilent`, because the prover does not reason about fairness and ENABLED.
Every invariant and every action property of a passing run is a theorem, the
refinement included.

## 5. What is not modelled

* Payload checks: signatures, key and length checks, peers that are not
  approved. They drop a message without an effect; handlers here start where
  they have passed.
* In `Blockchain`, the block format: `zeros` and `txs_hash` stand for the
  results of `has_valid_pow` and `is_body_hash_valid`. SHA-256 itself, whose
  collisions nothing here considers.
* Fields that are written and never read: `children`, `tx_order`,
  `peer_heights`, `last_tx_response`.
* Command-line parsing except the check of a registrant's keys, the IPv8
  configuration, reading and writing of key and result files, everything
  printed. The one Lab 1 submission: sent once, answered or not.
* In the Lab 2 modules, the 10-second budget: the question is whether the group
  gets there at all. The server is external; two of its reasons to reject a
  bundle may apply at once, and either may be given.

## 6. Disagreements between the code and what it says of itself

* `finding_freetx`: `remove_confirmed` (`mempool.py:42`) records as confirmed
  only what is free. A transaction that arrives after its block becomes free,
  and is mined twice.
* `finding_dedup`: `add_block` (`blockchain_community.py:248`) looks for the
  parent before it looks for the block, so that genesis, whose parent nobody
  has, takes a place in the orphan buffer for good whenever height 0 is fetched.
  It is the only such block: see `BufferedIsNotStored`.
* `finding_deepfork`: `_fetch_from` never asks more than `SYNC_DOWN_WINDOW`
  below its own height. Two branches both longer than the window by two never
  meet again.
* `finding_group`: a tick that comes while a nonce is on its way makes the group
  stand still for ever, with nothing lost. Counting members from 1: nonce 3 has
  reached member 2, who asked for it, and member 3, who has acknowledged member
  2's signature; on its way to member 1 it is still in flight. Member 1 has
  nonce 2 from the server and has heard of no result, so that its tick relays
  nonce 2 once more (lines 261-271 of the Lab 2 client). Member 3 has heard of
  no result either: `install_nonce` (lines 320-331) replaces its round state by
  that of round 2, and member 2 never sends the acknowledged signature again
  (line 280). Member 3 returns to round 3 and waits for it. A lost relay of
  nonce 3 to member 1 leads to the same.

Seen while modelling and not given a run of their own. A tick of the Lab 2
client that comes while the result of a bundle is on its way sends the bundle
again (lines 306-309); if the result overtakes the resent bundle and the next
challenge has been requested when that arrives, the answer is "wrong round
number" or "submitter already used", and the client stops for good (lines
525-531), although the comment at line 297 says that the server makes duplicates
harmless. `StopsOnlyWhenOver`, checked as an invariant with the constants of
`finding_group.cfg`, shows it with nothing lost; it is half of `Undisturbed` for
this reason. Losing a result and the challenge that follows it leads to the
same. On a network that keeps the order of datagrams the barrier client never
gets past round one: `on_challenge_response` (line 202) lets `handle_nonce` send
the requester's share before it relays the nonce to the same member, whose
`on_signature_share` (line 224) drops a share of a round it has not entered,
though its comment (line 216) says "submit if we are the submitter and have all
signatures"; the share is never sent again. `ready_rounds` shows it as
`StallsInSendOrder`, and the completion when the two arrive swapped as
`CompletesWhenSwapped`. A member stops repeating Ready once it has heard the
others (line 127), whether or not they have heard it. A block mined with a nonce
of 2^63 or more can be put in no message (`BlockResponsePayload` has signed
fields, `_mine_loop` searches unsigned ones), so that its miner keeps it to
itself; far out of the reach of the search with a difficulty of config.py. A
registrant that is given its own key as a teammate's waits for ever
(`run_node.py:71` counts keys only). `_gossip_transaction` also pushes
transactions to the grading server, which `blockchain_community.py:123` says the
node never does; `_connect_orphans` relies on a validation "when buffered" (line
235) which `add_block` does not make (harmless: `Blockchain.add_block` makes
it).

## 7. Plan

Done: models, runs and proofs of the node with its refinement, the group of
nodes, both Lab 2 clients, registration and start-up, block format and proof of
work. What could follow:

1. `RelayOnce`-like bounds for the sync messages: that a lossless network with
   no new blocks falls silent but for the polls.
2. For the Lab 2 client, that in undisturbed executions every signature missing
   from the submitter is still offered by its signer: the safety part of
   `CompletesUndisturbed`.
