# Verification of libp2p-v4-swap-agents

TLA+ models of the swap agents in `src/`, the TLC configurations that check them
on small instances, and TLAPS proofs that hold for every instance.

## The system

An agent is one Rust process with one task: a loop (`agent/src/main.rs`) that
takes, one at a time, an operator's command, a gossip event, or a 30-second
timer. A command that swaps only leaves a *pending swap*: the loop then handles
gossip for 500 ms, so that the intent it announced gets out, evaluates the swap's
conditions, awaits the swap, and goes back to its three sources. Agents share
nothing but a gossipsub topic and a chain.

| Component | State | Operations | What makes it correct |
|---|---|---|---|
| Coordinated swaps (`coordination.rs`, `main.rs`) | `CoordinationBook`: id -> proposal, status | `propose`, `accept`, `proposals`; handlers of SwapProposal, SwapAcceptance, SwapFill; expiry in the refresh | statuses and fills name swaps that were made; one swap per agent and proposal; everything settles |
| Event loop, deferred swap (`main.rs`) | `pending_swap`, timer | `intent`, `swap*`, `cswap`; flush window, conditions, execution | the entry of a pending swap stays as it was accepted; a swap ends |
| Reputation (`reputation.rs`) | `ReputationStore`: peer -> counters, last activity | `record_*`, `cleanup_stale_peers`, score, trust level | counts are honest, penalties accounted for; a reliable peer stays known |
| Request for quotes (`quotes.rs`, `main.rs`) | `QuoteBook`: id -> request, status, responses | `quote`, `respond`, `accept-quote`, `quotes`; three handlers; expiry | status in step with responses; an agent accepts once; acceptances name real responses |
| Gossip (`network.rs`) | library: messages, duplicate cache | publish, deliver | (environment) |
| Peer scores (P5), identity (`identity.rs`, `main.rs`) | `PeerRegistry`; a score per peer inside gossipsub | attestation, `set_application_score`, refresh | gossipsub ranks no peer above its score |
| Swap execution (`uniswap.rs`, `sim.rs`) | mode, end point, the awaited transaction | approve, read balance, send, await receipt, read balance, report; `sim`, `swap*`, `cswap` | what is reported was mined or simulated; the loop returns |
| MEV protection (`mev.rs`) | slippage tolerance, own events, what peers' alerts add up to | `mev-config`, floor, slippage, alert; handler of MevAlert | an alert has a reason; no peer is made worse than it is |
| Archival (`archival.rs`, `sidecar/`) | log buffer; pieces stored | log, `archive`, `retrieve`; upload | no entry is lost without an error, or stored twice |
| Hooks (`contracts/src`) | swap counts per pool and agent | before/after swap | counts agree; rebate after five swaps, and not before |
| Connectivity, CLI, scripts | libp2p's own; flags | dial, mDNS, flags | |

Hard to test here: orders of gossip that nobody wrote a test for (an acceptance
after the expiry, a fill before the acceptance); two acceptors at once; the flush
window between check and swap; clocks that differ around an expiry; a swap that is
mined but reported failed, or mined after it was given up; a receipt of a reverted swap,
or none ever; an upload that outlives the wait for it; penalties, caps and decay that meet after days.
`PROJECT.json` lists each hazard at its line, with the properties that cover it.

## Modules

| Module | Stands for | Notes |
|---|---|---|
| `Reputation` | record, score, penalties, trust levels, updates | constant operators only |
| `Gossip` | the network | `msgs`, `rcvd`; extended by the protocol modules and `SwapExecution` |
| `Coordination` | coordinated swaps, pending swap, refresh | extends `Gossip`, `Reputation`; one action per command, handler and outcome |
| `Commitment` | what coordination promises | abstract; `Coordination` implements it (`KeepsPromise`) |
| `CoordinationProofs` | theorems about statuses, swaps and the pending swap of `Coordination` | TLAPS |
| `ReputationProofs` | theorems about what `Coordination`'s stores count | TLAPS; extends `CoordinationProofs` |
| `CommitmentProofs` | the steps of `Coordination` as steps of `Commitment` | TLAPS; extends `CoordinationProofs` |
| `Quotes` | request for quotes | extends `Gossip`, `Reputation` |
| `QuotesProofs` | theorems about `Quotes` | TLAPS |
| `PeerScoring` | one store, registry and P5 over days | extends `Reputation` |
| `PeerScoringProofs` | theorems about the composite score and `PeerScoring` | TLAPS |
| `Mev` | slippage floor, realised slippage, sandwich test, peer statistics | constant operators only |
| `MevProofs` | theorems about `Mev` | TLAPS |
| `AgentCounters` | both hook contracts | counts and fees; operators on its variables |
| `Archival` | log buffer, flush, sidecar | operators on its variables, and its own properties |
| `ArchivalProofs` | lemmas about one archive, whatever it logs | TLAPS |
| `SwapExecution` | modes, `sim`, `mev-config`, `swap*`, `cswap`, `archive`, the awaits of a swap, the chain, alerts | extends `Gossip`, `Mev`, `AgentCounters`, `Archival`, which it composes |
| `Settlement` | what becomes of the swaps an agent sends | abstract; `SwapExecution` implements it (`SettlesSwaps`) |
| `SwapExecutionProofs` | theorems about `SwapExecution`, and its steps as steps of `Settlement` | TLAPS; extends `ArchivalProofs`, `MevProofs` |
| `MCCoordination`, `MCQuotes`, `MCSwapExecution` | instances for TLC | who has met, symmetry, clocks; who swaps how often |

How state corresponds: `book[a]` is agent `a`'s book, `rep[a][p]` its record of `p`
(one without activity scores 0.0, as a missing one does), `pending[a]` the
loop's `pending_swap`, `msgs` every message the network took, `rcvd[a]` those `a`
has handled, `ledger` the swaps made: mined, successfully or
reverted, or simulated. An action is one pass of the
loop: the whole command or the whole handler. A command is enabled only when the
agent is `Idle`, because the loop reads no input while a swap is pending;
handlers are always enabled, as the flush window polls the swarm. (The loop does
not poll it while it awaits the RPC node; messages then wait, which the model has as
a delay.)

In `SwapExecution` an await is a place where the chain, the sidecar and the network move.
`swap[a]` is the `PendingSwap` and how far it got: `"window"` (the 500 ms), `"measured"` (approved,
first balance read), `"sent"` (receipt awaited). `mempool` and `mined` are the chain, `gained[a]` is
what the second balance query would find above the first one, `stray[a]` the part of it that is
not the swap's (history, for `MeasuredIsOwn`). `flushing[a]` is the batch whose answer `archive`
awaits; while it does the agent is not `Idle`, as the loop awaits every command. `clock[a]`
makes every log entry different, as its timestamp does.

Names of the code are kept (`Accept`, `RecvSwapFill`, `UpdateStatus`, `NewlyExpired`,
`PenaltyScore`). The operators next to a definition whose name says what they
change (`RefreshUnmarked`, `AcceptUnlessExpired`, ...) are the variants each property
has been seen to reject; no specification uses them. Mutants that the properties
reject are listed in `PROJECT.json`.

### Abstractions

- Scores are integers in units of 1/10000, so every weight and threshold of the
  source is exact; recency is rounded to whole half-lives. In `Coordination`, which spans a minute
  or two, each look at a score for a gate or for trust may see up to `MaxDecay` less than the full
  recency: 0 within the second of the last activity, then 1/10000 for 83 s. So a gate that
  equals the undecayed score may pass when an operator accepts and fail when the next one does. In `Quotes`
  recency does not decay: a score is only compared with Unknown (0) there, and its counters move it by a
  hundredth of the scale or more, so what a minute takes from recency decides nothing.
- An id is its author and the second it was made in, as in the code. The six
  characters of the peer id in it are taken to be unique.
  Two proposals, or two quotes, of one operator in a second, or two responses,
  are what `SameSecond` allows.
- Each agent's clock is a fixed offset (`skew`) from real time. A unit of time stands
  for the seconds between two points where something expires or not.
- Messages say who sent them truthfully: the agents run this code.
- An equal message is the same message (gossipsub names messages by content). A
  message may be delayed, overtaken or never be handled; `Carried` restricts a run to
  the kinds its properties depend on.
- A direction and an amount are one value of `Terms`. A `--min-rep` above every score
  also stands for a price bound that does not parse: both fail every time. A bound
  that parses is not looked at again by the code.
- `Quotes` abstracts the deferred swap to "pending" and leaves out `swap`,
  `cswap` and `intent`, which `Coordination` has; the books of the two protocols do not
  depend on each other. The store is shared, but each only adds penalties to it.
- The outcome of a swap is one of: mined, announced and recorded (`Execute`); mined, but
  the receipt or the balance query errors and nobody learns of it (`ExecuteUnreported`);
  not mined, or an error before it (`ExecuteFails`); conditions not met
  (`RejectConditions`). A reverted transaction counts as mined: the code does not
  ask (`uniswap.rs:147`). In simulation mode a made-up hash takes the same path (`main.rs:1147-1183`), so a
  `SwapExecuted` or `SwapFill` does not tell success from either, whatever `network.rs:70` ("executed their
  swap on-chain") and `coordination.rs:58` ("executed successfully") say; what `Coordination` promises
  of a transaction is that its agent made it for that proposal (`FillsBacked`). Logs, MEV alerts and P5 are left out of `Coordination`.
- `SwapExecution` has one amount (10000, in which a unit is a basis point), one direction and
  so one output token. The price is not computed: the trades of others cost a swap any of
  `Impacts`, at the time it is mined. Approval, its receipt and the first balance query are one
  step, as nothing of the agent or the hooks changes between them. The balance after is read when the
  swap is reported, at any time after it was mined.
- Transactions of an account are mined in the order of their nonces: when an approval's
  receipt is there, what was sent before is mined or gone. That a gas estimate reverts is an
  error (`SwapErrors`); a swap mined past its floor or deadline reverts (`MineReverted`).
- A `PendingSwap` of `SwapExecution` stands for any command that makes one: `swap-v2` in the V2
  pool, `swap`, `cswap`, `accept` and `accept-quote` in the V1 pool. `accept` and `accept-quote`
  take the configured tolerance, as `swap` does. Intents, reputation, proposals and fills
  are in `Coordination`.
- An alert is named by its swap instead of its second. A log entry of a rejected
  attestation is left out. `PriorSwaps` swaps of each agent precede the instance, all in V2.
- A piece of the archive is its batch: the sidecar pads small payloads with spaces and trims them
  when they are retrieved. The sidecar may be down, refuse, fail to upload or upload after the
  agent gave up, in any of which the agent sees an error.
- In `PeerScoring` what other peers send is arbitrary, and peers are connected, so
  that gossipsub keeps the score it is given. Refreshes are 30 s apart, time passes in
  half-lives: at least one refresh runs in each.

## What the runs check

Run a module inside this directory with `tlc -config <cfg> <module>`.

| Run (config) | Instance | Shows |
|---|---|---|
| `gossip` (`MCCoordination_gossip`) | 2 agents that have not met, all kinds of message, 1 proposal, 1 swap, 1 intent each | `TypeOK`; `CountsHonest`: no peer is credited with swaps or charged with intents it did not make |
| `three` (`MCCoordination_three`) | 1 proposer, 2 acceptors, clocks differing by 1 | `FillsBacked`: a transaction in a fill or a status was made for that proposal; `PenaltiesAccounted`: a penalty per expiry on the agent's own clock, executed or not, and one more per late acceptance handled; `SwapOncePerProposal`, `AcceptanceBacked`, `CompletedByTwoAgents` |
| `settle` (`MCCoordination_settle`) | 2 agents, both accept, fairness | `PendingAsAccepted`: until the swap runs its entry keeps its terms and is neither reopened nor given up, and only time (decay of recency, the expiry) undoes what `accept` checked; `ProposalsSettle`: every entry ends expired for good; `KeepsPromise`: refinement of `Commitment`, its liveness included |
| `quotes` (`MCQuotes_quotes`) | 2 agents, clocks differing by 1, one agent one penalty or two from Unknown | statuses match responses in any order, an agent accepts a quote once, acceptances name responses, penalties earned, only a late acceptance revives a quote, every quote settles |
| `days` (`PeerScoring_days`) | 1 peer and the agent, 9 half-lives, 11 malformed messages | `NotOverranked`, `StoreIsFresh`, `NotBlacklisted`, `SwapNeverHurts` |
| `execution` (`MCSwapExecution_execution`) | 2 agents, 2 swaps and 2 flushes of one of them, a swap of others, a payment, an attestation, fairness | `MeasuredIsOwn`: a given-up swap never counts as output of the next; `AlertExplained`; `ReportsMined`; `CountsAgree`, `CountedForAgents`, `RebateEarned`: the hooks' counts and fees, whatever reverts or is dropped and whoever else swaps; `AlertsHonest`; `NothingLostSilently`, `ArchivedOnce`: the archive over retries; `LoopReturns`: unless the chain forgets the awaited transaction, the agent returns to its loop; `SettlesSwaps`: refinement of `Settlement`, by which the chain decides a swap once and only the latest is announced, when it is mined |

Six more runs show places where the code does something else than its comments say.

| Run | The comment | The code |
|---|---|---|
| `completed` | `coordination.rs:58` "Both sides executed successfully." | two acceptors that swap complete a proposal in its initiator's book; the initiator never swapped |
| `penalty` | `coordination.rs:135-137` catches a proposal "for the first time, preventing double-counting" | an acceptance handled after the expiry makes the entry Accepted, and it expires, and is penalised, again |
| `executed` | `reputation.rs:29` "Penalty per expired proposal (created but never executed)."; `architecture.md:131` has only Pending --> Expired | the refresh goes by the expiry: Accepted, half executed and Completed entries expire too, and an agent penalises the initiator of a proposal it executed itself |
| `quotes_expired` | `quotes.rs:84` "expired without acceptance" | accepted quotes expire and cost their requester a penalty |
| `quotes_requester` | `quotes.rs:79` "Requester accepted a specific response." | any agent with a response on its book may accept it and swap |
| `registry` | `reputation.rs:43` "verified identity in PeerRegistry" | stale cleanup drops the flag, not the registration |

### Bounds, and why they are enough

`MaxTime` leaves each proposal and quote a life before, at and after its expiry on
every clock: `Propose` and `Quote` are guarded so that it passes within the horizon (else
`ProposalsSettle` would be vacuous or false for no reason of the code). `MaxSkew` 1 makes
two agents disagree about an expiry. One proposal suffices for what relates messages,
book and chain of one id, as ids do not interact: an agent has one pending swap, and
store counters only add up. Two swaps per agent (`MaxSwaps`) let a second swap for
the same proposal happen if anything permitted it. `MaxDecay` 1 is what recency loses within
83 seconds, and `MinReps` has 3500, the undecayed score of an active, verified agent, so that decay decides. Three
agents are the fewest in which an entry can be advanced by two others. `MaxInvalid` 11 is one past the ten malformed
messages that reach the cap on penalties, `MaxTime` 9 one past the
first half-life at which a record from the start is stale (age 8 > 7). `PriorPenalties`
17 puts a peer, verified and active (3500), 100 above Unknown, so that the first
expiry makes it Unknown (penalties are 200).

In `execution` two swaps are the fewest of which one can be given up and mined while the other is
measured; two flushes the fewest of which one can fail and be repeated; `PriorSwaps` 4 lets the
first of the two be the fifth, so that the real `REBATE_THRESHOLD` of 5 is crossed between them. With
`Tolerances` {300} next to the default 50, and `Impacts` {0, 250}, a swap can succeed
below and above the sandwich threshold (200), and fail its floor. One payment of -300 is enough to fake
a sandwich and to make the measured difference negative. The listening agent does not swap: what an
agent hears does not depend on what it does, and the chain keeps agents apart but for the hooks'
counters, where `OutsiderSwaps` stands for everybody else. `MaxEntries`, `MaxFlushes`, `MaxOutside` and
`MaxPayments` bound what the agent does not decide.

### Fairness, and why the code justifies it

`WF(Tick)`: time passes. `WF(Refresh(a))`: the loop's `select!` polls its branches in
random order and the timer is always among them, so a due refresh runs once no swap is
pending. `WF` of the pending swap's outcomes: the flush window ends by its own timer, and
the awaited swap ends in one way or another, which assumes that the RPC node answers
or errors (the code sets no timeout). `SwapExecution` takes this apart: the agent's own steps are
fair once what they await is there; `FlushEnds` is, as the HTTP client gives up after 180 s; the chain
mines each transaction or forgets it. No error is fair, so an agent whose transaction was
forgotten may wait for ever, which `LoopReturns` says. The approval before a swap is assumed
not to be forgotten: it would hang the loop in the same way. Nothing is assumed of the network or of operators:
no handler and no command is fair.

## What is proved

All theorems hold for every value of the constants that the named assumptions of the modules admit:
any finite set of agents, any terms, amounts, prices, payments, clock skews, bounds, and any
set `Carried` of kinds the network delivers. The assumptions say that bounds are naturals, that agents are
finitely many, and that the null values are none of the proper ones. Where a theorem assumes more, its
table says so, and why is explained below it.

### Coordinated swaps (`CoordinationProofs`, `ReputationProofs`, `CommitmentProofs`)

| Theorem | States |
|---|---|
| `TypeCorrect` | `Spec => []TypeOK` |
| `FillsAreBacked` | `Spec => []FillsBacked` |
| `SwapsOnce` | `~SameSecond` implies `Spec => []SwapOncePerProposal` |
| `AcceptancesAreReal` | `~SameSecond` implies `Spec => []AcceptanceBacked` |
| `CompletedByTwo` | `~SameSecond` implies `Spec => []CompletedByTwoAgents` |
| `PendingStands` | `~SameSecond` implies `Spec => []PendingAsAccepted` |
| `BothSidesExecuted` | `~SameSecond` and two agents imply `Spec => []CompletedMeansInitiatorSwapped` |
| `PenaltiesAreAccounted` | `~SameSecond` implies `Spec => []PenaltiesAccounted` |
| `SecondPenaltyNeedsAcceptance` | `~SameSecond` implies `Spec => []OncePenalisedUnlessAccepted` |
| `CountsAreHonest` | `Spec => []CountsHonest` |
| `PromiseImplemented` | `~SameSecond` implies `Spec => Promise!Spec`, `Commitment` under the mapping of `KeepsPromise` |

The argument. `BookChange` says all that a step can do to one entry: it leaves it, marks
it expired, takes it (accept), hears of an acceptance, records a swap, advances it by a fill,
or issues or hears of the proposal. Every later lemma splits on these cases instead of on
actions. `FillsBacked` is then inductive with the types: a status gets a transaction only
from the agent's own swap, which is made in the same step, or from a fill. It says nothing of success.

`SwapOncePerProposal` is not inductive. It needs that an entry which has left Pending never
returns to it (`LeftForGood`), and the only way back would be a proposal message handled
late. `Origin` excludes that: a message with an id is the only one with that id,
its initiator holds the entry, and every other holder got it by handling that message, which is
never handled twice. `Once` adds what ties commitments to entries: a swap made, a
pending swap and a published acceptance each imply that their agent has left Pending, and
no agent is committed to what it already swapped for. `Once` contains both properties.

`~SameSecond` says that an operator does not issue two proposals within a second. Without
it the second proposal takes the id and the place of the first, an agent that had accepted
the first sees Pending again, and may accept and swap twice under one id: the
assumption is needed. The `three` run, where it holds, checks the same properties.

`CompletedByTwoAgents` needs to know where the first transaction of a half-done entry came from
(`FirstSwapKnown`): it is the agent's own, or the agent has handled its fill, and then cannot handle it
again. As each agent swaps once and sends one fill for it (`FillsDiffer`), the second is another's.
Of two agents one is the initiator, hence `BothSidesExecuted`: what run `completed` shows takes a third agent.

`PendingAsAccepted`: entries keep their terms once they are there (`TermsStand`), acceptances and fills
handled in the flush window overwrite the status but neither reopen nor expire it (`StaysTaken`), and nothing touches
the agent's record of itself while a swap is pending (`PendingChange`): gossip changes the records of
others, and the agent's own refresh and commands wait. The score is compared undecayed: that it met the gate when
`accept` looked, with whatever decay, implies that (`DecayLowers`), and time may lower it below the gate before
the swap is made. Nor is the expiry looked at again: an accepted swap may be made after it.

`PenaltiesAccounted` is not inductive either: the count of expired entries goes down when one is
revived. `PenaltiesCovered` counts *settled* entries (past their time and marked Expired) and handled
acceptances instead: an entry that stops being settled does so by an acceptance handled in that
very step (`CoverStands`), which uses that no pending swap is for an entry marked Expired
(`CommittedLive`). A refresh charges what it newly settles, and nothing else.
`SecondPenaltyNeedsAcceptance` is its consequence for run `penalty`: without an acceptance handled there is no second
penalty for a proposal.

`CountsHonest` follows from `CountsBacked`: what a store counts is at most what it has heard, which was
sent, and the sender counts a swap in the step that announces it.

`PromiseImplemented`: each step of `Coordination` is for `Commitment` one of four things an agent does
(`StepOf`): it marks entries, takes one, drops its commitment, or makes the swap. `Stage` then moves as
`Commitment` allows, and credit goes to those who swapped because of `FillsAreBacked`.

### Request for quotes (`QuotesProofs`)

| Theorem | States |
|---|---|
| `TypeCorrect` | `Spec => []TypeOK` |
| `StatusKeepsStep` | `Spec => []StatusMatchesResponses` |
| `AcceptancesAreBacked` | `~SameSecond` implies `Spec => []AcceptanceNamesResponse` |
| `AcceptsOnce` | `~SameSecond` implies `Spec => []AcceptedOncePerAgent` |
| `RevivalsAreAcceptances` | `~SameSecond` implies `Spec => RevivedOnlyByAcceptance` |
| `PenaltiesAreEarned` | `~SameSecond` implies `Spec => []PenaltiesEarned` |

As for proposals, `BookChange` lists what a step does to an entry. `Origin` says again that requests come from
their authors and that no id is issued twice, which is what `~SameSecond` assumes: without it a second quote
replaces the first under its id, with its responses and its status, and TLC finds an agent that
accepts twice, and an acceptance of a response that is gone. `ExpiredInTime`: what is marked
expired is past its time, and stays past it. `ResponsesOwned`: a response, wherever it is, is on the book of the
agent that made it, because nothing removes one. From these, `AcceptancesOwned`: the sender of an
acceptance has its entry accepted or expired since, and in neither state, nor in what can follow
them, does `accept-quote` find anything live to accept. `PenaltiesCovered` is the same idea
as for proposals.

### Scores (`PeerScoringProofs`)

| Theorem | States |
|---|---|
| `TypeCorrect` | `Spec => []TypeOK` |
| `ScoreInRange` | the composite score of any record, at any time, is in 0.0 .. 1.0 |
| `CapLeavesTrust` | the cap on penalties leaves a verified, reliable peer 330/10000 at least, above Unknown |
| `StoreStaysFresh` | `Spec => []StoreIsFresh` |
| `NeverBlacklisted` | `Spec => []NotBlacklisted` |
| `NeverOverranked` | `Spec => []NotOverranked` |
| `SwapsNeverHurt` | `Spec => SwapNeverHurts` |
| `OnlyActivityRaises` | a record with the same activity, no fewer penalties and at no earlier time never scores higher |

The lemmas bound each term of the score: recency decays by halvings of at most its weight and never rises
with time, follow-through is a quotient of at most its weight and grows with each swap, the penalty is
capped at one half. `NotBlacklisted` needs one more fact, `VerifiedIsActive`: a verified record has been active once, so its
recency is that of a peer that was seen. `NotOverranked` is inductive: whatever changes the record of a peer other than the agent gives gossipsub
the new score, but for an attestation, which only raises the score (`VerifyingRaises`).

### Swap execution, MEV, archive and hooks (`SwapExecutionProofs`, `ArchivalProofs`, `MevProofs`)

| Theorem | States |
|---|---|
| `TypeCorrect` | `Spec => []TypeOK` |
| `OutputsAreOwn` | `Spec => []MeasuredIsOwn` |
| `AlertsAreExplained` | `Amount >= 10000` implies `Spec => []AlertExplained` |
| `ReportsAreMined` | `Spec => []ReportsMined` |
| `AgentsAreCounted`, `RebatesAreEarned` | `Spec => []CountedForAgents`, `Spec => []RebateEarned` |
| `HooksCountAlike` | `Spec => []CountsAgree` |
| `SettlementImplemented` | `Spec => SettlesSwaps`, the specification of `Settlement` under its mapping |
| `LocalStaysOnAnvil` | `"Local" \notin Modes` implies `Spec => []LocalSwapsOnAnvil` |
| `AlertsAreHonest` | `Spec => []AlertsHonest` |
| `NothingIsLost`, `NothingTwice` | `Spec => []NothingLostSilently`, `Spec => []ArchivedOnce` |
| `ToleranceBoundsSlippage` | for amounts from 10000 on, an output of at least the floor is short by at most the tolerance, in whole basis points |
| `NoAlertWithinThreshold` | hence with a tolerance of up to 200 no swap that succeeds is flagged |

`SwapInv` is the inductive invariant of a swap, in four parts. `SentInOrder`: an agent has at most one transaction
to be mined, and none once it has measured its balance, because the receipt of the approval comes
after what was sent before; so a swap that was given up and is mined late is never mined between the two
balance queries of the next. `MinedOnce`: a transaction is mined once, and its output is at least its floor, or zero
if it reverted. `BalanceExplained`: what the balance grew by since it was read is what others paid and, once it
is mined, the swap's own output. `EventsExplained`: each `MevEvent` is the only one of its transaction and
holds that transaction's output. `SwapInv` was checked by TLC on the instance of `execution` before
it was proved.

`AlertExplained` joins this with `NoAlertWithinThreshold`: an alert's swap succeeded within 200
basis points only if its measured output was below its own, so that something left the account. The floor rounds down, by
less than a wei, so the shortfall times 10000 is at most `amountIn * bps + 9999`, which is
less than `amountIn * (bps + 1)` from 10000 on. With less than 10000 wei (a token is 10^18) it is
false: rounding alone can then look like a sandwich. That is why the theorem has its assumption. A default
tolerance of 50 under a threshold of 200 makes the alert fire only for swaps that reverted, that
allowed more, or whose account was debited meanwhile, though `mev.rs:11` speaks of slippage "after a
successful swap".

`ReportsMined` strengthens to `AnnouncedReally` and `LoggedReally`: besides being mined, what is in the log is never
the swap whose receipt is awaited, which is why reporting it adds no second entry. `CountedForAgents` and
`RebateEarned` go by induction together, with `MinedFinite`: each swap that is mined and succeeds adds one
to the count and one element to a finite set. `AlertsHonest`: peers' statistics count the alerts that were
handled (`StatsOfHeard`), these are as many as distinct events (`AlertsOfEvents`), and a sum of
slippages is at most their number times the worst of them.

`CountsAgree` says that the counts of all addresses add up to the swaps that began and to those that ended. A sum over a set is a
recursive definition, of which nothing can be proved here, so the sum is stated as a cardinality: `Tally(pool)` has
the elements `<<addr, 1>>` to `<<addr, n>>` for an address counted `n` times. A swap runs both hooks or, when it reverts, neither;
`afterSwap` adds one element (`OneMoreUnit`), so the cardinality and both counters move together.

`SettlementImplemented`: each step of `SwapExecution` is for `Settlement` at most one thing. A send is allowed because of
`SentInOrder`: an agent that has measured its balance has nothing with the chain. A swap that is mined, reverted or
dropped was the only one of its name, so it leaves `pending` for good. A report speaks of the agent's latest
swap, for which it has a receipt; once the agent issues another, no earlier one is reported. Where `Carried` keeps the
message back, reporting is a stutter.

`LocalStaysOnAnvil`: nothing changes the end point (`EndpointKept`), so an agent in Local mode swaps elsewhere than on Anvil only
if `sim local` was typed after a live start. Then it does: `sim` changes the mode and not the URL that `main` chose
(`main.rs:53-73`), though `sim.rs:12` speaks of "real swaps against a local Anvil node".

`ArchivalProofs` speaks of one archive and of any kind of entry. `Ordered` says that the buffer holds the
latest entries in order, that the batches taken from it are runs that do not overlap, and that those still
accounted for leave no gap. Logging, taking a batch, and its end keep this; an upload that succeeds late
stores a batch that was taken before, whose entries are in no other.

### Only model-checked

- Liveness under fairness (`ProposalsSettle`, `QuotesSettle`, `LoopReturns`, and the part of `KeepsPromise`
  that says that commitments end): out of the prover's reach. The rest of `KeepsPromise` is `PromiseImplemented`.
- The properties of the runs that end in a violation: they are false. For `completed` and `penalty` a theorem says
  which circumstance it takes.

Neither checked nor proved is anything of operators that issue two proposals or two quotes within one second:
every run has `SameSecond` FALSE, as what depends on it is false otherwise (see above).

## Not modelled

- `record_unfollowed_intent`: no code calls it outside of tests. The penalty it would
  cause is part of `PenaltyScore`.
- mDNS, dialling, connections: they change only the library's state.
- gossipsub's mesh scores, thresholds and pruning: a library's.
- Recovering an address from an EIP-191 signature: a library's; an attestation is valid, or
  it changes nothing that is modelled.
- `help`, `who`, `peers`, `reputation`, `mev`, chat: they print. (`status`, `log-status` and `retrieve`
  are `Look`.)
- The end of input, after which `next_line` is always ready and the loop spins: whether the other
  branches of `select!` still run is a question of its random order.
- A restart: nothing is persisted, and a new process has a new peer id; to the
  others it is another agent. What an agent sent before it died is like a swap given up.
- Deployment scripts and tests.

## Plan

Done, in this order, as coordination is what the agents are for and reputation gates it:
`Reputation`, `Gossip`, `Coordination` with `Commitment` and its first proofs, `Quotes`, `PeerScoring`;
then `Mev`, `AgentCounters`, `Archival` and `SwapExecution`, which composes them.

Then the proofs: the remaining safety invariants of `Coordination` and its refinement of `Commitment`,
`Quotes`, `PeerScoring`, `Archival` and `SwapExecution` with its refinement of `Settlement`. Every invariant and
action property of the passing runs is proved now.

Left among the models: a `Connectivity` of peers that come, go and reappear within the
duplicate cache's time, of which `Gossip` now says only that a message may not arrive.
