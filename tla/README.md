# TLA+ models of the NoblePort ecosystem

This directory holds TLA+ specifications of the parts of the repository that
decide something while other things happen at the same time: the MCP gateway
that stands between callers and agent tools, its governance gate and kill
switch, the audit log that two services append to, the gated router that
executes workflows, the orchestrator's workflow engine with its human gate, the
verification service, the security token with its compliance contract and the
script that deploys them, and the two scripts that set and verify the ENS
record. TLC checks them on small instances; TLAPS proves their safety
properties for every value of the constants.

    tlc -workers 2 -config MCGateway.cfg MCGateway     # check one run
    tlapm GatewayProofs.tla                            # check the proofs

All paths below are relative to `src/`.

## 1. The system

| Component | State it keeps | Operations | Correct when |
|---|---|---|---|
| Gateway pipeline, `core/gateway/gateway.py`, `supervisor.py`, `executors.py`, `cache.py`, `audit.py` | per call: how far it is; Postgres: `audit_logs`, `mcp_call_log`; Redis: result cache, rate counters | `invoke`, an asyncio coroutine per request; every call of Redis, Postgres or a tool is an `await` | nothing runs unaudited, unsigned or under an engaged switch; an answer says what the ledgers say, as far as their writes succeed; every caller gets an end |
| Governance gate and registry, `core/gateway/governance.py`, `registry.py`, `envelope.py` | none while running | `evaluate(envelope)`: BLOCK, PARK or PERMIT | the registered level of a tool is a floor, sensitive writes wait for a signature |
| Kill switch, `core/gateway/killswitch.py` | Redis flag per scope, rows of `kill_switch_events` | `engaged`, `engage`, `release` | an engaged switch halts calls, and a switch that cannot be read halts them too |
| Audit log, `core/gateway/audit.py`, `core/migrations/001_workflow_states.sql` | `audit_logs`, each row with its hash and its predecessor's | `_append`; the router's own insert | a row's predecessor exists and is earlier; the log is a chain |
| Gated router, `core/api/gated_router.py` | `workflow_states` | `POST /execute-gate` | status and audit trail change together; blocked scopes are not served |
| Sub-agents, `core/gateway/subagents.py` | none | `select`, handlers | (only who is served in-process matters to the pipeline) |
| KPI worker, `core/gateway/kpi_worker.py` | `kpi_snapshot`, module registry, its task | `seed`, `snapshot_once`, `run`, `stop` | snapshot and registry agree, the loop survives errors and stops |
| Workflow engine, `nobleport-systems/orchestrator/nobleport/` | runs, approval requests, breaker per module (memory of one process) | `start`, `resolve_approval`, `_advance`, breaker feed | no gated step runs without its own approval, none runs twice |
| Edge gateway, `nobleport-systems/gateway/src/main.rs` | token bucket per address | `allow`, proxy, avatar bridge | bursts are bounded |
| Verification service, `noble-port-verification/app/` | verifications and their truth state, audit log, provider breakers | `/verify`, transition, evidence | a missing source blocks; nothing without a log row; transitions are allowed, and the log tells of real ones |
| Token and compliance, `contracts/src/` | balances and supply; the compliance contract's own balances, holder count and holding clocks; identities | ERC-3643 token operations, configuration | supply is the sum of balances, compliance follows the token, holders are counted, nobody sells early |
| Deployment script, `contracts/scripts/deploy.js` | four contracts and four configuring transactions | one run, from start to end or to an error | a run that ended issues nothing outside its country list; one that failed leaves a beginning of its configuration |
| ENS scripts, `scripts/ens-solana-setup.js`, `scripts/verify-ens-solana.js` | the name's resolver and its Solana record, on chain | one run each, repeated at will | a setup that passed holds, what the verifier read is reported as it is, runs end |

How they interact. The gateway calls the gate (a function), Redis, Postgres and
the tool in turn; administrators write the switch's flag in Redis while calls
are under way. The gateway and the router share nothing but the table
`audit_logs`. The orchestrator, the verification service, the contracts and the
ENS scripts are separate programs. The token calls the compliance contract
within its own transactions, except in a recovery. The deployment script leaves
behind the contracts that investors and agents then use; the two ENS scripts
share the registry and a record on chain, and know nothing of each other.

What is hard. A call of the gateway is suspended up to ten times, and
between any two of these points other calls, administrators, the minute and the
cache's expiry move on; every awaited operation may fail, with its effect done
or not; a timed-out tool may still run; the process may stop anywhere; Redis
forgets. In the log two transactions overlap without a lock, and the time
stamp that orders rows is that of BEGIN, not of COMMIT. `PROJECT.json` lists
these hazards one by one, at their lines, with the property that would catch
each.

In the orchestrator a run is suspended while an agent works, and meanwhile
other requests start runs, resolve approvals, and feed the breakers that all
runs share. Everything it keeps is in the memory of one process: a restart
begins anew.

In the verification service three providers answer or fail in any order while
their breakers, shared by all requests, open and reset; a decision, the
verification it creates, a transition and its audit row are separate
transactions. The contracts run one transaction at a time, and what is hard is
the long run: two sets of balances, a count and clocks that are kept by
increments, through transfers to oneself, of nothing or of everything, and
recoveries only one of the two contracts hears of. The scripts wait for some
transactions and not for others, and a transaction outlives the run that sent it.

## 2. Modules

    Governance  <---+
                    +--- Gateway <--- MCGateway
    KillSwitch  <---+     |    ^----- GatewayProofs <--- GovernedProofs
                          : INSTANCE ... WITH
                         GovernedCalls
    AuditLog  <--- GatedRouter <--- MCGatedRouter
                             ^------- GatedRouterProofs
    ModuleCatalog <-+- WorkflowEngine <--- MCWorkflowEngine
                    |     |      ^-------- WorkflowEngineProofs
                    |     : INSTANCE ... WITH
                    +- GatedRuns
    Verification <--- MCVerification
              ^------ VerificationProofs
    SecurityToken <--- Deployment <--- MCDeployment
                             ^------- DeploymentProofs <--- SupplyProofs
    EnsName <-+- EnsSolanaSetup  <-+- EnsRecord <--- MCEnsRecord
              +- EnsSolanaVerify <-+         ^------ EnsRecordProofs

(an arrow points to the module that is extended).

### Governance

Operators only: the gate reads no shared state and awaits nothing, so its
evaluation is part of a step of `Gateway`. An envelope keeps what the checks
ask of the text: whether a prohibited claim occurs in it (`claim`), the
normalised scope words (`scopes`), the region as the caller spells it, whether
it is too long. `EffectiveLevel` is `registry.effective_level`, `Evaluate` is
`GovernanceGate.evaluate` with the order of its checks. The exception handler
of `evaluate` also blocks; no input of the model makes a check raise.

### KillSwitch

`flag` is the set of scopes whose Redis key is there, `lastEvent` the newest
row of `kill_switch_events`, `admin` what a request still has to record. Each
of the two writes of `engage` and `release` is an action; either may fail.

### Gateway

One action per awaited operation of `Gateway.invoke`: the action stands for the
operation's effect, its outcomes, and the code up to the next `await`. `pc[c]`
names the operation call `c` awaits.

| `pc` | Code | then |
|---|---|---|
| `killGlobal`, `killAgent` | `killswitch.py:36`, `:38` | gate and rate key, or `blockAudit` |
| `rate` | `cache.py:47` | PARK, cache, pre-write or `blockAudit`; an error of Redis is a server error |
| `parkAudit`, `parkLog` | `gateway.py:73`, `:74` | PARKED |
| `cacheGet`, `cacheLog` | `gateway.py:84`, `:86` | CACHED, or the pre-write; an entry that is no object raises (`NotAnObject`) |
| `prewrite`, `denyLog` | `gateway.py:95`, `:98` | the tool, or FAILED / BLOCK (`DENIED` in the model) |
| `executing` | `gateway.py:107` | `postSuccess`, or `postFailed` on an error or a timeout |
| `postSuccess`, `logSuccess`, `cacheSet` | `gateway.py:112`, `:113`, `:120` | SUCCESS; what raises here, the answer for a result that is no object too (`:121`), goes to the `except` |
| `postFailed`, `logFailed` | `gateway.py:126`, `:127` | FAILED |
| `blockAudit`, `blockLog` | `gateway.py:136`, `:139` | BLOCKED; the first one's error is swallowed |

An insert that raises may have committed or not (`AuditThen`, `LogThen`).
`tool[c]` is `sent` once the tool was asked and `done` once it took effect,
which an HTTP tool may do at any later time. `Crash` stops every call and
request of the process; cache keys contain Python's `hash`, which is salted per
process, so the cache is unreadable afterwards. `RedisLosesKeys` is the restart
of a Redis without a volume (`core/gateway/docker-compose.yml:18-24`).
`audit[c]` and `calllog[c]` hold the rows of each call; their chaining is the
subject of `AuditLog`. `armed`, `served`, `admitted` and `win` record what the
properties speak of (the switches engaged since a call's arrival, the origin of a cached answer, an
admission and its window); they decide nothing, except that the limiter's key
is made of `win`.

### GovernedCalls

What the pipeline promises of a call, in the terms of a caller and an auditor:
`status` (new, open, or how it ended), `trail` (its rows of `audit_logs`), `tool`,
`given` (whose result it was given) and `halted` (it arrived under a switch not
released since). There are no stages, no limiter, no cache and no call log. The
tool is asked together with its row (`Attempt`), for a permitted call no switch
halts (`Serve`); a row may be written by somebody who takes it for lost
(`Record`); an answer is given only if it says what the rows say (`May`).
`Gateway` implements it with `status` as `pc`, all stages counted as "open",
`trail` as `audit`, `given` as `served`, and `halted` as the calls that are
`armed`: `Refinement`. What a row, an answer, the stop of the process and the
release of a switch are in the pipeline is one step each; everything else
(reads of the switch, limiter, call log rows, cache fills and expiry) is a
stutter. What the promise comes to is stated in it: `ServedOnce`,
`AnswersAreFinal`.

### AuditLog and GatedRouter

A writer's transaction is a stage and, once it has read, the row it will name
as its predecessor. `Begin` takes the time stamp, `ReadTail` reads the row with
the greatest one among the committed rows, `Commit` makes the new row visible.
A hash is the set of rows whose bodies went into it: the gateway's hash covers
its predecessor's (`audit.py:21-23`), the router's only its own row
(`gated_router.py:162-164`). `GatedRouter` adds the checks of the request, the
workflow rows and their locks: the lock is taken by the UPDATE and held to the
end, the change becomes visible with the audit row at COMMIT, an error rolls
both back, and the acknowledgement of the commit may be lost.

### ModuleCatalog, GatedRuns and WorkflowEngine

`ModuleCatalog` holds what does not change: the modules with their risk and
status, and the plan (the modules of the steps) of every run. `WorkflowEngine`
has one action for each stretch of code between two awaits. The engine awaits
nothing but `agent.handle` (`engine.py:162`), so `HandleReturns` reaches from
there, through the breaker, the result and `_advance`, to the next handle, to a
new approval request or to the end of the run; `Start` and `Approve` reach as
far, `HandleRaises` and `Reject` end the run. `Approve` and `Reject` are `POST
/approvals/{id}/resolve`, which takes the run from the request (`api.py:144`):
a request that is not PENDING is answered 409 and changes nothing. Their branch
for a request its run does not wait for (`engine.py:104`) is there, and
`WaitingRunsAreListed` shows that it is never taken. The shipped handlers
return without awaiting anything themselves; the model allows what the `Agent`
protocol does (`engine.py:27-31`), a handle that takes any time or raises.
`requests` numbers the approval requests in the order of their creation, `pending[r]` is
`pending_approval_id`, `handle[r]` keeps what `_execute_current_step` has
decided before its await. `outcomes` is a history variable: how the handles of
each module ended.

`GatedRuns` is the promise without the machinery: a run takes its steps in
order, begins each at most once, a gated one once it is granted, a hard-blocked
one never. The refinement mapping takes a run's begun steps from its results
(those that were not merely prepared) and its current step, and its granted
steps from the APPROVED requests.

### Verification

`stage[q]` names what request q awaits. `Ask` asks all providers at once
(`asyncio.gather`); each then `Answers`, `Fails`, or `Puzzles` the parser, which
raises outside the `try` (`services/helius.py:39-54`) and ends the request while
the others' answers still reach the breakers. A breaker is the record of its two
fields; `Reset` is `allow()`. `AppendDecision` and `Create` are the two writes of
a verification, `Select`, `Update` and `AppendTransition` those of a transition:
each may raise with its effect done or not, which also stands for a process that
dies there. `holder` is the row lock of `SELECT ... FOR UPDATE`. `path` is a
history variable, the committed changes of each verification. `admin.py:24`
reads the row once more before the audit row is written; that read decides
nothing but may raise, which is the branch of `AppendTransition` without a row.
The doc's promise "if the write fails, the request fails closed" (README of the
service) holds for decisions, `NoLogNoGo`; a transition whose audit insert fails
has been committed before, and `LogTellsChanges` claims of the log only what is
so: no row without its change.

### SecurityToken and Deployment

One action per transaction: what a call of the token changes in itself and in
the compliance contract, in the order of the code, with the reverts of checked
subtractions as guards (`CanLeave`). `balances` is the token's `_balances`,
`mirror` the compliance contract's `balanceOf`; `Receive` is the shared end of
`transferred()` and `created()`. Mints are asked `Admits` only: with no sender,
`canTransfer` skips the holder limit and the holding period. The owner may point
the compliance contract at another address and back (`Unlink`, `Link`:
`setTokenAddress`); meanwhile every call of it reverts, and recoveries, which do
not call it, go on. `since`, `lost`,
`gained`, `zeroed` and `lifted` are history variables. The identity registry and
the ZkSBT verifier are their two answers, `verified` and `country`.

`Deployment` adds the script: `step` is the call `main()` awaits, `pending` the
configuring transactions it has sent and not waited for. `Raises` ends it at any
call, with what was sent arriving or not. `Mine` takes the head of `pending`,
since the nonces of one key are mined in order; `Drop` is a mempool that forgets
a transaction and those behind it. The deployer is the only agent and owner until
it adds another by a transaction of its own, so every administrative call comes
behind the script's (`Administered`); that its key is not used by hand while the
script runs is an assumption of the model. What protects the token is
accidental: the nonce order. The script itself prints "Deployment complete"
whatever became of its transactions, and after one that was forgotten ethers
takes the freed nonce for the next, so that later settings come into force
without earlier ones; both properties of the script are stated up to that. A
script that failed between the link and the country list leaves a token that can
be issued with no country blocked: `ConfiguredInOrder` says no more than that
what is in force is what was sent first.

### EnsName, EnsSolanaSetup, EnsSolanaVerify and EnsRecord

`EnsName` is what both scripts see of the chain: the name's resolver and each
resolver's record, and other tools of the owner that change either. The two
script modules have one action per awaited call, each of which may raise. A
setup's transaction lives on in `tx` after its run has ended (`Settle`).
`SolAddrRaises` is the catch of the verifier that reports missing multicoin
support whatever was raised: after a timeout that report is false, and may
contradict a setup that passed, so `ReadReportsAreTrue` speaks of the four other
reports. `EnsRecord` runs any number of both side by side;
`disturbed` records which runs another tool interfered with. The module composes the two
scripts as the deployment guide has the operator run them.

## 3. Runs

| Run | Question | Instance |
|---|---|---|
| `gateway` | safety of the pipeline; does it implement `GovernedCalls`? | 2 calls, each any of 6 envelopes, 1 administrator, both scopes; 733,000 states |
| `gateway_limits` | rate limit, termination | 2 calls of one requester, 1 admission per window, 2 windows; 263,000 states |
| `gateway_halt` | is a global halt instant? (violated) | 1 call, 1 administrator |
| `ledger` | router and log | 2 requests and 1 gateway connection, 4 transactions |
| `audit_fork` | is the log one chain? (violated) | 2 gateway connections |
| `new_york` | does the geo-block fire? (violated) | 1 request, 4 spellings |
| `engine` | does the engine keep the promise of `GatedRuns`, its records and its breakers? | 2 runs of `subcontractor_payout`, 1 of `awo_to_invoice`, a breaker opens after 2 failures; 33,000 states |
| `client_update` | is an update sent only with an approval? (violated) | 1 run of `client_update` |
| `ens` | does a passed setup hold, are the verifier's four reports of what it read true, do runs end? | 2 resolvers, 2 setups, 1 verifier, 2 changes by other tools; 206,000 states |
| `deployment` | is the deployed token sound, at any time and in the long run? | 2 wallets, 2 tokens, 2 instants, 1 configuring call, 1 move of nothing; 638,000 states |
| `recovery` | can everything a wallet holds be burned? (violated) | the same, no moves of nothing |
| `verification` | decisions, truth states and log | 2 verifications, 2 transitions, 2 roles, 2 providers, a breaker opens after 1 failure; 1.1 million states |

Bounds. Two calls are enough for what calls can do to each other: they meet
only in the cache entry and in the counter, of which each involves a first and
a second call. The six envelopes (`MCGateway.tla`) take every way through the
gate and the pipeline: a cacheable read, an under-declared money write unsigned
and signed, an unregistered tool whose caller asks for a human, a delegated
internal write, and the same from New York in a blocked scope. `MaxWindow` = 1
gives one turn of a minute, `PerMinute` = 1 makes two calls compete. Calls are
interchangeable, so `gateway` uses symmetry, and a view without `lastEvent`,
which nothing reads, and without the rate limiter's state: there two calls have
two admissions in one window, so that no counter exceeds the limit and none
decides anything. `gateway_limits`, where they do, checks liveness and uses
neither symmetry nor a view.
`MaxRows` bounds the transactions of the log; with 4, one gateway connection
can append twice while two requests run, or fail and try again. One workflow
is enough for the lock, since requests for different workflows share only the
log. Deadlock is checked for the gateway, where the environment can always
move; the log and router stop when their transactions are used up.

The three runs of `engine` have shipped plans and the catalog's entries for
their modules: LOW and MEDIUM steps, two gated steps in a row, a hard-blocked
one, and `finance.payment_reconcile`, which all three reach. Two failures of it open
its breaker, the third run's call is then simulated, and its success closes the
breaker again; `BREAKER_THRESHOLD` is 3 in the code, and 2 takes the same ways
with one run fewer. The runs end, so deadlock is not checked. A hard-blocked
step with steps behind it (`nbpt_mint_proposal`) makes the instance too large;
the theorems of section 5 hold for every plan.

`ens`: two setups are one late and one repeated run, the verifier runs beside
and after them, and the second change of another tool undoes the first. It is
checked for liveness and uses no symmetry. The runs end, so deadlock is not
checked there, nor in `verification`, where the requests are used up.
`deployment`: with two wallets a transfer has a sender, a recipient and, where
they are one, neither; two tokens make partial and full exits, and two
instants, with `Year` = 1, one holding period. Wallets, requests and providers are
interchangeable and used for symmetry in runs that check safety only. In
`verification` two roles tell the four targets apart (an admin may do
everything, a contractor dispute only); a third provider would be one more of
the same. In `deployment` the budgets of time and calls are used up in the end.

What the violated runs show (details under `findings` in `PROJECT.json`):

- `killswitch.py` calls the halt instant, and a call that has passed its check
  still runs its tool. The property that does hold is `HaltsNewCalls`: a call
  that arrives under an engaged switch runs nothing.
- `audit.py` calls the log one tamper-evident chain. Overlapping appends
  continue the same row. What does hold is `PredecessorIsEarlier`, and
  `SerialChainIsLinear` as long as no transactions overlap.
- `gated_router.py` does not recognise `NY`: the code is lower-cased, the entry
  it is compared with is not. (The gateway's gate normalises both sides.)
- `modules.py:214` and `definitions.py:99` call the outbound client update
  approval-gated. Its risk is MEDIUM and the engine gates HIGH and CRITICAL
  only: it is sent for real with no approval.
- `ModularCompliance.sol` says that a burn is always allowed. After a recovery,
  which only the token hears of, the new wallet's balance cannot be burned: the
  compliance contract's own balance would go below zero. What does hold is
  `MirrorFollows`: the two differ for wallets of a recovery only, and the
  supply is conserved in both.

Further disagreements between documents and code, read off the code and
allowed for in the properties:

- `core/gateway/README.md:114` says that a BLOCK is "audited as a terminal event
  in both ledgers". `_terminal` swallows an error of the audit
  (`gateway.py:137-138`, "never let audit failure mask the block"), so a denied
  call may be in the call log only; and a denial after a failed pre-write has no
  terminal row at all, but none or a PRE. `LedgersMatchAnswer` lists these cases.
- `audit.py:80` calls the call log "one row per invocation". An error after
  its SUCCESS row was written, an acknowledgement that is lost or a result that
  no answer can be made of, adds a FAILED row (`gateway.py:124-128`). `audit.py:1`
  says "audit of every gateway decision"; a CACHED answer is in the call log only.
- `verify-ens-solana.js:70-71` says that the resolver does not support
  multicoin addresses whatever the read raised.
- A transition of the verification service whose audit insert fails has been
  committed before (section 2, Verification).

## 4. Fairness

Safety runs use `Spec`. `Gateway`'s `FairSpec` is weakly fair to a call only
while its tool is awaited: `HttpExecutor` gives its client `timeout_s`
(`executors.py:51`) and a handler in the process returns or raises, so the wait
ends. (httpx bounds each read, not their sum; a tool that trickles its answer for
ever is assumed away.) The effect of a tool is fair only where a sub-agent serves
it in the process (`supervisor.py:35`), for an HTTP tool nothing is assumed.
Nothing is assumed of Postgres and Redis: their clients are created without a
command or socket timeout (`app.py:34-35`), and a call whose request they never
answer waits for ever. `EveryCallEnds` says so: a call ends, or stays for ever at
a stage that awaits one of the two (`AtServer`). What it excludes is that a tool
holds a call, or that failures send it round its stages for ever. No fairness is
assumed of administrators, the clock, crashes or the loss of keys.

`GatedRouter`'s `FairSpec` has weak fairness of the statements of each request
once its transaction has begun; an UPDATE that waits for a lock is enabled again
when the lock is free, and the lock's holder is fair too. That Postgres answers
each statement, if only with an error, is an assumption and not the code's doing;
`EveryRequestEnds` shows that under it no lock is waited for for ever. Weak
fairness is enough because requests are finitely many.

`WorkflowEngine` is checked for safety only. A handle has no timeout and a
request waits for a human as long as it takes, so the code justifies no
fairness beyond "a handle ends", from which it follows at once that a running
run stops running.

`EnsRecord`'s `FairSpec` has weak fairness of each run's awaited call and of the
chain: that the provider answers or fails, and that a pending transaction is
settled, if only by being dropped, are assumptions about both. `tx.wait()` has no timeout and waits for ever for a
transaction that was dropped, so `EveryRunEnds` makes that exception; nobody has
to start a run. `Deployment` and `Verification` are checked for safety only.

## 5. Proofs

`GatewayProofs`, `GovernedProofs`, `GatedRouterProofs`, `WorkflowEngineProofs`,
`VerificationProofs`, `DeploymentProofs`, `SupplyProofs` and `EnsRecordProofs`
prove every safety property that a passing run checks, for any
number of calls, administrators, connections, requests, workflows, rows,
wallets (finitely many), runs and resolvers, any catalog, plans, amounts and limits, from the
modules' assumptions on constants alone:

| Theorem | States |
|---|---|
| `GatewayTypeCorrect`, `RouterTypeCorrect` | type invariants |
| `GatewayHumanGate` | `HumanGate` |
| `GatewayHaltsNewCalls` | `HaltsNewCalls` |
| `GatewayLedgers` | the invariant of the ledgers, below |
| `GatewayAuditBeforeExecution`, `GatewayLedgersMatchAnswer` | the two ledger properties, from it |
| `GatewayCachedAnswers` | `CachedAnswersAreAudited` |
| `GatewayRateBound` | `RateBound` |
| `GatewayRefinement` | `Refinement`: the pipeline implements `GovernedCalls` |
| `GatewayServesOnce`, `GatewayAnswersAreFinal` | what `GovernedCalls` comes to, for the pipeline |
| `RouterPredecessorIsEarlier`, `RouterSerialChain` | the log |
| `RouterStatusMatchesLedger` | `StatusMatchesLedger` |
| `RouterAnswersAreAnchored` | `AnswersAreAnchored` |
| `EngineTypeCorrect` | type invariant |
| `EngineWaitingRunsAreListed`, `EngineResultsFollowPlan` | requests and runs, records and plans |
| `EngineBreakerMatchesHistory`, `EngineRealCalls` | breakers, and the calls they decide on |
| `EngineRefinement` | `Refinement`: the engine implements `GatedRuns` |
| `EngineOnlyGrantedStepsBegin` | no step runs ungranted, none that is hard-blocked |
| `VerificationTypeCorrect`, `VerificationNoLogNoGo`, `VerificationFailClosed` | types, and what a decision rests on |
| `VerificationTransitions`, `VerificationLog` | truth states and their audit rows |
| `DeploymentTypeCorrect`, `DeploymentMirror`, `DeploymentHolders`, `DeploymentNoEarlySale` | amounts, the mirrored balances, the count, the clocks |
| `DeploymentSupply` | `SupplyIsConserved` |
| `DeploymentRestricted`, `DeploymentConfiguredInOrder` | what a script that ended, or failed, leaves in force |
| `EnsTypeCorrect`, `EnsPassedMeansResolves`, `EnsReadReportsAreTrue` | the two scripts |

The argument for the gateway. None of the properties is inductive, since each
speaks of a call's end and a step only knows the stage before it. `LedgerInv`
says for every stage which rows the call has in the two ledgers and whether its
tool was asked: for instance, at `postSuccess` the tool is done and the audit
rows are `<<PRE>>`; at `postFailed` the tool was asked, the rows begin with
`PRE`, and they hold `SUCCESS` only if the tool is done. A step of one call
changes the rows of that call only, so each action needs one argument.
`GateInv` carries the gate's verdict: a call at the rate limiter was not
blocked, and one beyond the PARK branch was permitted, whence `HumanGate` with
the lemma that `EffectiveLevel` never ranks below the registered level.
`SwitchInv` says that an armed scope is still flagged, that a call past the
first read is not armed by the global scope, and that a call past both reads,
or with a tool asked or a cached answer, is not armed at all. `CacheInv` says
that what a cache entry names, and what was ever served, is an audited and
logged call of a read-only tool with the entry's key. `RateInv` bounds the calls
let through in a window by its counter as well as by the limit: the counter may
run ahead of them (an increment whose answer was lost) and is never behind,
because a call is counted and let through in one step, its window is fixed
before (`PastLimiter`), and Redis forgets the counters only together with what
they let through.

The refinement of `GovernedCalls` needs, besides these, `PathInv`: what the
stage of a call says of the abstract step to come (a parked call has the
verdict PARK, a call that was given a result is on its way to CACHED, the rows
of a failed attempt are `<<PRE>>`, or `<<PRE, SUCCESS>>` where the confirmation
was written and its acknowledgement lost). There is one lemma for each kind of
step: `Arrives`, `Decides` (a stutter, or an error), `TurnsDown`, `Settles`,
`Answers`, `Hits`, `Attempts`, `Fills`, `TakesEffect`, and
`EnvironmentImplements` for administrators, clock, restarts and Redis. That a
tool is asked at most once is where `LedgerInv` and `PathInv` meet: the only
stage that asks a tool is behind no row, and every row leads away from it.
`ServedOnce` and `AnswersAreFinal` are then consequences of the promise
(`PromiseServes`), whatever the pipeline looks like.

For the log: `TailInv` (what a transaction has read is a committed row, or
none), `LockInv` (a request past its UPDATE names an existing workflow),
`NewestInv` (the rows of a workflow have a newest one, so that
`StatusMatchesLedger` speaks of it), and `SerialInv`, which relates the time
stamps: while no two transactions have overlapped, at most one is open, the
committed rows carry increasing time stamps below that of the open one, and so
the row with the greatest time stamp is the last one. `AnswersAreAnchored`
finds the row of a caller's own transaction by its time stamp: `StampInv` says
that no two transactions share one and that an open one has no row yet,
`StageInv` that whoever has an answer has ended its transaction, or, if it was
refused, never begun it. So a row that was there when the answer was given
stays the caller's, and none appears for one that was refused.

For the engine: `TInv` adds to the types that a run's cursor is within its plan,
and before its end unless the run is completed; it is inductive together with
`WaitingRunsAreListed`, without which an approval could arrive for a run that
is elsewhere. `RInv` adds what is known of the step a run is at (it waits at
gated steps only; a handle carries an approval exactly at a gated step and is
never for a hard-blocked one), from which the next result is right.
`BreakerCounts` says that a module's counter is the length of the streak of
failures its history ends with, whence the breaker is open exactly when that
streak is long enough. The refinement has one lemma for each action: `Start` is
the abstract `Start`, `HandleReturns` is `Finish`, `HandleRaises` is `Fail`,
`Approve` is `Grant` and `Reject` is `Refuse`; the three ways out of
`_advance` are the three of `Reach` (`AdvanceReaches`). `GatedRuns` in turn
never begins an ungranted step (`PromiseKept`), and with the refinement neither
does the engine.

For the verification service: `DecisionInv` says that past its append a request
has all its answers, that they do not change any more, and that the log holds
the decision they lead to; `LockInv` that a transition at its update holds the
lock of its row, whose state is what it read; `ChainInv` that every row of the
log, and every transition about to write one, has its change in the history of
its verification.

For the token: a step is one of four kinds of transactions or leaves the amounts
alone (`StepCases`), and one lemma for each says what it does to every wallet,
the case of a transfer to oneself apart. `ClockInv` relates the two contracts'
clocks: a wallet nothing was recovered from has held something since no later
than the compliance contract's clock says, because the mirror is never above the
balance there. `HoldersCredit` and `HoldersDebit` say how the number of holders
changes with one wallet.

The supply is a sum over the wallets, which the community modules compute by a
fold, a function defined by recursion over sets. The library's induction
theorems cannot be instantiated by the installed provers, so `SupplyProofs`
argues from a smallest counterexample: the order of the naturals, and of the
subsets of a finite set, is well-founded, so that a set of counterexamples that
is not empty has a smallest one (`LeastNatural`, `SmallestSubset`), and that one
is refuted. In this way the recursion is shown to define a function
(`FoldsExist`, `SumsUnfold`), its values to be amounts (`SumsAreNat`), and a
change in one wallet to change the sum by as much (`SumOfUpdate`); what a
credit, a debit and a move, to oneself too, do to the total follows.

For the script: `MempoolInv` says that what is pending is the end of
what the script sent, in order, and that once the list of countries is no longer
pending it is in force but for what the owner lifted; `IssuedInv` that where there
are tokens nothing is pending, since only a transaction behind the script's can
mint. `OrderInv` says, for a script that failed too, that what is pending has no
gap and that the link is in force before anything sent after it.

For the ENS scripts: `SeenInv` and `FoundInv` say that what an undisturbed run
read of the registry is still there, `PassedInv` that a record that was read
back stays, because a setup's transaction, however late, writes the Solana
address only.

Only model-checked: `EveryCallEnds`, `EveryRequestEnds` and `EveryRunEnds`, since
liveness under fairness is out of the prover's reach. The inductive invariants
were checked with TLC before they were proved.

## 6. Abstractions

- Texts, payloads, latencies, truth labels and compression statistics are left
  out; two payloads are told apart by `content`, as the cache key does it.
- SHA-256 has no collisions, and two transactions do not begin in the same
  microsecond.
- A scope of the switch that names neither an agent nor `global` can be engaged
  and has no effect; it is left out.
- The expiry of a rate counter (65 s after its first increment) comes after the
  end of its minute, so the counter is kept.
- In the contracts amounts are far from 2^256, so that only subtractions can
  revert; `Unlimited` stands for the largest one.
- A chain does not reorganise past what a script has waited for.
- A contract call by a wallet that may not make it, and a request refused before
  its first effect, change nothing and are no steps.
- Python's event loop, Redis commands and Postgres transactions are atomic in
  the way they promise to be; isolation is READ COMMITTED, the default.

## 7. Not modelled

- `core/gateway/kpi_worker.py`: one task in a loop whose snapshots and registry
  rows only read-only endpoints show; no other component decides on them.
- `nobleport-systems/gateway/` (Rust): the token bucket is one critical section
  over floating-point numbers and wall-clock time; the proxy and the bridge keep
  no state.
- Of the verification service: evidence uploads, moderation, users and keys, the
  rate limiter. Its hash chain is built as the gateway's, which `AuditLog` models.
- Of the contracts: allowances (a `transferFrom` within its allowance is a
  `transfer`), the replacement of the registry or the compliance contract of a
  live token, calls by another address the compliance contract is pointed at, the
  lists of agents and owners, claim topics, issuers and the
  proofs of the ZkSBT verifier.
- `dashboards/cyborg-pqc-readiness-v2.jsx` (static data, an open tab, a check
  box), `jupiter-routing-lab` (a bundled build), `contracts/hardhat.config.js`,
  the site, assets and documents: nothing that depends on another actor or on an
  order.
- `compression.py`, `metrics.py` and `operational_truth.py`: encodings, queries
  and a static table that nothing else decides on.
