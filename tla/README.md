# TLA+ specifications of the adjudication procedures

This directory specifies, checks and proves the parts of the repository that
decide a case: what an engine accepts, how the process around it turns racing
requests, timers and provider calls into one accepted step per turn, what record
it leaves on disk, and how a launcher starts, watches and stops the processes of
a case. Everything is translated from the source; `PROJECT.json`
("map") names the lines each definition stands for.

Contents:

1. The system
2. Modules
3. Correspondence and abstractions
4. Runs
5. Fairness
6. Proofs
7. Divergences met
8. Only model-checked, not modelled
9. Plan

## 1. The system

The repository runs *procedures*: programs that take one case (a proposition or
a complaint, with documents) to a recorded result, with language models as
lawyers, jurors and council members.

| Part | Source | State it keeps | Operations |
|---|---|---|---|
| ARB engine | `arb/engine/Main.lean` | the arbitration state: phase, filings, evidence, exhibits, council, round, votes, resolution, version | `initialize_case`, `next_opportunity`, `step` with ten action types |
| ARB runtime | `arb/runtime/proceeding` | engine state, certificate, evidence registry (`rc.mu`), the open turn of each role API, evidence budgets | run loop, lawyer API, council API, direct council backend, `/wait`, `/fail`, evidence reads |
| ARB case files | `arb/runtime/proceeding/run.go`, `evidence.go`, `common/casemanifest` | output directory: claim, case manifest, staging, evidence store, evidence manifest | claim of the directory, upload sessions, direct submissions, publication |
| AARD engine and runtime | `arbd/` | as ARB, with answers in place of votes | as ARB |
| ADC engine | `adc/engine/ADC/Core.lean` | a civil case: docket, motions, discovery, trial phase, jury, judgment; opportunities passed | some forty tools, each offered to one role at its time |
| ADC runtime | `adc/runtime/runner` | court state, certificate, the role API's turn (`api.mu`) | loop over opportunities, decisions, failures, deadlines by whoever sees them |
| Quick procedure | `quick/` | the lawyers' turn, transcript, events, terminal status (`runner.mu`) | one argument per lawyer, one vote per council member, sequential or parallel |
| Simple procedure | `simple/` | transcript | a sequential council without lawyers |
| Council selector | `common/councilsample` | eligible candidates and seats by endpoint | balanced draw, rejection |
| Records and documents | `common/recordio`, `caserecord`, `documents` | files | atomic writes, manifests, verified reads |
| Models | `common/modelgateway`, `openai`, `modelrequest` | accounting | provider protocols, retries |
| MCP | `common/mcpbridge`, `mcpcli`, `internal/mcpchild` | ready file, secrets on disk, child process | forwarding of tool calls, start and end of a child |
| Lawyer launcher | `internal/lawyer` | processes of the lawyers, session markers, error channel | start, exit, settlement, Stop |
| Local runs | `runtime/localrun/{arb,arbd,adc}`, `runtime/adjudicate`, `runtime/agent` | core, adapter, lawyers, council agents, what has been started for which opportunity | start, poll, watch, stop, read the result |

How they interact. A launcher starts a core process, an MCP adapter and the
lawyers; for each council opportunity the core opens it starts an agent. A
lawyer or agent, through the adapter or directly, long-polls `/wait` of the role
API and sends its answer. The API's handler checks it against the open turn,
asks the engine (a separate Lean program: one JSON request in, one response out)
and commits the new state; the run loop then asks the engine for the next
opportunity. The launcher reports agents that end early to `/fail`. When the
core has written its result and exited, the launcher stops everything else.
Clients never see the engine; the engine never sees time.

A case of ARB goes through openings, arguments, rebuttals, surrebuttals and
closings (plaintiff first; rebuttal and surrebuttal may be passed; evidence may
be submitted in the middle three), then deliberation in rounds, and is closed
with a resolution or fails with the party that failed its opportunity.

A case of ADC goes from the complaint through Rule 12 motions, answer,
disclosures, discovery, Rule 37 and Rule 56 motions and the pretrial order to a
trial by jury or bench: openings, each side's theory and evidence, rebuttals, a
charge conference, closings, and the verdict or the court's opinion, on which
judgment is entered.

What is hard about each part, and so what its properties are about:

* **ARB engine.** Long sequences of legal actions: members that fail in the
  middle of a round, a council too small to decide, evidence whose parent must be
  on record, authorities kept over a step that left their opportunity open.
  Correct means: a live case always has an opportunity, a resolution has the
  votes it needs in the last round alone, both sides were heard, and an authority
  is good for one step.
* **ARB runtime.** Five actors race for a turn: the owner's answers, other
  requests that find it expired or cancelled, the launcher's `/fail`, the timer
  and the run loop. The engine call is made with the lock held while the deadline
  may pass and the case may be cancelled. Correct means: a turn is resolved once
  and in time, by an answer sent for it, a client's mistake never ends the run,
  the certificate replays to the state, nobody sleeps through its turn, and the
  run ends even if nobody answers.
* **Evidence reads.** The lock is released while a file is read; the budget is
  reserved before and settled after, when the turn may be another one.
* **Case files.** Two processes may be given one directory; a process may be
  killed between any two file operations; an upload spans turns. Correct means:
  one owner, and what a manifest lists is whole on disk at every moment.
* **ADC engine.** An act forgets most passes, so turns come back; stages are left
  only when both sides have done their part, which they may pass or have no tool
  for; jurors drop out while questions, challenges and votes are pending. Correct
  means: no case is tried or adjudged on an incomplete record, the jury is one
  both sides could examine and challenge, the verdict counts those who remain,
  and the case ends.
* **ADC runtime.** A juror's deadline is applied by the ticker or by any request;
  ids of opportunities repeat; an event may fail to be stored after the court has
  moved; the run may be cancelled while a handler moves the court.
* **Quick.** Timer and cancellation callbacks that outlive their turn, failed
  writes that are rolled back, parallel answers in any order, and the
  distinction between a member that fails (which costs its vote) and an error of
  the procedure (which fails the run).
* **Launchers and children.** Every child may end by itself, be killed or be
  cancelled at every point of set-up, loop and shutdown, and its end may be
  reported once to one of two readers. Correct means: a success is a case that
  completed, what is left running is reported, no secret stays on disk, no member
  has two agents, and a cancelled run returns.

`PROJECT.json` ("components", "hazards") lists every part, modelled or not, and
every hazard with its line and the properties that would catch it.

## 2. Modules

| Module | Models | Kind |
|---|---|---|
| `ArbEngine` | `arb/engine/Main.lean` as operators on the state: opportunity, acceptance, effect | no variables |
| `ArbCase` | one ARB case: callers holding any authority ever issued; the log of accepted actions | abstract specification |
| `ArbRuntime` | the process of one ARB proceeding; `Case == INSTANCE ArbCase WITH st <- state, log <- cert` and `ImplementsCase == Case!Spec` | detailed specification, implements `ArbCase` |
| `ArbEvidenceRead` | overlapping evidence reads and their budgets | component |
| `ArbCaseFiles` | the output directory: claim, manifest, uploads, publication, crashes | component |
| `QuickCase` | the quick procedure | component |
| `AdcCase` | a civil case from complaint to judgment, as the engine and the autopilot drive it | component |
| `AdcJury` | jury selection and deliberation in full | component, one step each of `AdcCase` |
| `AdcRoleApi` | turns, requests, deadlines and certificate of the ADC runtime over a short agenda | component |
| `LocalRun` | the ARB launcher's `Run`: core, adapter, lawyers, council agents | component |
| `McpChild` | `mcpchild.Start`, its goroutine, the child and its files | component |
| `LawyerSupervisor` | the supervisor of the lawyers' processes | component |
| `LaunchedChildren` | `Run` over the two before it | composition: `INSTANCE`s of `McpChild` and `LawyerSupervisor` sharing the context |
| `ArbEngineProofs` | lemmas about the operators of `ArbEngine`, for the two modules after it | proofs |
| `ArbCaseProofs` | theorems about `ArbCase`: types, authorities, filings, custody of evidence; votes, rounds and resolutions | proofs |
| `ArbRuntimeProofs` | theorems about `ArbRuntime`, and that it implements `ArbCase` | proofs |
| `ArbCaseFilesProofs` | theorems about `ArbCaseFiles`, one owner and evidence on disk, and about `ArbEvidenceRead`, the budgets of reads | proofs |
| `QuickCaseProofs` | theorems about `QuickCase` | proofs |
| `AdcProofs` | theorems about `AdcJury` (verdicts, the selection of juries), `AdcRoleApi` (turns, deadlines, certificate) and `AdcCase` (the record of the case) | proofs |
| `LocalRunProofs` | theorems about `LocalRun` | proofs |
| `LaunchedChildrenProofs` | theorems about `LaunchedChildren` | proofs |
| `MCArbCase`, `MCArbRuntime`, `MCArbCaseFiles`, `MCQuickCase`, `MCAdcCase`, `MCAdcJury`, `MCAdcRoleApi` | values for TLC that a configuration cannot write down | model checking |

`ArbEvidenceRead`, `LocalRun` and `LaunchedChildren` need no such values: their
configurations check them directly. `Mutant:` in a comment marks a definition
that is not part of any specification: it is a plausible bug, and the property
named beside it in `PROJECT.json` ("mutants") fails when the bug takes the place
of the code.

## 3. Correspondence and abstractions

### Engine (`ArbEngine`, `ArbCase`)

Each handler of `stepCore` is a guard (`CanFile`, `CanPass`,
`CanSubmitEvidence`, `CanVote`, `CanUnseat`) and an effect (`File`, `Pass`,
`SubmitEvidence`, `Vote`, `Unseat`, `FailParty`); `Accepts` and `Apply` put them
together as `step` does, with `requireOpportunityAuthority` as `Authorized`.
`ContinueDeliberation` is part of every vote, removal and council failure, as in
the code. An opportunity is the record that its id string spells out.

* Texts, titles, hashes and sizes are left out: a payload refused for its form
  is one nobody offers. Technical reports are counted and limited as exhibits
  are, and are left out.
* The five filing actions differ in their names only and are one action, `file`.
* `remove_council_member` is accepted by the engine but never sent by the Go
  runtime; `ArbCase` sends it, `ArbRuntime` does not.
* `Held`: a caller may use the current authority or any under which an action
  was accepted. No other has been issued, for the state version moves with
  every accepted action.

### Runtime (`ArbRuntime`)

| Model | Code |
|---|---|
| `state`, `submitted`, `cert` | `rc.state`, `rc.submittedEvidence`, `rc.certificateActions` |
| `active[sv]` | `api.active` of the lawyer and council API, the local variables of a direct turn |
| `lock` | `rc.mu`, and the engine call its holder is about to make |
| `main` | the run goroutine: loop, `select`, `timeoutTurn`, `clearTurn` |
| `clock` | the deadline of the turn has passed; the context is cancelled |
| `asleep` | requests blocked in `/wait` |
| `fault` | history: the engine, the disk or a provider failed |

* A handler runs under `rc.mu`, so what it does up to its engine call is one
  step, and the call with the commit another: only time and cancellation can
  move in between, and they may (`Late`, `CallFails`).
* Several readings of the clock within one guard are one reading. `After` and
  `!Before` differ only at the very instant of the deadline.
* Council `/fail` compares member and opportunity before it looks at the
  deadline and never asks about cancellation first, unlike every other request:
  `MemberFails` keeps this.
* A deadline failure that is itself late is sent again without a deadline: one
  call of `DeadlineFailure`. The same call of the direct backend collapses
  likewise.
* A member's /wait may name the opportunity it has already seen (`seen`). A
  client's own baseline version is abstracted: a call whose baseline is old is
  answered at once and never sleeps.
* The version a turn answers with also moves when the turn completes; it is
  then read by nobody.
* A snapshot that cannot be written after the terminal answer is a failed run
  without the terminal signal.
* Evidence-submission's side files are present through their failure
  (`spoiled`): the manifest is rewritten before the deadline is looked at again,
  and an undo that fails ends the run. `ArbCaseFiles` has the files themselves.
* Observers, `get` and `status` requests read only and are left out.

### Evidence reads (`ArbEvidenceRead`)

`Reserve`, then `Serve`, `Discard` or `ReadFails`, as in
`lawyerEvidenceDoResponse` and `councilEvidenceDoResponse`. A turn is reduced to
its number and whether it is open (`active`, closed by `CloseTurn`). `stat_evidence`
does not touch the budget.

### Case files (`ArbCaseFiles`)

| Model | Code |
|---|---|
| `pc` | where each process stands in `prepareOutputDir`, `claimOutputDir`, `writeInitialCaseManifest` and then the case |
| `claim`, `temps`, `manifest` | the claim file, the temporary case manifests of `casemanifest.WriteAtomic`, the case manifest |
| `turn` | the open opportunity, its deadline and the cancellation |
| `sessions`, `evidence` | `rc.uploadSessions`, `rc.submittedEvidence` with `rc.evidence` |
| `commit` | the submission under `rc.mu` and its next file operation |
| `disk`, `listed` | staging files, evidence store, submitted copies; the evidence manifest |

* A byte is known by the turn whose client sent it and its place in the client's
  document, so a document mixed from two turns, short or out of order differs
  from a whole one; equal contents share a stored file, as by their hash.
* A process may be killed between any two file operations. What a power failure
  does to a write not yet synced is not modelled, so `Sync` is no step.
* The opportunities are a list in which no role has two turns in one phase
  (`CaseFilesAssumption`), as the engine's phases are one turn a side: an upload
  session is kept by its phase and role, not by its turn.
* The second rewrite of the case manifest, with the API's address, the import of
  the case's first evidence, lineage and the evidence events are left out.

### Quick (`QuickCase`)

| Model | Code |
|---|---|
| `main` | where `execute`, `runCouncil` and the end of `runConfigured` are |
| `active`, `verdicts` | `runner.active`, and all that was ever sent on a turn's `done` |
| `callbacks` | callbacks of `time.AfterFunc` and `context.AfterFunc` that have started |
| `transcript`, `written` | `runner.transcript`, `transcript.json` |
| `council` | the run's configuration; outcome of each request, attempts left, what the loop has received and recorded |
| `version`, `waits` | `runner.version`, the `/wait` of each polling lawyer |
| `terminal` | what the API says of the end |
| `fault` | history: something went wrong that may end a run |

* A handler holds `runner.mu` from its first read to its last write: one step.
* A write of the transcript followed by an event has three outcomes: both
  succeed, the transcript fails (and is rolled back in memory), the event fails
  (and the transcript stays). `transcript.json` is replaced by a rename, whose
  directory sync is not an error of the write.
* The context checks that follow one response are one check (`Outcome`).
* A procedure error of a member's request (`"error"`) stands for every error
  that is not a `councilMemberFailureError`: prompt, document, client error
  without a provider class, cancellation.
* `Close` is `api.Close`, `recordTerminalEvent` and the second `setTerminal`:
  its error turns a run that was reported done into a failed one. The tests of
  the repository (`TestShutdownRuntimeErrorRecordsTerminalFailure`) expect it.
* The setup before the API is open (files, council preflight) comes before
  `Init`.

### ADC case (`AdcCase`)

`Current` is the first opportunity `availableOpportunities` lists that is not
passed. One step takes it: its role uses a tool it offers, guarded by what the
tool's handler in `step` requires, or passes (`recordOpportunityPassFor`). Every
accepted act clears `passed`; passes under Rules 37 and 56 are written into the
case and stay.

* The case keeps of the docket the titles the engine looks for; of motions their
  movant and progress; of exhibits their numbers and which files they are.
* The roles have the tools that `casegen` writes into a case (a scenario file may
  give others: the setups with `instructions` and no jury are of that kind).
  Rule 11 (its tools are there, but `auto_rule11` is off unless a scenario sets
  it), defaults, settlement, Rules 41 and 68, protective orders and what follows
  a judgment are left out.
* The files that may be imported are finitely many (`Imports`); the code sets no
  such limit.
* Jury selection is one step to a sworn jury or none, deliberation one step to a
  verdict or a hung jury; `AdcJury` has them in full.
* `Setups` (`moves`) says which optional turns a case uses: one case with all of
  them has millions of states. The seven cases together use each.

### ADC jury (`AdcJury`)

One step takes the engine's current opportunity of jury selection or
deliberation and decides it, passes it or has its juror fail: a candidate is
replaced (`ReplaceCandidate`), a sworn juror removed (`RemoveJuror`), as
`timeouts.go` does. `Derived` is the engine's own move after a vote or a removal:
verdict, hung jury or next round. The trial between openings and charge touches
no juror and is the one phase `"trial"`. Policies are smaller than the six jurors
the code requires. Two accepted acts leave their turn open, a blank answer to a
voir dire question (`AnswerQuestion`) and a party's import of a file
(`ImportFile`); the policy's `idle` bounds them, the code does not.

### ADC role API (`AdcRoleApi`)

| Model | Code |
|---|---|
| `court`, `cert` | `r.state`, `r.certificateTransitions` |
| `pc`, `taken`, `cause` | where `Run` and `runAutopilot` are, opportunities gone through, the error |
| `turn`, `active`, `done` | the external opportunity, `api.active`, its channel of one place |
| `terminal` | `api.terminal` and its error |
| `sent` | requests composed; each may arrive at any time and any number of times |

* The engine is reduced to what turns see: a version, and an agenda of
  opportunities of four kinds (party, candidate, juror's vote, a role the process
  plays itself).
* Every handler holds `api.mu` and so is one step. The run loop assigns
  `r.state` without it between turns; only the read-only status handler can see
  that, and it is left out, as is long polling.
* `FaultSets`: events that cannot be stored, a failing server and a cancellation
  come one kind per run.

### Launcher (`LocalRun`) and its children (`McpChild`, `LawyerSupervisor`, `LaunchedChildren`)

| Model | Code |
|---|---|
| `LocalRun!core` | the core as the launcher sees it: stages from start to exit, open opportunity, council |
| `LocalRun!caseDone`, `mcpDone`, `errs`, `pending` | the channels `Run` selects on and what it still has to receive |
| `LocalRun!agents`, `starts` | each council agent's client process (`at`), container (`box`), launcher's stop of it (`stop`), token and place in the launcher's list; `s.councilStarts` |
| `McpChild!main`, `waiter`, `done` | `Start`, its goroutine and the channel with the child's end |
| `McpChild!files` | private directory: signing key, bearer token, ready file |
| `LawyerSupervisor!lock`, `procs`, `gor`, `queue` | `startStopMu`, `processes`, the exit goroutines, the errors channel |
| `LawyerSupervisor!crem`, `marked`, `rec` | the container's removal, session marker, finish record |

* `LocalRun` sees the adapter and a lawyer as processes that end well or badly;
  `LaunchedChildren` has them in full and `Run` reduced to the order in which it
  starts, watches and stops them. The context is one variable shared by all. Of a
  lawyer `LocalRun` follows the client process; its container is
  `LawyerSupervisor`'s.
* The launcher's stops are bounded, and any of them may fail. `BeginStop` removes
  the agent's container, or fails to (no container id recorded, `docker rm`
  refused) and kills the client instead; `GiveUp` is the end of the 30 seconds of
  `agentStopWait`. The run goes on with an error and, it may be, with a process
  alive. A second stop of such an agent can only kill its client, since the first
  has deleted the container's id. `ShutLawyers` is one step: `Supervisor.Stop`, with
  its own time-out, returns an error if a lawyer is left.
* A client that the cancelled run kills may leave its container running
  (`AgentExits`), and so may a start that fails once the container runs
  (`StartAgent`).
* `select` takes any ready case. Polls of the core may fail at any time.
* An agent's end is noticed, the core asked about it and its failure reported in
  three steps (`AgentWaited`, `AgentAsks`, `AgentReports`), between which the core
  moves on.
* Building of command lines, prompts, capability files and output files is left
  out, and so are the launchers' state files.

## 4. Runs

None is bounded by depth. Each ends in well under two minutes with two workers.

| Run | Instance | States | Shows |
|---|---|---|---|
| `arb_case` | 3 members, 2 votes required, 2 rounds, one item of evidence per side | 33 058 | `TypeOK`, `LiveCaseHasOpportunity`, `DecisionSound`, `HeardBothSides`, `CustodyChain`, `AuthoritySpentOnce`, `RoundEndsWhenAllVoted` |
| `arb_runtime` | 2 members by API or asked directly, 1 round, 2 attempts, 2 polling clients, fairness | 89 448 | `OneResolutionPerTurn`, `NoLostWakeup`, `NothingCommittedLate`, `AnswersOwnOpportunity`, `RunEnds` |
| `arb_record_runtime` | 1 member; evidence and exhibits in the turns | 87 092 | `CertificateVerifies`, `OnlyFaultsEndRuns`, `ImplementsCase` |
| `evidence_read` | 3 overlapping reads, 2 turns, lengths 1 and 2, budgets of 3 reads and 4 bytes | 10 107 | `BudgetExact`, `ServedOnlyWhileOpen` |
| `case_files` | 2 processes, 4 turns, 1 upload session, documents of 2 bytes | 217 263 | `OneOwner`, `EvidenceOnDisk` |
| `quick` | 3 members in turn or at once; or 1 member, 2 attempts and a polling plaintiff; fairness | 443 898 | `TurnsSettledOnce`, `TalliedInOrder`, `OutcomeIsSound`, `NoLostWakeup`, `RunEnds` |
| `adc_case` | seven cases, jury and bench, fairness | 57 310 | `RecordComplete`, `CaseEnds` |
| `adc_bench` | a bench case as `casegen` writes it | 81 to the violation | `BenchCasesAreDecided` is violated (section 7) |
| `adc_jury` | six selections, two juries of 3 and 4, up to two blank answers or imports, fairness | 753 168 | `VerdictSound`, `JurySelectedFairly`, `TrialEnds` |
| `adc_roleapi` | seven opportunities, 2 requests, 2 attempts, one kind of fault per run, fairness | 41 367 | `CertificateVerifies`, `OneOutcomePerTurn`, `NothingLate`, `RunEnds` |
| `local_run` | 1 lawyer, 1 member with two opportunities, an output limit, fairness | 443 273 | `SuccessIsReal`, `OneAgentPerMember`, `NothingLeftUnreported`, `ShutdownEnds` |
| `launched_children` | adapter with a bearer token, 1 lawyer in a container with a session, fairness | 20 199 | `NothingLeftBehind`, `ResumableIsCompleted`, `CancelledRunReturns` |

What the bounds leave possible:

* Three members of whom two must agree: after one failure the two left still
  decide when they agree, after two none can, and three votes always do. Two
  rounds make a vote of the first a possible mistake in the second. Two new ids
  make chains, orphans, duplicates and a parent submitted by the other side. The
  theorems cover every other policy.
* Two members give a turn of one API after another of it, so a request for the
  first may arrive in the second; two attempts tell a consumed attempt from the
  last one. The parties' turns come before, over the other API, so a signal that
  reaches only one of them shows.
* Two overlapping reads fill the budget between them, the third finds it full;
  the second turn receives the late end of a read of the first.
* The plaintiff has turns in three phases with one of the defendant's between,
  so an upload crosses turns, phases and roles; two bytes make a short write and
  a repeated chunk. A second session takes nine times as long; what two sessions
  share is the store, which direct submissions use too.
* Three parallel members give two that overtake a third, and a first error with
  others on both sides of it.
* The agenda of `adc_roleapi` has two turns of one actor in a row (where ids
  repeat), a candidate questioned twice, a step of the court's own, and two
  jurors. `MaxTurns` is nine: seven opportunities and two repeated by a failure.
* A jury of three that must be unanimous over three rounds, and one of four that
  needs half over two (where both sides may have the votes), with any juror
  leaving at any turn; selections with a question refused, two questions, a
  challenge, strikes, and a spare candidate. Two acts that settle nothing let a
  question be answered blank twice, or be blank for a candidate that then fails;
  one more imports a file at a challenge or a strike.
* One member with two opportunities has an agent of the first still running or
  exiting when the second is opened. A second member, and a second lawyer in
  `launched_children`, exceed five minutes.

Bounds by name: `MaxTurns` of `ArbEvidenceRead` and `AdcRoleApi` (a limit of the
code in the latter), `MaxSent` of `AdcRoleApi`, `MaxUploads` of `ArbCaseFiles`,
`MaxOpps` of `LocalRun`, `spares` and `idle` in a policy of `AdcJury` (candidates
that fail and are replaced; blank answers and imports), `moves` and `Imports` of
`AdcCase`. `ArbCase`, `ArbRuntime`,
`QuickCase` and `LaunchedChildren` have none: what they do is bounded by the
case. Payload sets (`ExhibitLists`, `NewEvidence`, `FailureReasons`, `Damages`)
are small sets named in the configurations.

Deadlock is checked wherever a case that is over stutters explicitly (`Done`,
`Finished`, `Over`, `Quiet`); the configurations that switch it off say why:
their systems stop, and a liveness property, where there is one, says where.

## 5. Fairness

The runs `arb_case`, `arb_record_runtime`, `evidence_read`, `case_files` and
`adc_bench` use `Spec` without fairness. The others assume:

* `ArbRuntime`: weak fairness of the run loop, of the engine call (the engine
  runs with a time limit and its caller holds the lock until it returns), of the
  direct provider call (made under the turn's context, which has a deadline) and
  of the passing of the deadline. Nothing is assumed of any client: no request
  need ever arrive.
* `QuickCase`: weak fairness of the run goroutine, of a callback that is due, of
  the lawyer's deadline, of each member's deadline, and of the return of a
  request whose context has expired. Nothing is assumed of the lawyers, and
  nothing of the providers before the deadline.
* `AdcRoleApi`: weak fairness of the run's goroutine, of its ticker (`Expire`)
  and of the passing of a turn's deadline. Clients owe nothing. `RunEnds` excepts
  a failed server, for the reason in section 7.
* `AdcJury`, `AdcCase`: weak fairness of `Next`. The role API gives the parties
  of a civil case no deadline of their own, so here it is asked of the parties,
  not given by the code, that they take the turn they are offered; what they do
  with it is free but for acts that settle nothing, of which there are finitely
  many: imports of files in both (`Imports`, `idle`), blank answers of candidates
  in `AdcJury` (`idle`). `CaseEnds` and `TrialEnds` say that the procedure ends
  under that condition. The engine does not impose it: parties that go on
  importing, or a candidate that goes on answering blank, get the same turn again
  until the runner breaks off with an error after `max_turns` turns
  (`adc/runtime/runner/autopilot.go:35`, `98`).
* `LocalRun`: weak fairness of `Run`, its timers included (`GiveUp`, the grace
  period), of the ends of core and adapter once their context is cancelled, of the
  core's start-up and of its exit once its API is closed, and of the goroutines
  that follow an end of an agent or a lawyer. No agent and no lawyer need ever
  end, and no case finish by itself: `ShutdownEnds` starts from a cancellation or
  an error and says that the shutdown's bounded waits bring it to its end.
* `LaunchedChildren`: weak fairness of goroutines, of the startup timeout, of
  removal commands and of what os/exec does to a process whose context is
  cancelled. `GiveUp` has strong fairness: the loop of `waitReady` leaves and
  re-enters its `select` at every poll, and Go's choice among ready cases is
  random, so a case that is ready again and again is taken. No child need publish
  its address or end by itself.

A cancellation that is ready in a `select` together with a verdict may or may
not be chosen; nothing is assumed of the choice.

## 6. Proofs

Each result below holds for every value of the constants that the named
assumptions allow; TLC evaluates the assumptions on every run. Each invariant was
checked by TLC on the run of its module before it was proved. Every proof module
is laid out alike: the inductive invariant as a conjunction of named parts, lemmas
on the operators, one lemma for each action or group of actions, one for the whole
step, and the theorems.

### One case of ARB (`ArbEngineProofs`, `ArbCaseProofs`)

For every council size, number of required votes, rounds, limits and evidence
sets that `PolicyAssumption` allows (what `validatePolicy` requires) and lists of
exhibits (`ExhibitAssumption`), and for callers holding any issued authority:

* `TypeCorrect`: `Spec => []TypeOK`. `Apply` maps `State` into `State` for every
  accepted action; each helper of the engine (`AddFiling`, `File`, `Pass`,
  `SubmitEvidence`, `ContinueDeliberation`, `Vote`, `Unseat`, `FailParty`) has a
  lemma of its own in `ArbEngineProofs`.
* `AuthorityNeverReused`: `Spec => []AuthoritySpentOnce`. The property is not
  inductive: that a new authority differs from all earlier ones needs to know
  that every logged authority has a smaller version than the state.
  `VersionInv` says so; each accepted action raises the version by exactly one
  (`ApplyType`), which is what `ContinueDeliberation`'s single `Bump` and
  the handlers' own amount to.
* `BothSidesHeard`: `Spec => []HeardBothSides`, from `FilingsOrdered`:
  `Spec => []FilingsInOrder(st)`. The strengthening gives, for each phase, the
  filings of the phases before it (complete), of itself (begun, but not
  complete) and after it (none); it is kept by a filing (`FileKeepsOrder`), by a
  pass (`PassKeepsOrder`) and by everything that leaves phase and filings alone
  (`OrderFrame`).
* `EvidenceInCustody`: `Spec => []CustodyChain`. The property is inductive given
  the types. A submission keeps it (`SubmissionKeepsCustody`) because its id is
  new and its parent is in the catalog or earlier in the list; every other
  handler, a vote that closes the case included, leaves the list alone
  (`DeliberationKeepsEvidence` and the lemmas after it).

The invariant of the council, `CouncilInv`, says what the properties leave out:
before deliberation nobody has voted and every seat is taken; in deliberation
(`InSession`) the round is one the policy allows, no vote is of a later round, the
current voters are different and seated, and somebody is still to vote; a closed
case has a sound resolution. `CouncilOrdered` proves
`Spec => [](TypeOK /\ CouncilInv(st))`, by one lemma on a vote
(`VoteKeepsCouncil`), one on a failure or removal (`UnseatKeepsCouncil`), both
through `ContinueKeepsCouncil`, and one on everything a party does
(`UntouchedCouncil`). From it:

* `VotersStaySeated`: `Spec => []CurrentVotersSeated`. Not inductive alone: that
  a new round starts without voters needs `votes[i].round <= round`.
* `ResolutionSound`: `Spec => []DecisionSound`. The code counts votes; the
  property counts members. `ReachedByVoters` maps one to the other by a
  bijection, and `OneSideReached` shows with the library's majority-intersection
  theorem that both sides cannot reach `RequiredVotes`. This is where the
  strict majority `validatePolicy` demands is used.
* `LiveCasesGoOn`: `Spec => []LiveCaseHasOpportunity`. In a party's phase it
  follows from `FilingsInOrder`, in deliberation from `Pending(st) # {}`. The
  lemma behind the latter, `RoundFacts`, is that the code's comparison of two
  numbers, votes and seats, says that nobody is pending.
* `RoundsEndComplete`: `Spec => RoundEndsWhenAllVoted`, an action property: each
  accepted action is a `RoundStep` (`ApplyEndsRound`).

### The runtime of ARB (`ArbRuntimeProofs`)

For every policy, either council backend, every attempt limit and any clients
(`RuntimeAssumption`). `RuntimeConsistent` proves `RuntimeInv`, whose parts say
why a turn, the lock, the engine's state and the loop agree:

* `OneTurnOpen`: the only turn open on any server is the loop's own, and its
  `done` channel is full exactly when it is completed. Without it a second
  completion of a turn, or one of a turn that the loop has left, is not excluded.
* `TurnIsCurrent`: until it is completed a turn holds the authority the engine
  would issue now, through every submission of evidence in between.
* `LockServesTurn`: whoever holds the lock is about to send an action that the
  engine accepts for the open turn. Time and cancellation move between the two
  halves of a handler; this is what survives them.
* `RegistryAgrees`: the runtime's own list of submitted evidence is the engine's;
  the guard of a submission reads one and the engine the other.
* `ErrorsExplained`: an error on its way out has a fault or a cancellation behind
  it.
* `TurnsCounted`: the entries of the certificate that resolve a turn are as many
  as the turns the loop has gone through.

From it: `TurnsResolvedOnce` (`OneResolutionPerTurn`), `RunsEndInErrorForCause`
(`OnlyFaultsEndRuns`), the action properties `CommitsInTime`
(`NothingCommittedLate`) and `AnswersMatchRequests` (`AnswersOwnOpportunity`), and
`NobodyOversleeps` (`NoLostWakeup`): a sleeper's reason to wake appears only in
steps that broadcast (`SleepersUndisturbed`, `RunLoopWakes`, `AttemptWakes`,
`ErrorWakes`).

The refinement: `RuntimeImplementsCase` proves `Spec => ImplementsCase`, that is
`Case!Spec` under `st <- state`, `log <- cert`. Initial states map to initial
states (`SameInit`); only an engine call that commits changes `state` or `cert`
(`OnlyCommitRecords`), and it is a `Case!Step` because, by `LockServesTurn` and
`TurnIsCurrent`, its authority is one the case has issued and the engine accepts
it (`CommitFacts`). So the theorems about `ArbCase` hold of every run of the
runtime.

`CertificateReplays` (`CertificateVerifies`) says what `VerifyReplayCertificate`
checks: folding the engine over the certificate, each action under its listed
authority, reaches the state. No induction over data is needed. The library
defines the fold by a `CHOOSE` of a recursive function; `FoldingExists` and
`FoldsAgree` look at the first place where that function would fail to exist, or
to agree with the one of a longer record, and find none. What is left is one
fact, `FoldLeftAppend`, that the fold of an extended record is one more step; it is
needed only where the certificate grows.

### The output directory and the evidence reads of ARB (`ArbCaseFilesProofs`)

For any number of processes, turns, sessions and bytes (`CaseFilesAssumption`).

`DirectoryHasOneOwner`: `Spec => []OneOwner`. `OneOwner` alone is not inductive:
that nobody else is past the check when a process renames its manifest needs that
a process between its claim and its release still holds the claim (`ClaimHeld`),
that temporary and final manifests belong to processes that have passed the check
(`FilesAreOwn`), and that a manifest in the directory keeps every later claimant
out (`ManifestHeld`), which is why the second look at the directory, after the
claim, is needed. The conjunction, `DirInv`, is inductive.

`EvidenceIsKept`: `Spec => []EvidenceOnDisk`, from `CaseInv` on top of `DirInv`.
What is published must be whole although a process may die between any two file
operations and an upload crosses turns. The parts: a published name never holds
less than the document (`PublishedWhole`), for only whole documents are linked or
renamed to one; a staging file is a beginning of the document of the turn that
its session belongs to (`StagedInOrder`), which needs sessions to be those of the
current turn or older (`SessionsOfTurn`); a submission under way is of the open
turn, has its files up to the step it has reached and a free place under the limit
(`CommitInOrder`); and a manifest lists what was decided and has its files
(`ListedKept`, `ListedAsDecided`, `WithinLimit`). `OneOwner` enters where a step is
shown to be the only writer (`ServerAlone`).

`BudgetsAreExact` and `ReadsServedInTheirTurn` are about `ArbEvidenceRead`, for any
number of reads in flight, any lengths, limits and number of turns. `BudgetExact` is
inductive given the types (`ReadInv`), but speaks of a sum over a set of reads that
changes at every step. The lemmas on sums show that it gains or loses exactly one
read's bytes, whichever read of the set is taken out. A read of an earlier turn is in
no sum of the present one: that is why its late end must give nothing back.

### Quick (`QuickCaseProofs`)

For every set of configurations with a strict majority (`QuickAssumption`).
`HearingConsistent` proves `QuickInv`: an attempt is left wherever an answer may
still come (`AttemptsLast`); the lawyers' turns come one after the other and a
verdict on a turn has its cause (`TurnsInOrder` with `Earned`), which is what a
callback that outlives its turn could spoil; nothing is blamed without a fault
(`FaultsExplain`); every seat that was tallied has an outcome and an entry
(`SeatsTallied`); the record lists them in roster order (`TalliedInOrder`). From
it `LawyerTurnsSettledOnce` (`TurnsSettledOnce`), `RecordInRosterOrder`
(`TalliedInOrder`), `EndIsSound` (`OutcomeIsSound`) and `NoLawyerOversleeps`
(`NoLostWakeup`).

### The jury of ADC (`AdcProofs`)

For every jury policy that `PolicyAssumption` allows (of what
`set_jury_configuration` checks, only that the minimum is at least one and at most
the jury), every choice of the parties, judge and jurors, and any number of jurors
that fail and of acts that settle nothing. `JuryConsistent` proves `JuryInv`:

* `SelectionInv`: nobody is sworn before the whole jury is; a juror who was struck
  or excused for cause is neither a candidate nor sworn again.
* `PollInv`: nobody votes before deliberation or ahead of the round, and the
  voters of the round are different and still sworn.

`VerdictsAreSound` (`VerdictSound`) rests on `PollInv`: the code counts votes, the
property jurors, and the two agree because each juror has one vote in the round
(`CountFacts`). `Derived`, the engine's move after a vote or a removal, is taken
apart once (`DerivedCases`), and each outcome is shown sound for any state whose
poll is open (`DerivedSound`), so that casting a vote and losing a juror, which
changes the number of votes required in the middle of a round, are one argument.
A poll is open whenever a vote is asked for (`PollIsOpen`): with a verdict, or
hung, nobody is left to vote.

`JuriesSelectedFairly` (`JurySelectedFairly`) rests on the order of the
opportunities: the jury is sworn only when that is the first of what is listed
(`TurnKinds`, from `SelectionOffered`: the first exists and is the least), so that
no questionnaire, ruling, answer, challenge or strike is left (`NothingOpen`).

### The role API of ADC (`AdcProofs`)

For every agenda of well-formed opportunities (`AgendaAssumption`), limit of
attempts, of turns and of requests. `RoleApiConsistent` proves `RoleInv`: a turn is
open only while the run waits in it (`RunInv`); what the last turn entered in the
certificate lies beyond the version it was given out at (`AfterItsVersion`), so the
engine, which knows its own version, takes no second decision of it; and a turn not
completed has moved the court by an unstored decision at most (`OpenTurn`). From it

* `TurnsDecideOnce` (`OneOutcomePerTurn`): a turn makes at most one decision and
  fails at most once; both only when the decision's event could not be stored.
  Entries of the certificate are told apart by their places.
* `NothingHappensLate` (`NothingLate`), an action property.
* `CertificateReplays` (`CertificateVerifies`): the replay of the certificate
  reaches the court, with the same lemmas on folds as for ARB.

### A civil case of ADC (`AdcProofs`)

`RecordsComplete`: `CaseSpec => []RecordComplete`, for every set of cases
(`SetupAssumption`: with or without a jury, a defective complaint or the instruction
tools, with any files and any choice of optional turns), every set of files that may
be imported and all limits. The argument has three parts.

* What can be offered when. The engine answers with a list of opportunities built by
  concatenation, the current one being the first not passed. `FirstOpenOf` says of a
  list in two parts that its current opportunity is one of the first part, or that
  the first part has been passed as a whole. With it `StageOfTool` finds, for each
  tool, the stage of the case in which it can be offered, and that the court's own
  turn (order, transition) is reached only over a list passed as a whole.
* What it means that a list was passed. A pass is only recorded of a turn that may
  be passed, and never of a Rule 37 or 56 motion, whose passes go into the case
  (`PassesOptional`). So if all pretrial papers are passed, every mandatory list
  among them is empty: that is `NothingPending`, and there the disclosures, the
  requests and answers of both sides, and the motions decided are read off the
  engine's own conditions.
* What stays true afterwards. `CaseInv` keeps it: the pretrial order closes Rule 56
  (`OrderFinal`: no motion is pending once it is entered, and each side has moved or
  passed; a further motion is not offered, since its window is shut by the order),
  the discovery record does not change after pretrial, late imports of files
  included (`ImportCaseFileKept`: a file counts for discovery once it is produced),
  and each phase of the trial is entered only from the one in which its foundation
  was laid (`StagesRested`, `ModeKept`, with `NextPhaseIs` for the order of phases
  of jury and bench trials).

`CaseConsistent` is the invariant as a theorem of its own. One lemma per action, or
per group of actions with the same frame (`Kept`, `EnterKept`, `StaysFiled`,
`StaysPretrial`, `PretrialKept`, `TrialKept`, `StatusStep`).

### Launchers (`LocalRunProofs`, `LaunchedChildrenProofs`)

For every roster, set of automatic lawyers and number of opportunities
(`LauncherAssumption`), `LauncherConsistent` proves `LauncherInv`: what the
channels of core and adapter hold is the end of the process they announce
(`OutcomeOfCore`, `OutcomeOfMCP`), the stages after core and adapter are passed only
once these have ended (`WaitedInOrder`), the shutdown is reached without an error
only by a completed case with its summary written (`SuccessEarned`), an agent with
a client or a container is on the list that stops go by, or is one whose stop has
failed (`AgentsListed`), and what the launcher has failed to stop goes with the
error that `Run` returns (`StopsReported`). The last two are what replaces a
guard that everything has ended: a stop may come to its end in any of four ways,
and each must leave either nothing or an error. From `LauncherInv`:
`MembersRunAlone` (`OneAgentPerMember`), `SuccessMeansCompleted` (`SuccessIsReal`)
and `RunReportsWhatItLeaves` (`NothingLeftUnreported`).

For every set of lawyers, with or without containers, sessions and a bearer token
(`ChildrenAssumption`; no lawyer is named as the free lock is),
`ChildrenConsistent` proves `ChildrenInv`: the adapter's end is announced once and
after its directory is gone (`AdapterWaited`, `AdapterDriven`), every process
started is among the supervisor's and has a goroutine (`ProcessesKept`), `Stop` has
awaited or still has to stop each of them or has given up (`StopReaches`), and the
marker of a session says at each stage of its settlement what the record will say
(`MarkerKept`). From it `NoChildLeftBehind` (`NothingLeftBehind`) and
`MarkersTellTheTruth` (`ResumableIsCompleted`).

Beyond the prover: liveness under fairness and `ENABLED`, and anything about a
`RECURSIVE` operator (the modules declare none). Induction over data is beyond it
as a rule of inference; where a result needs one, for folds and for sums, it is
replaced by an argument about the least number at which the claim fails.

## 7. Divergences met

Found while modelling, each visible in the model named:

* **Bench cases stop undecided** (`AdcCase`, run `adc_bench`, in `PROJECT.json`
  "findings"). The charge conference ends only when both parties have proposed a
  jury instruction, in bench trials too (`adc/engine/ADC/Core.lean:3175`), and the
  parties of a generated bench case do not have that tool
  (`adc/runtime/casegen/casegen.go:494`, `541`). The engine then offers no turn.
  The generator asserts of every bench case that it ends in `judgment_entered`.
  A jury case stops in the same way when a party passes its proposal, and any
  case when a party passes its closing: `Stranded`, which `CaseEnds` excepts.
* **ADC motions**. A Rule 12 opposition or reply is still offered after the
  motion has been decided, and refused when made; an order with leave to amend
  closes the case, so nothing can be amended, while a denied motion demands an
  amended complaint; summary judgment does not end the case. Optional turns are offered again after every accepted act. `AdcCase` does the
  same; `CaseEnds` shows that none of it goes on for ever, imports of files apart.
* **A blank voir dire answer** (`AdcJury`). `answer_voir_dire_question` accepts a
  response that is blank (`adc/engine/ADC/Core.lean:3841`), and a question with a
  blank response counts as unanswered (`1030`): the candidate gets the same
  opportunity again. A blank answer to the questionnaire is refused (`1003`).
* **A failed server leaves an ADC run waiting** (`AdcRoleApi`). When the case
  API's `Serve` fails, `setTerminal` drops the open turn and its deadline no
  longer ends it (`adc/runtime/runner/roleapi.go:139`); the run waits until it is
  cancelled. `adc/manual.md:186` and `205` promise an end by deadline.
* **Repeated submissions in ADC** (`AdcRoleApi`). Opportunity ids repeat from one
  state to the next, and a submission need not name its state version
  (`roleapi.go:853`): sent again without one, it may decide the same actor's next
  opportunity. `OneOutcomePerTurn` therefore asks only of requests that name their
  state that they decide no opportunity but their own.
* **A vote that is counted but not stored** (`AdcRoleApi`). When storing the event
  of a juror's vote fails, the court has moved; the juror may then be removed for
  its silence while its vote stays counted (`roleapi.go:956`), against
  `adc/docs/juries.md:11`.
* **An exit reported too late cancels a case that could go on** (`LocalRun`). An
  agent's exit that crosses its opportunity's deadline is reported to a core that
  refuses it, and the refusal is an error of the launcher
  (`runtime/localrun/arb/localrun.go:2529`); so is the output limit's kill of a
  process that has just ended. `arb/docs/case-failures.md:13` has the member fail
  and the case continue. Likewise an agent that has voted and then exits with an
  error fails the start of its member's next agent, and one whose member was
  failed makes the shutdown of a completed case return an error.

## 8. Only model-checked, not modelled

Model-checked only:

* Liveness: `RunEnds` of the three runtimes, `CaseEnds`, `TrialEnds`,
  `ShutdownEnds`, `CancelledRunReturns`. Neither fairness nor `ENABLED` is within
  the prover's reach.

Every safety property and action property that a passing run checks is also the
statement of a theorem. `BenchCasesAreDecided`, which the code violates, is not.

Not modelled, and why:

* AARD: its runtime repeats ARB's file by file; its engine differs from ARB's in
  having one round of deliberation and answers from 0 to 100 in place of votes,
  so that its control is that of `ArbCase` with `MaxRounds = 1`. No run of its
  own yet.
* The launchers of AARD and ADC repeat the ARB launcher that `LocalRun` models.
* The council selector: a sequential draw before a case opens.
* ADC's direct runner, a sequential loop over provider calls; Rule 11 and the
  handlers no generated role has a tool for; post-judgment motions.
* The Lean adapter, command lines, MCP bridge, gateway, records, reports,
  evaluations, case generation: translation, formats and sequential batch work,
  without state that several actors share. The models rely on what they promise:
  a file is replaced whole or not at all, a call returns an answer or an error.

Most of the repository's lines are of these kinds or repeat each other between
the four procedures, which is why the map covers less than a tenth of them; what remains
with control of its own is in the plan.

## 9. Plan

Modules, in this order:

1. `AardCase`: the AARD engine's answers and single round, and its runtime as an
   instance of `ArbRuntime`'s protocol.
2. `CouncilSelector` (`councilsample/selector.go`): the balanced draw with
   rejections, seats within one of each other while endpoints stay eligible.
3. Long polling in `AdcRoleApi`, as in `ArbRuntime`.

Theorems: those of the modules above, on `ArbRuntime`'s and `ArbCase`'s
pattern; and, for `AdcCase`, that it is what `AdcJury` refines where a jury is
selected and deliberates.
