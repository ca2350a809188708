# A formal model of the CTF referee

The repository is the host side of an attack/defence game: every player runs a
service in a micro-VM, a tick loop plants flags in the services and probes them,
attackers submit flags they got out of somebody else's service, and a watcher
redeploys a service when its player pushes. This directory holds TLA+ modules of
that host side, the configurations TLC checks them under, and theorems that TLAPS
proves. Paths are those of the repository; `state.py`, `tick.py` and so on are
under `src/orchestrator/`.

## 1. Inventory

### 1.1 Components

| component | code | state | operations | model |
|---|---|---|---|---|
| ledger | `state.py` | sqlite tables `players`, `flags`, `uptime`, `submissions`, `deploys`, `events`; `meta` (`tick`, `frozen`) | one method per statement, each committed by itself | `Ledger` |
| tick loop | `tick.py` | main thread's place, thread pool of at most 16, one job per player and tick | advance the tick, settle the defence bonus, probe and plant, expire, render | `TickLoop` |
| submission API | `submit.py` | one thread per request, rate-limit deques, the tokens it started with | `Referee.submit`, `rate_limited` | `Submit`, `Limiter`, `Roster` |
| operator | `bin/ctfctl` | none of its own | freeze, review, deploy; reset, backup, restore; roster, keys, self-test | `Referee`, `Deploys`, `Season` (reset), `Roster`; the rest left out |
| deploy pipeline | `deploy.py` | working tree, build output, data disk, VM | sync, validate, build, fixtures, pack, restart, healthcheck, record | `Deploys` |
| watcher | `watcher.py` | none across sweeps | sweep the roster, deploy who has pushed | `Deploys` |
| manifest check | `validate.py` | none (pure) | `validate`, `protocols`, `carries_flags` | `Manifest`, `ManifestCheck` |
| scoreboard | `render_board`, `leaderboard.py` | `scoreboard.json` and its temporary file | render, rename, serve | `Scoreboard` |
| probes | `probes.py` | none of their own | health, plant, fetch | `Http1` (the scripts), `Season` (the notes); outcomes only in `TickLoop` |
| HTTP clients | `httpclient.py`, `hpack.py` | a time budget, the connection's windows, HPACK's dynamic table | request, read the response, close | `Http1`, `Http2`, `Hpack` |
| player list | `config.py`, `sync_roster`, `watcher.py`, `submit.py` | `ctf.toml`, table `players`, the copies each unit keeps | edit, sync, start | `Roster`, `Addresses` |
| VMs and network | `topology/` | PID files, scopes, namespaces, packet filter | planes up, start, stop, restart | one step of `Deploys`, fresh disks in `Season`, taps, routes and guests in `Addresses` |
| units | `systemd/` | none | `Restart=always` | the restart actions |

The installer, preflight checks, self-test and the tests themselves
keep no state that the referee acts on and are not modelled (section 8).

### 1.2 Interactions

* Tick loop, submission API, watcher, and every `ctfctl` command are processes of
  their own. They share the ledger and **nothing keeps them apart but sqlite's
  statements**: each connection autocommits, so an action of the model is one
  statement of one process, and everything else may come between two of them.
* The tick loop hands each player's row to a job in a thread pool and waits for the
  jobs in roster order, each at most a time limit. The limit ends the wait, not the job.
* Watcher and `ctfctl deploy` run one pipeline over one working tree, one build
  directory, one disk image and one VM per player, with no lock.
* Everything that changes scores renders the whole board through one temporary name.
* A probe opens one connection, makes up to two requests on it, and closes it however it
  ends. Over HTTP/2 the two ends then share state that no message carries whole: the
  windows, and the tables of the header compression.
* The player list is read once by each long-running unit; the ledger's copy is brought in line
  by every command that opens it, the hourly backup included.
* A player's address is its block's position in the list. The table, the routes, the data disk, the
  guest and each process's copy of the list hold it from different moments on.
* systemd restarts tick loop, submission API and watcher whenever they die.

### 1.3 Hard behaviours and what makes each part correct

`PROJECT.json` lists every hazard at its line. The ones the properties aim at:

| part | what is hard | what must hold |
|---|---|---|
| submission | a duplicate check and an insert in two statements; the tick is read five statements before the mark; mark and record are two commits | a flag scores once per attacker; a credited flag is marked; a mark is within the flag's life |
| bonus | settled once, right after the tick has moved, in three statements per player; the process may die in the middle | rungs up and unstolen are paid; a death costs one tick's bonus at most |
| jobs | stragglers plant and record for an old tick; exceptions leave the loop over the rungs | results are never taken back; at most K live flags; the SLA flag is still there; a tick ends |
| review | fetched and updated in two statements; the manifest may change under a flag | points match the class; a decided row is final, short of two overlapping reviews |
| deploys | failures at every stage, a killed process, a second pipeline, an uncaught exception | the row is the truth about the VM; only vetted code runs; the last push is served |
| board | shared temporary name, rename by name, killed renderers | a reader sees a whole board; the board catches up |
| HTTP/2 prober | strings it cannot decode, a table that must match the peer's, windows that outlive a response, endless control frames | an index means the same field to both ends; a request ends without its time limit |
| HTTP/1.x prober | responses cut up anywhere, bytes left in the buffer or on the socket, persistence decided per response | a verdict follows from the answers; a request keeps to its budget |
| season | a patch wipes notes and keeps flags; reset statement by statement | patching costs no uptime; a season begins empty |
| roster | copies read at different times; deploys under way for who was removed | removed players are not probed; newcomers can play |
| addresses | five copies made at different times; addresses that change hands | a probe reaches the player's own VM |
| rate limit | one deque, many threads, no lock | no window has more hits than allowed, but for one per thread |
| manifest | the healthcheck picks rungs by other rules than scoring | every rung has a port; the rung that lets a service in is scored |

## 2. Modules

```
Manifest ── Ledger ──┬── TickLoop ──┐
   │                 └── Submit ────┴── Referee ── RefereeProofs ──┬── CaptureProofs   Referee implements Game
   │                                                               └── RoundProofs
   └── ManifestCheck
Hpack ── Http2 ──┐
Http1 ───────────┴── MCProbes
Scoreboard, ManifestCheck, Deploys, Season, Roster, Limiter, Addresses ── MCParts
Http1 ── Http1Proofs;  MCProbes, Http1Proofs ── Http2Proofs
Addresses ── AddressesProofs;  Deploys ── DeploysProofs
MCParts, AddressesProofs, DeploysProofs ── PartsProofs
```

Each `MC…` module gives its component's constants values for TLC. `MCProbes` and `MCParts` also
put parts that share no state side by side in one run: a variable that never changes says which
of them a behaviour is about, and the others stay as they began, so the run has the sum of
their states and not the product.

* **Manifest**: `protocols()` and `carries_flags()`: which rungs a manifest is scored on,
  in which order, and which of them hold flags.
* **Ledger**: the tables and one operator per statement of `state.py`. A reader is an
  expression, a writer says what its table becomes. A flag's token is random in the
  code and stands for one planting; it is modelled by owner, rung and tick.
* **TickLoop**: the main thread (`pc`: `idle`, `advance`, `settle`/`stolen`/`pay`,
  `dispatch`, `await`, `down`) and the set `jobs`. `apply_defense_bonus` is three
  actions per player as in the code: the rungs stolen, the rows, one update per row.
  A job takes the first unfinished rung of its snapshot, plants (`ProbePlant`), then
  checks the flag of K-1 ticks ago (`SlaCheck`), and records; it may raise
  (`JobRaises`), or outlive its limit (`AwaitTimeout`). `Crash` loses the jobs and
  the main thread's locals.
* **Submit**: `Referee.submit` as a program counter per handler thread: `find`,
  `manifest`, `already`, `mark`, `record`, each reached by one ledger statement. All six
  verdicts and `writeup-required` are actions. `Outage` drops every request.
* **Referee**: the composition, with the operator's freeze and review and the last two
  statements of a deploy (reading the tick for the grace, recording the row). `contested` has the rows that two
  operators' reviews held at once.
* **Game**: what the rules promise about captures with no tables and no threads. A
  capture counts for a flag that was live at the clock the request was opened at, of
  another player, once per client. `Referee!RefinesGame` is the refinement: `clock` is
  `tick`, `live` the flags on record, `vouched` the flag of a request past
  `find_live_flag`, `captures` the accepted rows.
* **Deploys**: `deploy()` stage by stage for the watcher and for operators. `work`, `built`,
  `image` and `vm` hold the *revision* a tree, output, disk or VM was made from; `Kind`
  says what the pipeline makes of a revision (`good`, `sick`, `broken`, `rejected`,
  `garbled` for a file on which the manifest check raises something uncaught).
* **Scoreboard**: `render_board` as open, write block by block, rename, on inodes; a board
  is the ledger version it shows.
* **ManifestCheck**: a player edits `service.toml` key by key; `validate`, the healthcheck's
  choice of a rung and the tick loop's choice of a port are evaluated on every version.
* **Hpack**: the integers as octets, the decoder's table and limit after each kind of
  representation, and those of a correct encoder, which counts Huffman-coded strings at their
  full length where the decoder counts 0. A string that the decoder cannot read is `Unread`.
  An index names an entry of the static table (`StaticTable`), of the dynamic one, or nothing.
* **Http2**: `client` is where the `Http2` object is and the counters of its two loops, `decoder`
  its HPACK decoder, `wire` the frame on its way. `peer` is the service, external code,
  modelled from RFC 9113 as far as the client depends on it: its encoder, the connection's
  and the streams' windows, the DATA it has still to send, one pushed stream. It may pad its HEADERS or
  give them a priority (`spare`): the client decodes the whole payload as header fields, and `Readings` has what may
  come of that.
* **Http1**: a text probe's script (`health`, `plant`, `fetch`) and its requests. A response is a
  sequence of tokens (head, chunk sizes, data, the last chunk, its end) in `stream`; a recv moves
  any prefix of it to `text.buffer`. What is left in the buffer after a response is dropped, what
  is left in `stream` meets the next request. The service answers in any version, framing and
  content, announces or does not announce the connection's end, and ends it or not. `clock` has
  the time spent on the request, in the operation, and the limit the operation was armed with.
* **Season**: one good service and its notes on the VM's disk; the tick loop from the fetch of its row
  to `expire`; a redeploy as stop, start, the computation of the grace, and its record; `reset`
  as five statements. History variables: the season of each row, whether a patch disturbed it.
* **Roster**: the list in `ctf.toml`, the copies that submission API and watcher keep, the status
  column, and the documented procedures for adding and removing a player.
* **Addresses**: a place is an index of the list. `hosts` is the table's copy, `routes` the player whose
  tap a place's subnet is routed to, `disks` and `guests` the place written to a data disk and held by
  the VM started from it, `copy` the watcher's list, `target` the place a pipeline deploys to. A guest
  answers at the place its disk names, if the route leads to its tap; a healthcheck takes whatever
  answers. `vm.sh` reads the list anew at each call, `networks.sh up` replaces the routes of
  who is on it and leaves the others'. `RestartHost` builds all anew from list and disks.
* **Limiter**: `rate_limited` at the granularity at which CPython may switch threads: the test of a
  further hit and its `popleft`, `len` and `append`.
* **RefereeProofs**: the inductive invariant of the referee, and what follows from it for flags and
  requests. **CaptureProofs** and **RoundProofs** rest on it: the refinement of `Game` and the reviews;
  the uptime table, the settlement and what a death costs.
* **Http1Proofs**, **Http2Proofs**, **DeploysProofs**, **AddressesProofs** and **PartsProofs** (`Scoreboard`,
  `Season`, `Limiter`, `ManifestCheck`, and the types of all of `MCParts`): the theorems about the
  other parts (section 6).

Definitions whose comment begins "Mutant of" are faulty variants of the definition
after them, as a slip in the code would make it. None is part of a specification; each
property is known to fail when its mutant replaces the original.

## 3. Runs

| run | module | checks | what it shows |
|---|---|---|---|
| `captures` | MCReferee | ScoresOnce, CreditedIsMarked, MarkedInItsLife, RefinesGame | Two clients, two ticks, a manifest that changes under them and a server outage anywhere: captures behave like `Game`. |
| `rounds` | MCReferee | TypeOK, UnstolenIsPaid, LossesPerCrash, PaidAsReviewed, DecidedIsFinal | Two rungs, bonus, one capture with any claim, two operators who may review it at once, a death of the loop anywhere. |
| `overruns` | MCReferee | LiveWindow, SlaFlagRetained, ResultsStand, TickCompletes | Stragglers, a death, freezes, three ticks; with fairness, a tick that began ends. |
| `pipelines` | MCDeploys | TypeOK, RecordIsTrue, OnlyVettedCodeRuns | Watcher and operator on one player, every stage failing, one kill, rewound branches. |
| `probes` | MCProbes | ProberTypeOK, FieldsSurvive, PeerTableKept, RaisedForCause, RequestEnds; PassesForCause, FailsForCause, WithinBudget | HTTP/2: one connection, two requests, interim and trailer blocks, control frames, empty DATA, a push, padded or prioritised HEADERS: fields are read as sent and nothing is raised short of the last two, and no request stalls. Text versions: a probe passes on correct answers only, fails a correct service only by time or by a late end of a chunked body, and no request exceeds its budget. |
| `parts` | MCParts | PartsTypeOK, CheckTypeOK and the ten below | the smaller parts side by side |
| | `Scoreboard` | WholeUnlessCrossed, RenderedBoardCatchesUp | Three renderers, one kill: whole unless two wrote one file, and right in the end. |
| | `ManifestCheck` | EveryRungHasAPort, GateIsScored | Every manifest over the known names and an unknown one, five kinds of port. |
| | `Deploys` | LastPushIsServed | Two players, four pushes of good, sick, broken and rejected code, the watcher killed once. |
| | `Season` | PatchingIsFree, SeasonIsFresh | Four ticks, two patches, one reset, all interleaved; K = 2 with a grace of one tick. |
| | `Roster` | RemovedAreNotProbed | Three names, three edits, deploys by operator and watcher, one restarted unit. |
| | `Limiter` | RateIsHeld | Two threads of one client, seven calls over five moments. |
| | `Addresses` | ProbedAtHome | Three names, four edits that append or take away the last block, old copies of the list, VM restarts, reboots: on an applied list, running players are probed at their own VMs. |
| `duplicates` | MCReferee | ScoresOnce, violated | Two concurrent requests of one client for one flag are both accepted (`submit.py:93`). |
| `starved` | MCDeploys | LastPushIsServed, violated | An unparsable `service.toml` ends every sweep before the players behind (`deploy.py:336`). |
| `torn` | Scoreboard | BoardIsWhole, violated | A second renderer truncates the file the first then publishes (`state.py:363`). |
| `chunked` | Http1 | CorrectServicePasses, violated | The end of a first chunked body that comes a packet later heads the second response (`httpclient.py:174`). |
| `patching` | Season | PatchingIsFree, violated | With the defaults, K = 5 and a grace of 2, a patch costs two ticks (`tick.py:79`). |
| `newcomers` | Roster | NewcomersCanSubmit, violated | The documented procedure leaves the newcomer with a token nobody knows (`submit.py:47`). |

The six violated properties are statements of the code's own comments and documents that it does
not keep; `PROJECT.json` quotes them. `captures` and `duplicates` differ in one thing:
whether a client's two requests may overlap. `pipelines` and the board make the same
distinction with a history variable (`overlapped`, `crossed`), so that what holds
short of the overlap is checked with the overlap still in the model; `probes` does so
for services that push (`peer.pushed`), that pad or prioritise their HEADERS (`peer.spared`), and for tokens
left on a socket (`text.stray`), `rounds` for rows under two reviews at once (`contested`), `Season` for
a reset that meets a tick (`collided`), `Limiter` for a popped hit that was not the tested one
(`robbed`). Without `contested` DecidedIsFinal fails in `rounds`, and without
`peer.spared` RaisedForCause and PeerTableKept fail in `probes`: the excepted cases are in the runs. PatchingIsFree holds in `parts` and fails in `patching`: it depends on K and the grace,
and the code relates them nowhere. It holds when a patch's grace reaches the last tick
that asks for a note of before it.

### 3.1 Bounds, and why they are enough

* **Players**: two. Every property relates one player, or an attacker and a victim; the order
  of the roster matters to waiting and settling and shows with two.
* **Ticks**: two in `captures` with K = 1, so a flag is live, expired and deleted while a request
  is in progress; three with K = 2 in `rounds` and `overruns`, which reaches the fetch of
  the flag of K-1 ticks ago, the deletion after it and a straggler two ticks behind.
* **Workers** equals the players, as `min(16, len(roster))` does; queueing behind
  stragglers shows with two.
* **Submissions**: two in `captures` (a repeat needs no more), one in `rounds`, where what
  matters is when it falls.
* **Operators**: two in `rounds`, the least number whose reviews of a row can overlap; `pipelines` has one who deploys.
* **Crashes, outages, kills, deaths**: one each; the properties that count (`LossesPerCrash`)
  state what each costs.
* **Deploys**: two in `captures`, so a manifest is installed and replaced under a flag.
* **Blocks**: two writes per board, the least number that can be torn.
* **Pushes**: four over two players in `parts`; `pipelines` has two, over one player.
* **Connections**: two requests, as many as a probe makes, so the second meets the table and the
  windows the first has left. Windows of two frames and responses of at most two: the second
  response needs what the first was credited. The loops' limits of 512 and 64 frames are 5
  and 2. A table of 114 octets holds two short entries exactly, or one long one; the peer
  may lower its limit to 57, exactly one short entry. Both indices and limits then take one
  octet or two. Blocks carry one representation. A service that has pushed, or sent octets beside a
  block, leaves its table alone: no property looks at it any more. It does one of the two, not both. Such
  octets and the block behind them, misread, come to one kept representation at most, with a name spelled
  out; all that matters of them is that they are read somehow. The static
  table has one name in `probes`, so the name of any dynamic entry is one of it too.
* **Text probes**: chunked bodies have one chunk and other bodies are one token; a recv of no token
  stands for a part of one. Two requests, as no probe makes more; socket limit 1 and budget 3,
  the least ratio `default_budget` has. The theorem covers the other values.
* **Season**: four ticks with K = 2 let a flag be planted, asked for and expire before, during and
  after a patch, and again after the reset. `patching` needs the configured K and nine ticks.
* **Roster**: three names, so that one is added and one removed while the first stays; two redeploys
  by the watcher, one before and one after an edit.
* **Addresses**: three names over three places and four edits: an address is freed, taken by another player,
  freed again and taken back, with a copy of the list from before any of it. The theorem has no bound.
* **Limiter**: two hits a window of two moments; seven calls fill two windows and overflow both.
  Time does not pass while a call is in progress: the window is a minute.
* The settlement properties are checked with `MayOverrun = FALSE`: with stragglers a result
  may arrive after its settlement and its bonus is not due from it. `overruns` has no
  submissions: a steal changes none of its properties, which `captures` and the proofs
  cover for the flags.

### 3.2 Deadlock

No run disables the deadlock check: the tick loop rests, the watcher sweeps, the
ticker renders, the player edits, commands are given, VMs are restarted and the probers connect forever. Only two
models end by their bounds, and say so with a stuttering step of their own: `Season` when
its ticks are used up or a reset has met a tick (`Over`), `Limiter` when its calls are (`Satisfied`).

## 4. Fairness

* `Referee!FairSpec`: weak fairness of the tick loop's main thread and of its restart. The
  main thread waits only for futures, with a limit, and for the clock; systemd's
  `Restart=always` starts it again. Jobs, requests and operators get **no** fairness: a
  probe may hang for ever and TickCompletes still holds.
* `Deploys!FairSpec`: weak fairness of the watcher (subprocesses and healthchecks have time
  limits, and its unit is restarted) and of the rate limit's interval passing.
* `Scoreboard!BoardFairSpec`: weak fairness of the tick loop's rendering, once a tick. Handler
  threads and operators may stop anywhere.
* `Http2!Http2FairSpec`: weak fairness of the prober's reading, and of a service that goes on with
  its response while its windows let it. The budget's end (`Timeout`) has none: RequestEnds says
  that the prober never leaves such a service waiting, not that a limit saves the probe.
  A service that sends control frames for ever is free to.

* `Roster!RosterFairSpec`: weak fairness of a `ctfctl` command that opens the ledger:
  `systemd/ctf-backup.timer` runs one every hour.
* `PartsSpec` and `ProberSpec` state these for the part that runs. `Season`, `Limiter`, `Addresses` and the
  text probers have safety properties only and no fairness.

## 5. Abstractions

* Time is the tick counter. Whether a job overruns is a choice, as is every probe's answer.
* `find_live_flag` finds a row or none; the random token's uniqueness is assumed
  (`secrets.token_hex`, and a primary key).
* The freeze flag and the tick are read in one action in `ReadTick`: freezing between
  the two reads has the effect of freezing just after them.
* Between `plant` and the SLA fetch a job makes no statement, so what it reads is one action
  with what it records.
* `render_board`'s queries are one action: the oldest state that any of them saw.
* Copying, digests and packaging are "which revision this tree holds".
* A response's size limits, numbers and header lines are one choice: the answer can be parsed and is
  small enough, or it is `broken`.
* A service in `Season` is good: whatever goes wrong for it is the referee's or the patch's doing.
* In `Roster` and `Addresses` a player has one pipeline at a time; overlapping ones are `Deploys`' subject.
* `Addresses` has netns mode, default addresses, and tap names that differ: `config.py:34` cuts a name to
  11 characters, and the second of two players whose names agree so far gets no VM. A VM that
  has been started stays up, and runs what its disk holds.
* Text (messages, events, logs) is left out; no property is about it.

## 6. Theorems

Each holds for every roster, thread count, pool, K, bound and point table that meets the
assumptions below; TLC's instances are special cases.

| theorem | says |
|---|---|
| `TypeCorrect` | `Spec => []TypeOK`. A review writes the class its row claims, so types rest on reviews being only of rows that claim one. |
| `Inductive` | `Spec => []IInv`, the invariant below. |
| `CreditImpliesMark` | `Spec => []CreditedIsMarked`: no interleaving or outage credits without marking. |
| `MarksAreTimely` | `Spec => []MarkedInItsLife`. |
| `SerialClientsScoreOnce` | Where no two threads serve one client, `Spec => []ScoresOnce`: the race of `duplicates` is the only way to score twice. |
| `NoHoarding` | `Spec => []LiveWindow`, with stragglers, crashes and restarts. |
| `RefereeImplementsGame` | Where no two threads serve one client, `Spec => RefinesGame`: each step of the referee is one step of `Game` or none. |
| `CapturesPayTheirClass` | `Spec => []PaidAsReviewed`, for any number of operators. |
| `DecisionsAreFinal` | `Spec => DecidedIsFinal`, for any number of operators: only two reviews that held a row at once can decide it twice. |
| `ResultsAreFinal` | `Spec => ResultsStand`: stragglers and deaths take no result back and pay no bonus twice. |
| `SlaFlagIsThere` | `Spec => []SlaFlagRetained`, with stragglers and deaths. |
| `BonusIsPaid` | Where no job outlives its limit, `Spec => []UnstolenIsPaid`, with steals between the settlement's statements and deaths anywhere. |
| `OneTickPerDeath` | Where no job outlives its limit, `Spec => []LossesPerCrash`. |
| `DeploysTypeCorrect` | `Spec => []TypeOK` of `Deploys`. |
| `RecordsAreTrue`, `VettedCodeRuns` | `Spec => []RecordIsTrue` and `Spec => []OnlyVettedCodeRuns` of `Deploys`, for any players, pushes and operators. |
| `SeasonsStartFresh` | `SeasonSpec => []SeasonIsFresh`, for any number of ticks, patches and resets. |
| `GraceOutlastsFlags` | If `K <= GraceTicks + 1`, `SeasonSpec => []PatchingIsFree`. |
| `BoardStaysWhole` | `BoardSpec => []WholeUnlessCrossed`, for any number of renderers and blocks. |
| `RateLimitHolds` | `LimiterSpec => []RateIsHeld`, for any number of threads, any limit and any window. |
| `ManifestTypeCorrect`, `RungsHavePorts`, `GateOpensForScored` | CheckTypeOK, EveryRungHasAPort and GateIsScored, for every set of port values and unknown names. |
| `AppendingLeadsHome` | With `AppendOnly`, `AddressSpec => []ProbedAtHome`, for any players, places and number of edits. |
| `RequestsAreBounded` | `Http1Spec => []WithinBudget`, for every socket limit and every budget of at least three of them. |
| `FieldsAreRead`, `TablesStayInStep`, `NoErrorUncaused` | `Http2Spec => []FieldsSurvive`, `[]PeerTableKept` and `[]RaisedForCause`, for every table, limit, string length and window: short of a push and of padded or prioritised HEADERS. |
| `ProbersWellTyped`, `PartsWellTyped` | `ProberSpec => []ProberTypeOK` and `PartsSpec => []PartsTypeOK`: the types of everything outside of the referee. |
| `PassesAreEarned`, `FailuresHaveCause` | `Http1Spec => []PassesForCause` and `Http1Spec => []FailsForCause`, for any number of probes one after the other. |

**Assumptions.** The named `ASSUME`s of the modules: K positive, point tables of naturals,
the null values distinct from what they are null of, the roster order an injective function to
naturals (a list has one player per position), finitely many renderers and handler threads,
clients being players, string lengths and bounds naturals, a static table of 61 fields. Six theorems have hypotheses of their own:

* `SerialClientsScoreOnce` and `RefereeImplementsGame`: `OneAtATime`, no client has two handler
  threads. It is what the code would have to see to and does not; without it `duplicates` shows both false.
* `BonusIsPaid` and `OneTickPerDeath`: `InTime`, jobs end before the wait for them does. A late job's
  result comes after the settlement of its tick and gets no bonus; it is not claimed that it does.
* `GraceOutlastsFlags`: `K <= GraceTicks + 1`. The configured K of 5 and grace of 2 do **not** meet it, and
  `patching` shows what that costs. The theorem says what a change of either must keep.
* `AppendingLeadsHome`: the organiser appends and removes at the end only.

`DecisionsAreFinal`, `RecordsAreTrue`, `VettedCodeRuns`, `SeasonsStartFresh`, `BoardStaysWhole`, `RateLimitHolds` and
the three about HTTP/2 have none: what they except (`contested`, `overlapped`, `collided`, `crossed`, `robbed`,
`peer.pushed`, `peer.spared`) is in the properties, as it is in the runs.

### 6.1 The referee

None of the properties is inductive. `IInv` adds what the code relies on and
nowhere says: `Types`; `RoundInv`, how `pc`, `round` and `tick` go together (a job's tick is
never ahead of the clock); `UsedInv` and `JobInv`, a tick's jobs are handed out once, so a
token is planted once; `FlagInv`, a row's expiry is its tick plus K; `RequestInv`, the flag
of a request past `find` belongs to another player and was live at the request's tick;
`MarkInv`, a request past `mark` has its flag marked, or deleted. The last needs
`UsedInv`: if a token could be planted again after its row was deleted, a credit could
face an unmarked row. `NextIInv` has one lemma per process. `NoHoarding` adds
`OneRowPerToken`: flags of a rung differ in their ticks, live ones lie in a window of K.

* *The refinement* goes by process. The loop is `Game`'s clock and its planting and expiring of flags; of a
  request's steps the reading of the tick opens, `find_live_flag` vouches, and the row scores.
  A score needs that the flag found was live when the request was opened, which is
  `RequestInv`, and that the client has not scored it since `already` looked, which is `OneAtATime`.
* *Reviews*: `PayInv` says that what an operator has fetched is an accepted row that claims more than its
  floor, whatever becomes of it before the update. `HeldPending` says that it is still pending, or contested: so an
  update decides a row for the first time, or for one of those that two operators held.
* *Results*: `RowInv`, one row per tick, player and rung, and none for a rung still in a job's `todo`, so
  a late job writes rows of its own. `BonusInv`, a row has its base points or those and one bonus, and the rows
  that a settlement has fetched, or has yet to, are of the last tick and at their base: `AdvanceTick` opens one
  settlement per tick, and a restart opens the next tick's.
* *The SLA flag*: `SlaInv` follows a job from its planting to the row: until a rung's check has been recorded, the flag
  of its job is on record if it was to expire later than now.
* *The settlement*: `SettledInv`. A player of the last tick who was up and not stolen from is among those still owed, or
  among the rows fetched, or paid; and what the settlement has read as stolen stays stolen, because no flag
  of the settled tick can expire before it is done.
* *Deaths*: `LossInv` counts. The ticks with an unpaid row that nobody ever stole from, but for the settlement in
  progress, are as many as the deaths at most: only a death leaves a settlement open, and only the last tick's can be open.

### 6.2 The other parts

* *Deploys*: `PipeInv` says of each player without overlapping pipelines what its pipeline's stage has
  established (`Sound`): from the checkout on, the tree is of the pipeline's revision; from the manifest check
  and the build on, that revision is vetted, and output, image and VM follow one after the other. An aborted or killed
  pipeline has set the row to something other than "running" before it touched anything.
* *Season*: `FreshInv`, until a reset collides, loop and deploys are outside of its statements, and what it has swept
  stays empty. `PatchInv` adds that every live flag whose note is gone was planted before a patch whose grace
  covers the tick that will ask for it.
* *Scoreboard*: `BoardInv`, until files cross, the temporary file is written by at most one renderer, is not the published
  one, and holds the blocks of that renderer's version up to where it has written.
* *Limiter*: `RateInv`, the deque's hits and the threads about to append are together no more than the limit and one
  for each further thread; and until one is robbed, the deque is the end of the list of granted hits, and what it has
  lost of that list is out of every window.
* *Text probes*: `Spending` for the budget: what has been spent and what the operation under
  way may still take are within it *together*, and connecting and sending, which the
  budget does not shorten, are two operations before the first armed one. `ProbeInv` for the verdicts: the tokens
  in the buffer and on the socket, taken together, are those of the answer under way from where the client is
  in it, behind at most the one token that the first answer may have left; so where TCP cuts them does not
  matter. A connection that is used again was left open by an answer that did not announce its end.
* *HTTP/2*: `Http2Inv`. Between header blocks the two ends are `Aligned`: equal limits, and a decoder's table that
  begins with what the peer's holds, entry by entry, an unread string in the place of a Huffman-coded one. While a block
  is on its way, the peer is ahead by just that block (`Pending`). `RepresentationFollows` is the step: a decoder that keeps
  what the peer keeps reads any representation as it was sent, and keeps what the peer keeps afterwards. The decoder counts
  unread strings as empty, so its sums are no larger than the peer's and it evicts no more
  (`KeptIsSmaller`, `EvictKeeps`); and integers come back as they were encoded (`IntegersSurvive`). `Served` has the response's
  frames: for a DATA frame on its way there is room for its size in both windows. Of a service that has pushed, or
  whose HEADERS had octets beside the block (`Excused`), only the types are kept.
* *Induction over data*: octets, the integers read from them and the sizes of tables are recursive functions, and the
  library's induction theorems take an operator as a parameter, which the provers cannot instantiate. `SetInduction`
  and `StrongInduction` of `Http2Proofs` state induction for a *set* of naturals instead, from the well-foundedness of `<` on
  `Nat`. That a recursive function exists at all is shown so too: `SolutionExists`, `AmountExists` and `TotalsExist` build each of its
  finite beginnings, and any two agree.
* *Types*: `PartsBounded` is `PartsTypeOK` with what it lacks of being inductive: the scoreboard's temporary
  file is not the board, a loop that is not asleep has a round on the clock (`SeasonBounded`), a handler's moment
  is one the clock has (`LimiterBounded`), and the watcher's copy of the list is no longer than a list may be
  (`AddressBounded`): without it, a deploy from the copy could set out for an address that is none. Names on a list stay
  distinct whichever of them is taken out (`TakenOut`, `Appended`).
* *Addresses*: `PlacesHold`, who has an address in the table keeps it, and
  whatever target, disk or guest holds is that address, so a copy of the list from any time
  deploys to where a sync at any other time puts the player.

Each of these invariants holds on the runs' instances too (but for `Pending`, which quantifies over all tables and is
beyond TLC), those of the small parts also on larger ones (K = 3 with a
grace of two and six ticks, three threads at the rate limit, a scoreboard of 3.6 million states).

### 6.3 Only model-checked

* The liveness properties TickCompletes, LastPushIsServed, RenderedBoardCatchesUp, RequestEnds and
  RemovedAreNotProbed: liveness under fairness and `ENABLED` are outside what the prover handles.
* What `duplicates`, `starved`, `torn`, `chunked`, `patching` and `newcomers` show: counterexamples need no proof.

Every other property of the passing runs is stated by a theorem.

No module declares a `RECURSIVE` operator.

## 7. Observed without a run

While modelling, further behaviours were noted where code and documents, or code and
expectation, differ:

* the bonus of tick T is settled as soon as T+1 is stored: a request that read tick T and has yet
  to mark its steal leaves the rung paid as unstolen, against `tick.py:109` (`tick.py:190`);
* a second thief's capture in a later tick leaves no steal of that tick (`state.py:264`);
* the bonus of the tick before a crash may never be settled (`tick.py:188`; `LossesPerCrash`
  bounds it);
* a job's grace is decided from a row fetched before it was queued (`tick.py:48`);
* of two operators who review one row at once the later overrules the earlier (`ctfctl:242`): a rejected claim
  may still be approved, and "rejected: stays" (`ctfctl:264`) be printed of a row that has been raised. `DecidedIsFinal`
  excepts just these rows;
* submissions are credited while scoring is frozen (`submit.py:110`);
* the rate limit does not count failing deploys (`state.py:223`);
* a branch moved back to the revision on record after a failed deploy is taken for served
  (`watcher.py:63`). `parts` has no rewound branches for this reason;
* header blocks of pushed streams are dropped undecoded, and nothing tells a service not to
  push: later fields may be read wrongly (`httpclient.py:442`);
* HEADERS that are PADDED or have a PRIORITY, which RFC 9113 allows any service, are decoded with their pad length,
  priority and padding as if all of it were header fields: fields may be misread, the table may fall out of step,
  and the decoder may raise (`httpclient.py:447`). Padded DATA likewise has its padding counted to the body
  (`httpclient.py:457`); what a body holds is not modelled in `Http2`;
* an `HpackError` is not a `ProtocolError`, and the `IndexError` of a string cut short is not either: each ends the
  whole job (`httpclient.py:451`);
* with more players than the pool has threads, probes that all take their time limits may queue past
  a tick's own limit, and jobs of correct services time out unstarted (`tick.py:177`);
* a 1.1 health check fails a service whose first answer announces `Connection: close`, which
  `httpclient.py:14` exempts; and that a 1.0 server closes, a MUST of `httpclient.py:11`, is never
  checked where `Content-Length` frames the body (`probes.py:51`, `httpclient.py:291`);
* `reset` announces that it would delete deploys, and does not (`ctfctl:418`, `422`);
* a block taken out before others moves the players behind it: table and routes follow, running VMs and
  their disks do not, and those players are down until each is redeployed, while
  `config/ctf.example.toml:104` has it "Add or remove blocks freely" and `OPERATIONS.md:98` forbids
  reordering. With `AppendOnly = FALSE`, ProbedAtHome fails after one such edit;
* the VM and route of a player taken off the list stay, and `vm.sh` can no longer stop it by name; a
  deploy of that player that fails later has it scored at an address that may have another holder,
  until the next sync (`vm.sh:88`);
* after a renumbering, a watcher that is not restarted deploys to the old addresses, passes its
  healthchecks there, and its players are down in the table's eyes (`deploy.py:251`);
* a player put back on the list stays disabled until deployed again (`state.py:188`);
* one player's placeholder token keeps the submission API from starting for all (`submit.py:233`).

## 8. Not modelled

* `backup`, `restore`, `recount`, the event log: copies of files and sums over tables. What sqlite makes of
  a database file that is overwritten while it is open is nothing the repository defines.
* HTTP framing, JSON and token comparison in `submit.py`: parsing.
* `httpclient.py` and `hpack.py`: the parsing of lines and numbers, byte counts, frame sizes, malformed
  blocks: out of TLC's reach, and they end in an answer or an error, which are choices.
  `encode` keeps no table. The UDP echo is one datagram each way; HTTP/3 is an external program.
* `config.py`, `topology.py`: all settings but the list; the formatting of names and addresses.
* `topology/vm.sh`: PID files, signals and scopes belong to the host. A restart is one step of
  `Deploys` with its outcomes, two of `Season`, and one of `Addresses`.
* Footholds, host mode and the nft rule sets configure the kernel and keep no state here.
* The guest's boot scripts but for the address it answers on; installer, preflight, versions, self-test, static serving: I/O only.

## 9. Plan

1. *Done*: `Manifest`, `Ledger`, `TickLoop`, `Submit`, `Referee`, `Game`, and their proofs;
   `Deploys`, `Scoreboard`, `ManifestCheck` and its proofs; `Hpack`, `Http2`, `Http1`; `Season`,
   `Roster`, `Limiter`; `Addresses` and its proof.
2. *Done*: the refinement of `Game`; reviews, results, settlement and SLA flags of the referee; `Deploys`,
   `Scoreboard`, `Season` and `Limiter`; the verdicts of the text probes.
3. *Done*: `Http2` and `Hpack` with the inductions they need; the types of both probers and of every part.
4. *Open*: a crowded instance of `TickLoop`, with more players than workers and correct but slow services,
   for the queue of section 7.

A small part joins `MCParts` rather than getting a run of its own.

## 10. Running the checks

`tlc -config captures.cfg MCReferee.tla` and so on, with the community modules on the
library path; `tlapm RefereeProofs.tla` and so on for each module of proofs. The largest runs (`rounds`, 3.9 million
states, and `probes`, 1.9 million and a liveness property) take one to two minutes and a half with two workers.
