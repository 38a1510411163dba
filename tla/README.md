# A verification development for ts-dns

ts-dns is a DNS forwarder. A query is answered from the hosts, from a cache, or
by one of several *groups* of upstream servers chosen by domain rules and by the
GFW list; an answer may be *redirected* to another group because of its
addresses, and addresses can be added to an ipset of the kernel. The
configuration can be replaced while queries run (SIGHUP).

The modules in this directory model how the program starts, serves, reloads and
ends: locks, channels, goroutines, sockets, timeouts, the cache, the statistics
about upstreams, rewriting rules, files, and what becomes of a configuration.
`PROJECT.json` maps every definition to the
source lines it translates and lists the runs, the theorems, the hazards and, for
each property, a mutation of the code that breaks it.

- [1 The system](#1-the-system)
- [2 The modules](#2-the-modules)
- [3 The runs](#3-the-runs)
- [4 Fairness](#4-fairness)
- [5 What is proved](#5-what-is-proved)
- [6 Where the code and its words disagree](#6-where-the-code-and-its-words-disagree)
- [7 What is not modelled](#7-what-is-not-modelled)
- [8 Plan](#8-plan)

## 1 The system

A listener (`cmd/main.go`, `inbound/doh.go`) calls `ServeDNS` of the *handler
wrapper* (`inbound/handler.go`), which hands the query to the handler in service.
The handler looks in the hosts and in the cache, asks the first group that
matches, perhaps a second one by redirection, posts addresses to the group's
ipset worker and fills the cache. A group (`outbound/groups.go`) rewrites the
question by its hijack rules, races its upstreams (`outbound/caller.go`) and
remembers per host which of them to ask. A DoH upstream resolves its own server's
name with an *internal query* to the same handler. Each started group has an
ipset worker and possibly a GFW list updater.

| Component | State | Operations | Interacts with |
|---|---|---|---|
| Handler wrapper and life cycle | `handlerPtr`, `stopped`, `lifecycleMu`, `drainMu` | `ServeDNS`, `ReloadConfig`, `Stop`; `start` and `stop` of a handler | called by listeners and signals; starts and stops groups and cache |
| Query pipeline | the query's locals; the shared cache | `handle` | hosts, cache, groups, redirectors, ipset |
| DNS cache | entries with expiry, in a bounded lossy store | `Set`, `Get`, `Stop` | pipeline |
| Group: goroutines, ipset worker | `ipSetCh`, `stopCh`, `stopped` | `Start`, `Stop`, `PostProcess`, the worker | life cycle, pipeline, kernel |
| Group: upstream selection | `hostStats`, `lastCleanup` under `stateMu` | `Handle`, both receive loops, `recordCaller*`, cleanup | pipeline, upstreams, ping |
| Group: hijack rules | the message | `processHijackRules`, `cleanHijackAnswer` | selection |
| Group: GFW list | `gfwList`, the local file | load, updater, `Match` | file system, HTTP, pipeline |
| DoH upstream | `clients`, `requireCh`, `satisfyCh`, `cancelCh`, ticker | `getClient`, `run`, `resolve`, `Start`, `Exit` | selection; the handler itself |
| Plain DNS and DoT upstream | none between calls | `Call` | selection |
| Construction of a handler | hosts, groups and redirectors so far | `newHandle`, `NewDNSHosts`, `BuildGroups`, `NewRedirector` | called by the wrapper; files |
| Redirector | ranges, fixed | `Redirect` | pipeline |
| Domain matcher | a trie, two lists of wildcard rules, fixed once read | `NewABPByText`, `Extend`, `Match` | construction, pipeline |
| Hosts | a table of names and one of patterns, fixed once read | `addDomainIP`, `addPatternIP`, `Get` | construction, pipeline |
| Server and signals | sockets, one goroutine per service, `errCh`, `signCh`, `runCtx` | `run`, `runPlain`, `runDoH`, the shutdown functions, `reloadConf` | wrapper, the operating system |
| Inbound DoH, configuration, DNS helpers, ping, ipset wrapper | none | | |

What is hard in it, and the correctness conditions that follow:

- **Replacing the handler under running queries.** A query keeps its handler to
  the end; the old handler is stopped when its last query has left, not before; a
  reload that loses against `Stop` neither enters service nor leaks; everybody
  who waits for a lock gets it.
- **The two channels of the DoH upstream.** Both have capacity 1, tokens are
  anonymous, and waiters leave at any time because another upstream was faster.
  No waiter may be left without a wake-up, and `Exit` must end everybody.
- **The race of the upstreams.** The loop counts results: none may be missing.
  Failures and successes of overlapping queries arrive in any order and change
  which upstream is asked alone.
- **The cache as shared memory.** An entry is replaced, deleted or evicted while
  a query holds it; the clock may be set back; what groups write into a request
  must not reach the key or another group.
- **The rules applied forward and back**, where lists overlap and chain.
- **The updater**, which overlaps with that of the previous handler, shares a file
  with it and may crash between truncation and write.
- **Start and shutdown.** Up to six services share sockets, an error channel that
  is read once and a wait group; each may fail while others are still being
  started. Whatever fails first, everything must be closed, the process must end,
  and the exit code must say whether something failed.
- **A configuration is read from Go maps**, in an order that differs from run to
  run. Whether it is accepted, which address a name gets and which rule decides
  must not depend on that order.

The complete list, each at its line and with the properties that cover it, is
under `hazards` in `PROJECT.json`.

## 2 The modules

```
Server            run() and SIGHUP: calls what the next two model
HandlerService   <--refined by--  HandlerLifecycle
Construction     --extends-->     Hosts, Matcher
QueryPipeline    --extends-->     DNSCache
DoHCaller   CallerSelect   Hijack   GFWList

<module>_proofs   extends <module>, for DoHCaller, HandlerLifecycle, CallerSelect,
                  Hijack, QueryPipeline, GFWList, Server and Construction
MC<module>        the instance of <module> that TLC checks
```

The life of the process: `Server` is `cmd/main.go`; its `Apply` is a `ReloadConfig`
and its `Exit` the deferred `Stop` of `HandlerLifecycle`, whose step `NewHandle` is
`Construction` from beginning to end. What `Construction` makes (`groupList`,
matchers, redirectors, hosts) are the constants of `QueryPipeline`; that they are as
`QueryPipeline` assumes is proved (`HandlerFitsPipeline`).

The pieces of one query fit together thus: `HandlerLifecycle` says which handler
it runs on, `QueryPipeline` what happens inside that handler; its step
`HandleAnswers`/`HandleFails` is `CallerSelect` (who answers) with `Hijack` around
it (what is asked and given back); an attempt of `CallerSelect` is, for a DoH
upstream, a visit to `DoHCaller`; the action `RefreshList` of `QueryPipeline` is
`StoreList` of `GFWList`. Each module leaves open (as nondeterminism) what the
neighbouring module decides, so that its properties hold for more behaviours of
the neighbour than there are.

**DoHCaller** - `outbound/caller.go`, `DoHCallerV2`. `clients`, `requireCh`,
`satisfyCh` (a count: tokens are alike), `cancelled` (the closed `cancelCh`),
`tick`. `runPc` follows `run()`: its first select (`TakeTick`, `TakeRequest`,
`RunExits`), `resolve()` (`Resolve`), and the notifying select (`Notify`,
`NotifyCancelled`). `pc` follows each `getClient()`: `NoClient`, `Require`,
`Satisfied`, `Reread`, and the ways out of both selects, `GiveUp` and
`ReturnCancelled`. A lookup brings any set of addresses, also none. A request
whose question is the server's own name resolves to nothing (the loop check).
The HTTP exchange with a client changes nothing here.

**HandlerLifecycle** - `inbound/handler.go`, the wrapper, with `Start` and `Stop`
of a group. `cpc`/`using` follow `ServeDNS` (`Ask`, `BeginQuery`, `Refuse`,
`Answer`, `EndQuery`), `kpc`/`mine`/`old` follow `ReloadConfig` and `Stop`
(`NewHandle`, `LockForReload`, `Discard`, `StartHandler`; `CallStop`,
`LockForStop`; then both: `LockDrain`, `Swap`, `CloseStopCh`, `Stopped`). `NewHandle`
may fail; the handler is then `lost`: never started, never stopped, and with the cache
that may have been made already (7).
`lifecycleMu` is its owner; `drainMu` is the writer that has called `Lock()`, which
holds up new readers as in Go, and the set `Readers`. `WorkerTakes` and
`WorkerExits` are the ipset worker; `InternalBegins`/`InternalEnds` the queries of
DoH resolution, which hold no lock and may outlive their handler. One group stands
for all: `start()` and `stop()` treat them alike, one after the other.

**HandlerService** - the abstract promise: one handler in service, a query is
served by the handler that was in service when it began, retirement only out of
service and unused, closing is final. `HandlerLifecycle!ImplementsService` is the
refinement: `current` is `ptr`, `serving` is `using`, `retired` the handlers told
to stop, `closed` is `stopped /\ ptr = NoHandler`.

**CallerSelect** - `outbound/groups.go`, `Handle`, `runCallerAttempts`,
`firstResponse`, `fastestResp` and `hostStats`. Each operator on an entry
(`Cleaned`, `Refreshed`, `Candidates`, `Succeeded`, `Failed`) is one critical
section of `stateMu`. Instants are distances from now, capped where the code no
longer distinguishes them, so time passes without a bound. An attempt ends
answered, failed or cancelled at any moment, also after `Handle` has returned.

**Hijack** - `outbound/groups.go`, `processHijackRules`, `replaceDomainSuffix`,
`cleanHijackAnswer`. A name is a sequence of labels with a case folding `Lower`, so
that "at or below a domain" is a suffix of whole labels. Each turn of each loop is
a step (`Forward`, `Back`), `Clean` is the last.

**DNSCache** - `cache/dns.go` as operators: the entry `Set` makes, the countdown
and the two expiry tests of `Get`.

**QueryPipeline** - `handlerImpl.handle`. `Receive` is hosts and refused types,
`Find`/`Miss` read the cache, and what is done with the entry read is a step of its
own (`ServeFromCache`, `DropExpired`), because others change the cache in between.
`Route` takes `Matched`, the first match in the order `Before` of `newHandle`
(fallback last, the group with the list before it, the rest by name). `HandleAnswers` includes the
redirector, `Finish` is `PostProcess` and `Set`. A request has a name, a subnet and a
`class`, which stands for all that `cacheKey` leaves out of the key: requests that
differ only in it share an entry (`Key`). `Evict` is ristretto, which also
refuses an entry as it likes. An answer carries as history for which request it
was fetched, which subnet was sent and which groups were asked.

**Server** - `cmd/main.go`. `setup` is the configuration's choice of services.
`pc` follows `run()`: `OpenUDP`, `OpenTCP`, `LoadCert`, `OpenPlain`,
`StartRuntimes`, the three cases of the select (`OnSignal`, `OnDone`, `OnError`),
the calls of the shutdown function one by one (`Close`), the wait for the
goroutines (`Await`) and `Exit`. `open` are the sockets; in `runDoH` the services
`doh`, `tcp` and `mux` share one. `state` follows the goroutine of each service
(`udp`, `tcp`, `doh`, `mux`, `cert`, `plain`): `Begin`, `Fail` or `End`, then
`Report` to `errCh` (16 places) and `Leave`. What `Shutdown` does to a service that
has been spawned and does not serve yet is that of the library used: a DNS server
refuses and its socket is closed instead, an HTTP server closes its socket when it
comes to serve. Beside it `reloadConf`: `Receive`, `ReadFile`, `Apply`,
`LeaveReload`, with a channel of one signal, and somebody who edits the file.
The external behaviour is that of miekg/dns 1.1.50, cmux 0.1.5 and net/http: a
`Serve` call returns when its socket is closed, when it is told to, or by itself;
the multiplexer's end is reported as an error and ends the two services it feeds.

**Hosts**, **Matcher** - `hosts/hosts.go`, `matcher/adblock.go`, `matcher/trie.go` as
operators on tables and tries: one address more (`AddIP`), one line more
(`WithLine`), the rules of a file behind those of the section (`Extend`), and what is
read of them (`Get`, `Match`). A pattern or a wildcard rule is the set of names
its regular expression matches; a domain is a sequence of labels, a node of the
trie the suffix that leads to it. An address is its text, as the code compares it, with
the type that `buildIPInfo` gives it (`TypeOf`) and whether `dns.NewRR` takes a record
of it (`Writable`). A line whose expression does not compile is `broken`.

**Construction** - `newHandle` with `NewDNSHosts`, the checks of `NewDNSCache`,
`BuildGroups` and `NewRedirector`. Each turn of each loop is a step, of the outer loops
(`LoadHosts`, `OpenFile`, `BuildGroup`, `BuildRedirector`, `Assign`) and of the inner
ones, over the addresses of an entry or a file (`AddHost`) and the lines of rules
(`AddRule`, first of the section, then of the file, which `OpenRulesFile` reads into a
matcher of its own until `RulesRead`). `AddGroup` is the rest of a turn of
`BuildGroups`. Where the code walks a map the step takes any element that is `left`; a
sequence is in `reading`, and `at` of its elements are done. Every error goes through
`Abort`, a broken rule, in a text or in the list file, through `Panic`.

**GFWList** - the list of a group from `BuildGroups` over the updater to the file.
A list is its version. `Crash` and a new `Build` share `file` and nothing else.
`OpenFile` and `WriteFile` are the two halves of `os.WriteFile`.

## 3 The runs

| Run | What it asks | Instance |
|---|---|---|
| `doh` | `NoLostWakeup`: each waiter is matched by a token or a request. `EmptyHandedOnlyAfterFailure`: coming back without a client means that a resolution failed. `ClientsNeverLost`. `ServedUnlessWedged`, `ExitEndsAll`: liveness | 2 waiters, 1 address; 9 thousand states |
| `doh_tick` | violation, see 6 | same |
| `lifecycle` | `NoQueryOnRetired`, `NothingLeaks`, `ClientTasksDrained`, `StoppedForGood`, `ImplementsService`; `ControllersReturn`, `QueriesAnswered`: liveness | 2 clients, 2 controllers, the first handler and one more, 1 internal query, channel of 1; 29 thousand states |
| `select` | `EnoughResultsComing`, `NothingOnlyIfAllFailed`, `ActiveHasWon`, `FallenNotAskedAlone`, `RecentHostsKept` | 2 overlapping queries, 2 upstreams, 1 host, window 2, TTL 3; 172 thousand states |
| `hijack` | `RestoredIfReversible`, `AnswerSpeaksOfQuestion` | every list of at most two rules over four domains; 333 thousand states |
| `hijack_chain` | violation, see 6 | the documented chain |
| `pipeline` | `AnswersOwnRequest`, `OwnSubnetSent`, `RedirectRespected`, `RulesBeforeList`, `ServedTTLHonest` | 2 queries at a time, 5 requests, 3 groups redirecting in a circle, cache of 1; 3.15 million states |
| `pipeline_ipset` | violation, see 6 | same, with an ipset on group 3 |
| `gfwlist` | `NewerOnly`; `StopReturns`, `ListCatchesUp`: liveness | 2 handlers, 3 versions; 54 thousand states |
| `gfwlist_empty` | violation, see 6 | 2 versions |
| `server` | `CleanExit`, `ExitCodeHonest`; `EndsAsAWhole`, `ComesUp`, `SignalsHeeded`: liveness | every combination of services, 1 or 2 failures; the smallest combination with 3 SIGHUPs and 2 edits; 336 thousand states |
| `construction` | `VerdictAsConfigured`, `HostsAnswer`, `MostSpecificRuleWins` | some fifteen thousand configurations in five families; 210 thousand states |

`lifecycle`, `select`, `pipeline`, `gfwlist` and `construction` check the module's
`TypeOK` too; that of `DoHCaller`, `Hijack` and `Server` is proved and in no run.
Every property is stated in words above its definition.

**Why these bounds.** In `doh` two waiters suffice for all that is special about
the channels: both have capacity 1, each waiter may come, give up and come again
for ever, so abandoned requests and tokens of any number of calls are among the
behaviours (the wedged state needs three abandoned requests and is reached with
two waiters), and one address is enough as only the emptiness of `clients` is
read. `NoLostWakeup` and the other safety properties are proved for any number.
In `lifecycle` the two handlers are the first and the one of a reload, which
replaces it or is refused by `Stop`; two controllers are the smallest number that
contend for `lifecycleMu`, and each may call `Stop` again and again, but of two
reloads at a time only one finds a handler to build. The program has no more:
`reloadConf` is one goroutine, `Stop` is called by `main`. For any number of
handlers and controllers the safety properties are proved. In `select` two overlapping
queries are needed for every hazard listed, two upstreams make "alone" differ
from "all", and as in the code (an hour, a day, five minutes) the window is
shorter than the TTL and the cleanup interval shorter than both. With one host the cleanup is
run by that host's own queries; `MCHosts` has the instance with two. In `hijack`
two rules are the smallest list with order; domains include one below another,
and names come in both cases. In `pipeline` a cache of one entry makes
replacement, eviction and refusal happen all the time; TTL 3 is above `MaxTTL`, TTL
1 at `MinTTL`, and the clock moves by one both ways, so an entry of life 1 expires
and one of life 2 does not. One name is asked for in a second class, with and without the entry of
the first being there. `Lists` contains a list that claims a name of another
group's rules. In `gfwlist` two handlers are a reload, or a crash and a restart;
three versions let both updaters hold different old ones.

In `server` two failures are the smallest number where one happens while the other
is being dealt with; the scenarios with both kinds of DoH have one, for the size of
the state space (`CleanExit` and `ExitCodeHonest` are proved for any number). `run()`
and `reloadConf()` share nothing but the context, so SIGHUPs are explored with one
service: three signals and two versions give a signal that finds the channel full
while the file read is already old. In `construction` each family exhausts one part
of the file, the rest being plain: two entries of the hosts map in every order with
files behind them, four patterns of equal and different length, an IPv6 text of an
IPv4 address and an address in two spellings; up to two lines
of rules in the section and in the file, over a domain, the one below it and the one
below that, with broken ones; a list file with a broken rule; three groups with every flag; redirectors with every destination; every
pair of TTL limits. Errors of two families do not interact except in which is met
first, and nothing depends on that.

`CHECK_DEADLOCK FALSE` is said where the program really may stop: after `Exit`
(`doh`), when the reply has been given (`hijack`), when the bounded number of
handlers is used up (`gfwlist`), when the process has exited (`server`), when the
handler is built or refused (`construction`).

Bounds that are guards: `MaxTime` in `Tick` (QueryPipeline), `MaxVersion` in
`Publish` and `MaxHandlers` in `Build` (GFWList), the set `Handlers` in `NewHandle`
(HandlerLifecycle), `setup.failures` in `MayFail`, `setup.signals` in `Hangup` and
`MaxEdits` in `Edit` (Server).

## 4 Fairness

- *Go's select* chooses at random among ready cases, so a case that is ready again
  and again is taken: strong fairness on `TakeTick`, `TakeRequest`, `RunExits`
  (`doh`) and `Leave` (`gfwlist`).
- *Goroutines blocked on a channel* are served in the order they came: strong
  fairness on `Require` and `Satisfied`.
- *Go mutexes* hand over to a waiter that has starved for a millisecond: strong
  fairness on `LockForReload`, `LockForStop` and on a reader's `BeginQuery` or
  `Refuse`. A pending writer holds up new readers, which is in the model
  (`drain`), not in the fairness.
- *Everything else the program does by itself* is weakly fair: lookups have a
  timeout of one second, queries and downloads have deadlines. In `server` that is
  one condition for `run()` (`RunStep`), one for each service's goroutine and one
  for `reloadConf`; which case of a select is taken is left open.
- `FetchSucceeds` is strongly fair in `gfwlist`. That is an assumption about the
  network, not the program: downloads do not fail for ever. `ListCatchesUp` would
  be meaningless without it.
- Nothing is assumed of the environment's initiative: clients need not ask,
  waiters need not give up, tickers of DoH upstreams, reloads, `Stop`, signals,
  edits, failures, crashes and new versions need never happen.

`CallerSelect`, `Hijack`, `QueryPipeline` and `Construction` state no fairness and
have no liveness properties.

## 5 What is proved

The theorems hold for every value of the constants under the assumptions named in
the modules: the sets of processes are arbitrary (finite for waiters, as
`NoLostWakeup` counts them), capacities are positive, and the distinguished values
(`NoHandler`, `Nobody`, `"name"`) are not members of the sets they stand beside.

**DoHCaller_proofs**

- `TypeCorrect`: `Spec => []TypeOK`, with the capacities of both channels.
- `WakeupsKept`: `Spec => []NoLostWakeup`. The inequality *waiters of satisfyCh <=
  queued requests + request in hand + tokens* is inductive together with `TypeOK`.
  A waiter joins in the step that queues a request; `TakeRequest` moves it from
  the queue into the hand, `Notify` from the hand to the tokens; `Satisfied` takes
  one token and one waiter; giving up only lowers the left side. After `Exit` the
  notification may be skipped, hence `~cancelled`. The library's facts about the
  cardinality of a finite set with one element more or less carry the arithmetic.
- `EmptyHandedCorrect`: strengthened to `NoTokenBeforeFirstResolution`: while there
  is no client and no resolution has failed, no token exists, none is about to be
  sent and no waiter is about to read again.
- `ClientsKept`: `Spec => ClientsNeverLost`.

**HandlerLifecycle_proofs**

- `TypeCorrect`.
- `InvariantCorrect`: the inductive invariant `IInv`. `NoQueryOnRetired` alone is not
  inductive: nothing in it keeps `CloseStopCh` from hitting a handler in use. `IInv`
  adds why not: a query that runs uses the handler in service and is a reader of
  `drainMu` (`ReadersUseCurrent`); the handler in service is started
  (`CurrentIsStarted`); service is empty only after a `Stop` went through
  (`CurrentUntilStop`); who is between the test of `stopped` and the swap owns
  `lifecycleMu` and swaps in nil exactly if it is `Stop` (`LockHeld`); what a
  controller has in hand is in the state its place in the code says (`NewHandlers`,
  `OldHandlers`), and no two hands hold the same handler (`HandsApart`).
- `RetiredUnused`, `LeakFree` and `StopIsFinal` follow from it. `LeakFree` is about the
  handlers that `newHandle` has returned; one that it failed to build is `lost`.
- `TasksDrained`: with `IInv`, that no client's task is in the channel of a handler
  whose worker has gone (`DrainInv`): the worker leaves only with an empty channel,
  and only after `stopCh` was closed, when no client uses the handler any more.
- `LifecycleImplementsService`: every step is a step of `HandlerService` or leaves
  it unchanged. `BeginQuery` is `Begin`, `EndQuery` is `End`, `Swap` is `Switch` or
  `Close` (`SwapRefines`), `CloseStopCh` is `Retire` (`RetireRefines`); all others are
  invisible (`Invisible`).

**CallerSelect_proofs**

- `LoopIsFed` and `EmptyMeansAllFailed`. The invariant `QueriesOK` says for each query
  that the attempts under way plus the results in the channel plus those received
  are the candidates (`TurnsLeft`), so the loop has a turn for each result still to
  come, and that an answer sent and not received is in the channel
  (`AnswersInFlight`), so a loop that ends without one has only seen failures.
- `ActiveCallerHasWon`, `FallenNeverAlone`, `RecentKept`. `HostsTracked` ties each entry
  to the history: its active caller has won for this host and has not failed since,
  and it was used no later than the host was asked for. `Pinging` carries a winner
  through the time in which its answers are pinged outside the lock.

**Hijack_proofs**

- `ReversibleRestored`, for a list of rules of any length. `Trail` is what the rules
  made of the name one after the other; on the way back the name is, up to case, the
  element of the trail the loop has arrived at (`OnTheTrail`). The step is the lemma
  `ThereAndBack`: replacing a suffix and replacing it back gives the name, up to the
  case of the suffix, for a rule that is reversible for it. Names are compared label
  by label (`UnderLabels`, `ReplaceLabels`), with the library's facts on `SubSeq` and `\o`.
- `RepliesClean`, for any set of records an upstream may send.

**QueryPipeline_proofs**

- `OwnAnswer`, `OwnSubnet`, `RedirectObeyed`, `RulesFirst`, `HonestTTL`. The invariant is
  that every entry in the cache (`CacheOK`), in a query's hand and on its way to the
  cache (`QueryOK`) was fetched for a request with the key it is stored under, that is,
  of its name, type and subnet, with the subnet
  of the group that was asked, and has been through that group's redirector
  (`Settled`). An answer that does not come out of the cache was fetched for the very
  request of the query. A request written to by a group would break it in
  `HandleAnswers`. What the key leaves out may differ (6). The
  types of the TTLs (`StoredType`, `CountedType`) are what `HonestTTL` rests on: life
  left is never more than life stored minus the time elapsed, which the code takes
  to be nought when the clock was set back.
- `MatchedType` needs that among the groups that match there is a first one: the
  order is by fallback, list and name, and a set of numbers has a least element
  (`Least`, from the library's well-founded minimum on the naturals).
- `LoopTakesMatched`: `Matched` chooses that first group without a list; the loop of
  `handle()` over any list sorted as `newHandle` sorts it takes the same one, or the
  fallback group where none matches.

**GFWList_proofs**

- `RulesNeverGoBack`: a download in hand is at least as new as the rules it will
  replace (`HeldIsNewer`), since an updater is the only writer of its group's list,
  and nothing is newer than what is published (`FromThePast`). What is in the file
  matters only to a group that is being built (`UnbornHasNone`).

**Server_proofs**

- `EndsCleanly`, `ExitCodeTrue`. The invariant has four parts: what has not been
  started and opened yet at each point of the start (`NotYet`, `OpenedSoFar`); every
  open socket belongs to a goroutine that will close it, or is the one the next
  call closes (`SocketsServed`); as long as nothing failed and nothing is being
  closed, no goroutine ends and no error is queued (`Quiet`); a failure that does not
  end the start is in `errCh` or about to be (`Noticed`). The last two give the exit
  code, also when the case `done` of the select is taken with an error in the queue.

**Construction_proofs**, for any configurations, with any number of entries, files,
lines, patterns, groups and redirectors

- `TypeCorrect`. `Progress` is what each place in `newHandle` says of what was made: the
  names in `groups` are those of the groups done (`Done`), likewise the redirectors, and
  what is being read is the part of the configuration it should be.
- `HostsAnswerHolds`. No property of the finished table is inductive, as it is filled pair
  by pair. `HostsLoaded` says that every pair of the configuration is in the table or
  still to come (`Coming`: in an entry left, behind `at`, in a file not opened), that the
  table has nothing else and nothing twice. At the end nothing is to come
  (`TableFull`), and `Lookup` takes the entry of the source (`LookupSource`): among
  the patterns that match there is one before all others, since lengths are bounded
  and the least place among the longest exists (`FirstPattern`). The addresses, their types
  and the ones a record can be written of are arbitrary: what is left out of an answer
  is exactly what the code skips.
- `MostSpecific`. `Holds(m, lines, n)` says what a matcher knows of the first n lines: a
  node is an end exactly if there is a rule for it, with the sense of the last one,
  and the wildcards cover what the wildcard lines cover. Three lemmas carry it
  along, one for each thing the code does to a matcher: `EmptyHolds`, `LineHeld` for one
  line of `NewABPByText`, `ExtensionHeld` for `Extend`, after which it holds of the section's
  lines with the file's behind them. `MatchDecides` leads from there to the decision:
  the longest end on the way is that of the most specific rule.
- `VerdictCorrect`. `GroupsChecked` ties the flags of `BuildGroups` to the groups taken up
  so far, `RestChecked` the list and the redirectors to the configuration. With
  them each error names something that a valid configuration does not have
  (`RefutedStep`, one case for each), and what passes all checks is valid (`BuiltIsValid`).
  `RulesCompiled` says that no group with a broken rule has been built and
  `BrokenMet` that a panic has met one. In a sorted list the fallback group is the last (`FallbackLast`).
- `HandlerFitsPipeline` joins the two modules: the handler built has one fallback group,
  at most one group with the list, each group once in a list strictly sorted, and
  redirections only to groups that exist, which is what `QueryPipeline` and
  `LoopTakesMatched` assume.

Text is read in loops, and what a loop computes for every input would need induction
over the text, which the provers do not have. As every turn is a step of the
specification, the induction is the temporal one over the behaviour, and the theorems
hold for texts of any length.

**Assumptions.** Beside types: a host exists and `NoEntry` is not an entry
(CallerSelect); names of groups are numbers, answers are sequences of records, and
the distinguished values lie outside the sets (QueryPipeline); the same of `Nil` and
`Broken` (GFWList); case folding is a function on labels (Hijack); a configuration has a
finite number of groups, the names of groups and of redirectors are keys of a map, so no
two are the same, no two patterns have the same place in the alphabet, where there
are patterns at all one is a longest, and an address is of type A or AAAA (Construction).
None bounds the number of anything. TLC evaluates them in the runs.

**Model-checked only.** All liveness properties (`ServedUnlessWedged`, `ExitEndsAll`,
`ControllersReturn`, `QueriesAnswered`, `StopReturns`, `ListCatchesUp`, `EndsAsAWhole`,
`ComesUp`, `SignalsHeeded`): they rest on fairness, which is outside what the proof
system treats. The statements that are violated (section 6). Every safety
property, action property and type invariant of the runs is proved.

## 6 Where the code and its words disagree

- `doh_tick` (`caller.go:204` against the comment at 189). Two requests that were
  abandoned, as happens whenever another upstream answers first, leave one token
  in `satisfyCh` and block `run()` on a second. Once there are clients nobody reads
  the channel: the daily resolution has stopped until the next reload. With a
  third abandoned request and no client the upstream is dead (`Wedged`);
  `ServedUnlessWedged` shows that this is the only such state.
- `hijack_chain` (`groups.go:345` against 344). The way back applies every rule
  whose destination covers the name, also one that was not applied on the way out:
  with `/a/b/` and `/b/c/` a query for b comes back as one for a.
  `RestoredIfReversible` says when the comment is right.
- `pipeline_ipset` (`handler.go:378` against `ts-dns-full.yaml:95`). When the group
  redirected to gives no answer, the first group's answer is posted to the other
  group's ipset.
- `gfwlist_empty` (`groups.go:852` against 851). An empty list file counts as loaded:
  there is no download at start.

Disagreements without a run, with what the documents say or with what a reader would
expect:

- *The subnet and DoH.* "暂不支持doh" (`ts-dns-full.yaml:60`, and `README.md:108`) says that
  the group's subnet is not sent to DoH upstreams. The code adds it before it chooses the
  upstreams (`groups.go:455`), and a DoH upstream packs and sends the request as it gets
  it (`caller.go:326`). `OwnSubnetSent` states what the code does, for every upstream.
- *Classes share an entry.* `cacheKey` (`dns.go:88`) has name, type and subnet. A question of
  class CH may be answered from an entry fetched for class IN, and a request with DO or
  CD from one without. `AnswersOwnRequest` says what holds: the same name, type and
  subnet, and the very request where the answer does not come out of the cache.
- *Addresses that are accepted and never given.* `::ffff:1.2.3.4` passes `net.ParseIP` and is
  typed A, and `dns.NewRR` refuses the record (`hosts.go:254`): the line is logged, and
  the query goes to the cache and the groups. Two spellings of one IPv6 address are both
  given, as `containsIP` compares text. `HostsAnswer` says both.
- *A broken rule ends the process.* A path or wildcard rule that is no regular expression
  makes `MustCompile` panic (`adblock.go:127`, 141), and a path rule such as
  `/^https?:\/\/.*/`, whose beginning and end overlap, the slice before it; nothing
  recovers, at start or at a reload. Every other fault of a configuration is an error, and a
  reload that fails leaves the old handler in service. `VerdictAsConfigured` has the
  panic as an outcome of its own.
- *A failed `newHandle` leaves its cache behind* (`handler.go:138`): errors after
  `NewDNSCache` return without stopping it, so a reload that fails there leaks the goroutines
  and the memory of a cache. `NothingLeaks` is about handlers that were built.
- *Shutdowns without a deadline.* `shutdownRuntimes`, `shutdown` and `shutdownHTTPServer` wait
  five seconds at most; `closeRuntimes` and `cleanupStarted` (`main.go:189`, 289), after a
  failed start, call `shutdownDNSServer` with a context that never ends.
- The comment on ".qq.com" in `ts-dns-full.yaml`; `adblock.go:86` says that a repeated rule
  replaces the earlier one, which is so for domains and not for wildcards; wildcard rules
  are not lowered as domains are, so one with a capital letter matches nothing; the type
  of a redirector is checked in lower case and compared as written (`NotIn`); a hosts
  pattern that matches a final dot goes before the entry of the name itself, because
  the name with its dot is looked up first (`HostsAnswer` says so).

## 7 What is not modelled

- *YAML decoding, base64, the extraction of a domain from a rule line, regular
  expressions, CIDR and address parsing*: a conversion of text. A line, pattern or
  range is given by what it is, or by whether it can be read.
- *Wire formats, HTTP, ping probes, the kernel's ipset* (`outbound/ipset.go` is a thin
  wrapper): input and output without state of the program. Their outcomes are
  nondeterministic choices.
- *Plain DNS and DoT upstreams, inbound DoH, DNS helpers*: no state between calls; what
  callers see of them is in `CallerSelect`, `HandlerLifecycle` and `QueryPipeline`.
- *The order of the records of an answer* (a set in `Hijack`), the shuffle of cached
  addresses, logging, flags, malformed messages, messages with several questions.
- *The sockets of net/http, miekg/dns and cmux* beyond what section 2 says of them.
- *Test doubles*: used by tests only.
- *The cache that `newHandle` leaves behind when it fails*: the failure and the `lost`
  handler are in the model, but the cache's own goroutines belong to ristretto and
  nothing ever ends them; a listed hazard without a property (6).
- *A downloaded GFW list with a broken rule*: `NewABPByText` panics in the updater too, which
  ends the process. `GFWList` takes what is downloaded to be a list; `Crash` may happen at
  that point, as at any other.
- *A group without upstreams*, which returns nil at once (`groups.go:463`):
  `CallersAssumption` of `CallerSelect` excludes it. It has no race and no statistics.

## 8 Plan

Done, in the order of importance: DoHCaller, HandlerService and HandlerLifecycle;
CallerSelect; Hijack; DNSCache and QueryPipeline; GFWList; Server; Hosts, Matcher and
Construction; and the proofs of every safety property of the runs.

To come:

1. An abstract cache (a key holds at most one answer, fetched for that key, and
   gives it out only within its life) that `QueryPipeline` implements.
2. An abstract server (down, serving, ending, ended with a code) that `Server`
   implements, and its composition with `HandlerService`: `handler.Stop` after the
   last service has gone.
3. The resolution of DoH upstreams through the handler itself, as a composition of
   several `DoHCaller` with the routes between them. The loop check of `resolve` knows
   only the upstream's own name: when two upstreams resolve each other's servers, the
   internal queries of the one are requests to the other, and one query of a client
   sets off internal queries that never end. The module is to show that they do end
   where the routes have no cycle longer than one.
