# A verification of weewx-clearskies-realtime

TLA+ models of the realtime service, checked with TLC on small instances. Every
safety property the passing runs check, the two refinements among them, is also
proved with TLAPS for every value of the constants; liveness is left to TLC.
Paths below are relative to `src/weewx_clearskies_realtime/` in the
repository unless they start with `tests` or a module name.

## 1. The system

weewx produces a *loop packet* every few seconds. The realtime service gets the
packets, sends them to browsers as server-sent events, and answers the
dashboard's REST requests by forwarding them to an upstream API and enriching
the answer with what it has computed from the packets.

    weewx process                     realtime service (one asyncio loop)
    +------------------+  Unix socket +------------------------------------------+
    | engine thread    |------------->| DirectAdapter --+                        |
    | accept thread    |              |                 v                        |
    +------------------+              | (or MQTTAdapter, paho thread)            |
                                      |            source queue                  |
                                      |                 v                        |
                                      |   SSEEmitter._fanout --> packet tap      |
                                      |     |   |   |          wind, lightning,  |
                                      |     v   v   v          sky, smoothers    |
                                      |   subscriber queues        |             |
                                      |     v   v   v              v read by     |
      browsers  <---- GET /sse -------|   generators       enrichments of        |
      browsers  <---- GET /current ---|------------------- the proxied answer    |
                                      +------------------------------------------+

The inventory, with what is hard in each part and what makes it correct:

| Component | Code | State | Operations | Hard behaviour | Correct when |
|---|---|---|---|---|---|
| SSE fan-out | `sse/emitter.py`, `app.py` | source queue, one bounded queue per subscriber, fan-out task, one generator per client | `start`, `stop`, `subscribe`, `unsubscribe`, `_fanout`, `GET /sse` | tasks interleave at every await; timeouts, disconnects and shutdown race with packets; slow clients | each client gets a contiguous run of the packets from when it joined; a slow client costs nobody anything; nobody ended stays registered |
| weewx loop relay | `weewx_ext.py` | `_clients`, `_running`, server socket, lock | `on_new_loop_packet`, `_accept_loop`, `shutDown` | two threads; kill and restart; `sendall` blocks | as above for socket clients; no connection is forgotten; weewx is not blocked for ever |
| Direct adapter | `adapters/direct.py` | connection task, stop event, back-off | `start`, `stop`, `_run`, `_handle_line` | reconnection after kills; stop at any point | packets in order and at most once; `stop` ends the task; it reconnects |
| MQTT adapter | `adapters/mqtt.py` | connected and subscribed flags, what was handed to the loop | paho callbacks, `start`, `stop` | callbacks run in paho's thread, `stop` joins it from the loop's; lost connections | packets arrive in order, none after `stop`; a lost session is subscribed again; `stop` returns |
| Health endpoint | `health.py` | none (the adapters' flags) | probes, `_aggregate` | flags written in two steps by another thread | "ok" only with a subscribed connection; a missing broker never makes the service unready |
| Wind window | `enrichment/wind_rolling_window.py` | two time-windowed buffers | `process_packet`, `get_wind_avg`, `get_gust_max` | packet time and wall clock differ | the mean and the maximum are of exactly the window |
| Lightning log | `enrichment/lightning_strike_buffer.py` | last counter, 24 h of strikes | `process_packet`, `get_strike_history` | counter resets, restarts; packet time and wall clock differ | no strike is made up, none the counter shows leaves no trace |
| Sky label | `sky_condition.py`, `enrichment/sky_tap.py` | samples, last label | `update`, `classify` | reading changes the hysteresis; day and night | the label is within the hysteresis of the thresholds; a night resets it |
| Comfort label | `temperature_comfort.py` | two tiers, cached label and its time | `classify` | every client classifies; two hysteresis bands and a hold | the label is held, agrees with its tiers, does not bounce |
| Sun times | `scene.py`, `enrichment/scene_enrichment.py` | sunrise and sunset of a day | `update_sun_times`, `sun_times_need_refresh` | check, await, write by several requests; UTC dates and local days | daytime is true while the sun is up |
| Scene | the same, and `enrichment/scene_packet_tap.py` | last precipitation, cached sky label | `detect_precip`, `update_provider_sky`, `build_scene` | responses and packets interleave | packets and responses show the same scene; the overlay lasts as long as it should |
| Proxy and pipeline | `proxy.py`, `app.py`, `__main__.py` | shared client, registry, handlers in flight | `configure`, `close`, `proxy_api`, `_run_enrichments` | one client for several servers; a body that is awaited; failing enrichments; shutdown | each request gets one answer: what upstream said, with every enrichment that did not fail, in order |
| Smoothed inputs | `enrichment/ring_buffer.py`, `input_smoother.py`, `uv_smoother.py` | rings with running sums | `add`, `process_packet`, `get_smoothed` | sums updated by what enters and leaves; NaN | the mean is that of the last readings |
| Barometer trend | `enrichment/barometer_trend.py` | cached configuration | `enrich_barometer_trend` | two readings by two ways, in units of their own, one of them rounded; gaps in the archive | the trend is over its window, in one unit, right but for the rounding |
| Conditions text | `conditions_text.py`, `enrichment/weather_text.py` | none | text and code | two sets of rules in two files for one sky | the code says what the text says |
| Planet viewing | `enrichment/planet_viewing.py` | two answers in flight | `enrich_planet_viewing` | either answer or any planet may fail; points without a time | a failure costs no other planet its fields; at the best time the sky is clear and the planet up |
| Units and fields | `units/`, `proxy.py`, `mqtt_fields.py` | targets, formats | `transform_record`, `convert_mqtt_packet`, `_apply_conversion` | the unit system is inferred; records that do not convert | both ways show a measurement in the same unit; a record is converted whole or not at all |
| Lifecycle | `__main__.py`, `app.py` | servers, signal | `serve_all`, `lifespan` | order of start and stop | the service comes down after the signal |
| Settings, logging, packaging | `config/`, `logging/`, `Dockerfile` | read once, or none | - | - | - |

`PROJECT.json` lists every component with its status, and under `hazards` each
hard behaviour at the line where it bites.

## 2. Modules and how they correspond to the code

| Module | Models | Kind |
|---|---|---|
| `SSEBroadcast` | what the fan-out promises its clients, no queue or task in sight | abstract specification |
| `SSEEmitter` | emitter, fan-out task, `GET /sse` generators | detailed specification |
| `RelaySocket` | the Unix socket as the kernel keeps it, and a reader nothing is known of | external |
| `LoopRelay` | `ClearSkiesLoopRelay`: engine thread, accept thread, several instances in a row | EXTENDS `RelaySocket` |
| `DirectAdapter` | `DirectAdapter`: its task and `stop` | EXTENDS `RelaySocket` |
| `DirectFeed` | direct mode end to end | composes `LoopRelay` and `DirectAdapter` |
| `WindWindow`, `LightningStrikes`, `SkyCondition` | the taps that keep samples | one module each |
| `ComfortLabel`, `SunTimes`, `SceneState` | the enrichments of `GET /current` that keep state | one module each |
| `MQTTFeed` | `MQTTAdapter` in two threads, its broker, the readiness endpoint | one module |
| `Gateway` | what the service promises of `/api/v1`, no server, client or registry in sight | abstract specification |
| `ProxyPipeline` | servers, lifespans, `proxy_api` and its enrichments | detailed specification |
| `SmoothedInputs` | the rings and the smoothers that feed them | one module |
| `BarometerTrend`, `PlanetViewing`, `WeatherText`, `UnitPaths` | the enrichments and conversions of an answer | one module each |
| `PacketTaps` | the four packet taps side by side | composes `WindWindow`, `LightningStrikes`, `SkyCondition`, `SmoothedInputs` |
| `Enrichments` | all eleven enrichments side by side | EXTENDS `PacketTaps`, composes the other seven |
| `MCEnrichments` | small values for the constants of `Enrichments` | for TLC |
| `KeptPart` | what a comprehension of the code keeps of a list, what a loop of `popleft()` leaves, what `sum()` adds up | helpers |
| `SequenceFacts` | facts about sequences and `KeptPart` | proofs |
| `SSEEmitterProofs`, `LoopRelayProofs`, `DirectFeedProofs`, `MQTTFeedProofs`, `ProxyPipelineProofs` | theorems about the module of the same name | proofs |
| `TapProofs` | what each tap of `PacketTaps` keeps, and theorems about wind and lightning | proofs |
| `EnrichmentProofs` | the same for the other enrichments, and the theorems about `Enrichments` | EXTENDS `TapProofs` |

Definitions keep the source's names where they can, and `map` in `PROJECT.json`
gives the lines each one stands for. Definitions whose comment starts with
"Faulty variant of" are never part of a specification: each is a definition
with a plausible bug in it, and `mutants` says which property notices the
difference.

**Grain of the steps.** All of the service's Python except paho's callbacks
runs on one asyncio loop. A step of a model is therefore the stretch of code
between two suspension points (`await`, `yield`), whatever it calls. In the
relay, which has two threads, a step ends where another thread can be noticed:
at the lock, at a system call on a socket, and at each write of a field the
other thread reads.

**`SSEEmitter`.** `source` is the queue between adapter and emitter, `queue[c]`
the subscriber queue of client `c`, `subscribers` is `_subscribers`. `pc[c]` is
where the generator of `c` is suspended: waiting for an item, in
`is_disconnected()` with a packet in hand, at a `yield`, or cancelled at a
`yield` and waiting for the event loop to finalise it. `FanOut` is one turn of
`_fanout` (tap, put to all, removal of those whose queue was full); `Keepalive`
is the timeout of `wait_for`; `CancelStream` is what `EventSourceResponse` does
when the client has gone or the server stops. A packet is its position in the
order of the adapter; conversion and scene injection change its fields only.

**`LoopRelay`, `DirectAdapter`, `DirectFeed`.** Instances of the relay are
numbered as weewx starts them. The accept thread may be between `accept()` and
the lock while `shutDown` runs, or blocked in an `accept()` that keeps the
listening socket alive after `close()`. `KillWeewx` is the death of the process:
its sockets go, the socket file stays. A connection's `wire` holds at most
`SocketBuffer` lines; `sendall()` waits for room. The adapter's task is modelled
at its suspension points, with `stop()` possible at each.

**`WindWindow`, `LightningStrikes`, `SkyCondition`.** Time is the wall clock in
whole units. `WindWindow` gives packets times that differ from the clock by up
to `Skew`, keeps everything ever `added` beside the buffer, and compares the
two. `LightningStrikes` stamps its strikes with the same kind of time, while
eviction goes by the clock; it has the station beside the service: `known`
counts the strikes there were since the service saw its first counter, `traces`
has the times of the packets that brought some. `SkyCondition` compares means
and variances without dividing; reading the label is an action, because it moves
the hysteresis.

**`ComfortLabel`, `SunTimes`, `SceneState`.** The comfort model has the real
tables and bands, in tenths of a degree. `SunTimes` has an external almanac that
answers for local days in UTC, at a station anywhere whose sunrises may get
earlier or later from day to day, and requests that are suspended between their
check and their write; `asOf` remembers when the request that wrote the times
had begun, for the properties only. `SceneState` has requests that end in another
order than they began, and packets that read in between.

**`MQTTFeed`.** paho's thread takes one event after another off `wire` and runs
its callback; a callback that writes two flags is two steps, because the probe
reads them from the other thread. `ready` is what `call_soon_threadsafe` has
handed over and the loop has not yet run; `stop()` is two steps, between which
the loop's thread waits in `loop_stop()` and runs nothing. The broker is a
clean session that forgets a subscription with its connection; paho and its
reconnection are external. `Probe`, `Aggregate` and `Readiness` are the health
endpoint's answer as a function of the state.

**`ProxyPipeline`.** Each bound address has a server, and each server runs the
lifespan of the one app, so `configure()` and `close()` run once per server on
one module-level `client`; clients are numbered, and `open` holds those not yet
closed. A handler is suspended before its request is looked at (`accepted`),
while the body is awaited, while upstream is awaited, or between two
enrichments; `todo`, `applied` and `failed` follow its pipeline. `ServedBy` maps
it to `Gateway`: `closing` there is the first `close()`, `cause` is upstream's
outcome with the enrichments that failed, and `spoilt` when the conversion or
`JSONResponse` raised (`proxy.py:189-212`): the upstream body then goes out as it
came, whatever has run. An object may be spoilt at any time, since the model does
not look into it.

**`SmoothedInputs`, `BarometerTrend`, `PlanetViewing`, `WeatherText`,
`UnitPaths`.** A ring keeps its sum beside it, and a sum that is not a number
stays so. In `BarometerTrend` a pressure is in thousandths of an inHg and
`Number(p, u)` is what a unit makes of it, so that mixing units shows. The
archive's record is exact; the current reading is taken for one of the inferred
unit, converted, formatted and parsed back (`Displayed`: a multiple of the step of
its format), or it is the number of the upstream if the conversion fails.
`PlanetViewing` has a step for each awaited answer; a point of the forecast may
have no time that parses, and the angle between two bodies is given. The text of
`WeatherText` is the sequence of its labels. `UnitPaths` keeps for each number the unit it was measured in, the one it was
read in and the one it is shown in, once for a REST response, once for an
archive and once for a packet of the stream.

## 3. Runs

Passing runs; each finishes in less than three minutes with two workers.

| Run | Instance | Shows |
|---|---|---|
| `emitter` | a client that reads and one that may not, queues of 2, 4 packets; 261 000 states | What a client is sent, holds and has queued is a contiguous run of the packets since it joined, in spite of timeouts, disconnects, overflow and shutdown; whoever is registered misses nothing; the sentinel is last; no ended generator is registered. A reader gets all it has queued; a sentinel ends its stream. `SSEEmitter` implements `SSEBroadcast`: only a client that is itself `MaxQ` behind is ever removed. |
| `relay_safety` | 2 instances, 3 connections, 3 packets; 2.6 million states | With any readers: a connection carries a contiguous run from when it was added; every live client has been sent every packet when a broadcast ends, also if another is found dead in it; the socket file leads to the running instance after any kill; every open connection is known to somebody. |
| `direct_feed` | 2 instances, 5 connections, buffers of 2, 3 packets; 163 000 states | The emitter's queue gets packets in order and at most once over kills and reconnections; the service holds at most one connection; while a connection stands every packet made since the relay added it is on that queue or waits in the socket to be read; `stop()` ends the task; the adapter ends up connected to an instance that stays; the engine is never left waiting in `sendall()`. |
| `mqtt_feed` | 4 packets, 3 refused, failed or lost connections; 24 500 states | Of a connection that stands every packet is on its way to the queue, in order and once, with `stop()` at any point; readiness is "ok" only with a subscribed connection or one whose end has not been noticed; after `stop()` nothing moves; a lost connection is subscribed again; `stop()` returns. |
| `gateway` | 2 servers, 2 requests (GET and POST, two endpoints), two enrichments that may raise; 577 000 states | `ProxyPipeline` implements `Gateway`: until the service closes every request gets the whole answer, or the upstream body as it came when no JSON can be made of it, whatever other requests, failing enrichments and starting servers do. Every GET is answered, and the service comes down unless a client keeps its body back. |
| `enrichments` | wind: 3 packets in 5 units, window 2; lightning: 4 strikes, 2 resets or restarts; sky: 4 packets; rings of 2 and 3; comfort: 96 readings around four tiers; sun: 5 stations over three days; scene: 2 requests in flight; barometer: 3 pressures in 4 units of time; text: every table on both sides of its bounds; planets: 7 kinds; units: 2 records; 2.4 million states | Wind, smoothed fields: what is reported is of exactly the samples it should be of. No strike is made up and none the counter shows leaves no trace. The sky tables agree within the hysteresis and a day owes nothing to the one before. A comfort label is held, agrees with its tiers and does not bounce. Wherever the station is, daytime follows the sun with two refreshes under way that may be written late and in any order, or the next request refreshes, or it is one of the minutes by which the sun rose earlier than the day before. Packets show the scene of the responses. A trend is over its window and, but for the rounding of the display, has the size and the direction of the change. Code and text agree. A failing planet costs no other its fields; the best time is one at which the sky is clear and the planet up. Responses, archives and packets show the same measurement, whole or not at all. |

`enrichments` explores eleven components that share no state: the variable
`part` says which one moves while the others rest. An interleaving of
independent components has no state that is not a combination of states of the
parts, and each property is about one part (`ReportsAreOfTheirSamples` about
two, one conjunct each). The two requests are alike, which the cfg uses as a
symmetry; all its properties are safety properties. What `SceneState` and `WeatherText` read of another
part, daytime and the solar label, they let change as it likes. A cfg with a
smaller `Part` checks one part alone.

Runs that find a violation. Each checks one sentence of the source against the
code.

| Run | The source says | The code |
|---|---|---|
| `emitter_dropped` | clients that overflow "are silently dropped" (`sse/emitter.py:8`) | they are only no longer served: the stream stays open with keepalives |
| `relay_shutdown` | "close all client sockets" (`weewx_ext.py:122`) | a connection accepted meanwhile is added after the list was emptied |
| `sun_east` | "True when current UTC time is between sunrise and sunset" (`scene.py:183`) | where the sun rises before midnight UTC, daytime is false until then, also with the times of a request that began after the sunrise, because the UTC date's times are asked for |
| `scene_storm` | "thunderstorm" in the provider's text gives the storm sky (`enrichment/scene_enrichment.py:106`) | the enrichment registered before has replaced the text |
| `gateway_closed` | the client of the proxy is closed "at app shutdown" (`proxy.py:91`) | the lifespan of the first server to drain closes it (`proxy.py:94`), and requests in flight on the others end in a 500 |
| `barometer_units` | "Positive `barometerTrend` values indicate rising pressure" (`enrichment/barometer_trend.py:16`) | with a unit of the dashboard's own the current reading is converted and the archive's is not: the difference mixes units |

Met while modelling, without a run of their own:

- `stop()` of the emitter cannot put its sentinel in a full queue, so its
  slowest client is left to the library's cancellation (`sse/emitter.py:71`).
- The gust, the lightning history and the sky label outlive their window when
  samples stop (`enrichment/wind_rolling_window.py:219` says "over the last 10
  min" at its line 7).
- One entry is logged however far the lightning counter has risen.
- The comfort label's hold applies to danger labels too.
- While sunrises get earlier, from winter to summer, the sunrise is less than a
  day after the one before, so the times are refreshed some minutes late: this is
  `RoseEarlier` in `DaytimeFollowsSun`.
- One NaN in an answer costs it all its enrichments, those that succeeded
  included, and its conversion: `JSONResponse` refuses it, and the raw upstream
  body goes out instead (`proxy.py:196-212`).
- The trend is of a rounded reading less an exact record, so a change of less
  than the threshold may have a direction and one of more may have none.
- The sky label cached for the night is the one last shown, by day the solar
  one; the classifier's "Cloudy" has no entry in the scene's table
  (`scene.py:220`) and gives a clear sky.
- `input_smoother.py` drops the unit suffix of a field, while
  `enrichment/weather_text.py:103` takes what it gives for US units.
- A converted response keeps the label block of the station's units
  (`proxy.py:489`).
- The one case in which text and code differ: fog by day with a label of the
  solar classifier, which the text prefers and the code does not look at.
- A packet of the stream has `beaufort` only when the wind speed has a target
  unit; a response always has it.
- The readiness probe of the upstream API is a synchronous `httpx.get()` on the
  event loop (`proxy.py:236`), so nothing else runs until upstream answers.
- `accept()` that fails for want of a descriptor ends the relay's accept thread
  for good (`weewx_ext.py:83`).

### Bounds, and why they are enough

- Two clients: every property of the fan-out is about one client or about one
  client next to another; the code treats all alike. The theorems remove the
  bound. Four packets overflow a queue of two with one packet in the
  generator's hands and one more to come.
- Two instances of the relay: an instance meets at most what its predecessor
  left (file, accept thread, open connections). Three connections are one dead,
  one stalled and one late; five let the adapter retry through both instances.
- Four packets and three losses at the broker: one lost before, one during and
  one after a subscription, with packets on the way each time.
- Two servers are one that closes and one that still serves; two requests are
  one on each, or one that comes while another is suspended. `current` has
  several enrichments and `almanac/planets` one that is registered by its full
  path; two that may raise are one in the middle and the last.
- The adapter's back-off is bounded by `BackoffMax`; its duration is not
  modelled, only that it is over at some time.
- Windows of two units with skews of one, of wind packets and of strikes, have
  entries before, on and after each edge, and times that go back. Four sky indexes lie on either side of the bounds of both tables, and
  two samples make a uniform or a variable sky.
- The comfort readings lie around four adjacent tiers, below, on and above each
  band, and one of them skips a tier; the hold is two units in four.
- Pressures differ by 6, 11 and 17 thousandths, around the threshold of 10, and
  lie on either side of where `%.2f` (inHg) and `%.1f` (mbar) round; the units are
  two, the inferred one, the station's and the target each either. A clock of four
  units reaches before and into the archive's windows, of two and of two to four.
- Values of the text tables lie on both sides of each bound; a forecast of four
  points with clear, cloudy and missing octets has a best time before, at and
  after the transit, before the planet rises or after it sets, or none; others
  have no point, none with a time, or one without a time first.
- One of two records of a page may not convert, or both; each unit group has a
  target or none.
- A day of sixteen units has an hour and a half per unit; three days contain
  each order of sunrise, sunset, midnight and refresh. One station is to the east,
  with sunrises on the UTC date before, one to the west, with sunsets on the next,
  one near Greenwich, and of two the sun rises two units later or earlier every
  day: far more than it does, and the least the clock can show.

### Fairness

`FairSpec` of `SSEEmitter`: the event loop runs every ready task and fires
timers, so fan-out, wake-ups, timeouts, the answer of `is_disconnected()` and
finalisation are weakly fair. Only a client in `Reader` lets its response finish
a write. Nothing is assumed of the adapter, of `stop()` or of the library's
cancellation.

`FairFeedSpec` of `DirectFeed`: threads run and the task of the adapter runs
(weak fairness); the accept thread gets a lock that is free again and again
(strong fairness, since the engine may take it between two attempts); the
interpreter collects an abandoned instance. Nothing is assumed of weewx, which
may send nothing, never stop and never start again.

`FairSpec` of `MQTTFeed`: both threads run, paho's ends when `loop_stop()` asks
it to, and a broker answers on a connection it has (connections fail `MaxLoss`
times and no more, else nothing could be promised). Nobody need call `stop()`.

`FairSpec` of `ProxyPipeline`: the event loop runs what is ready, and
`httpx.Timeout` bounds every wait for upstream, so an answer or a failure comes.
Nobody need send a request or its body, or shut down: the body of a POST is the
one wait the code does not bound.

## 4. Proofs

What the proofs show holds for every value of the constants: any number of
clients, connections, requests and packets, any queue or buffer size, any
length of a window. They rest on the assumptions in the table, each of which
TLC evaluates for the instances it checks, and on nothing else.

| Assumption | Says | Because |
|---|---|---|
| `EmitterAssumption` | the queue size is positive, the sentinel is no packet | `_SUBSCRIBER_QUEUE_MAX = 64` (`sse/emitter.py`), `None` |
| `SocketAssumption`, `RelayAssumption`, `AdapterAssumption` | the numbers are numbers, the kernel buffers at least a line, "no connection" is none | |
| `MQTTAssumption` | the bounds are numbers | |
| `ProxyAssumption`, `ResponseAssumption` | there is a server, there are GETs, paths are of the four kinds with different enrichments; `None` is no request, no outcome and no answer | `serve_all` needs an address; `register_enrichment` is called for two endpoints |
| `WindAssumption`, `LightningAssumption`, `SceneAssumption` | lengths of time are numbers, `None` is no value | |
| `ComfortAssumption` | the same, and readings are within the sentinels of the first and the last tier | `temperature_comfort.py:138` and its like call them unreachable |
| `SkyAssumption` | an index is in 0..120 (hundredths), a window contains its recent part, at least one sample is asked for | `sky_condition.py:131-132` clamps it; the module's constants |
| `SmoothedAssumption` | a ring holds at least one number, NaN and `None` are none | `ring_buffer.py` |
| `SunAssumption` | the sun sets after it rises and before it rises again; a sunrise is on the UTC date it is asked for by, or on the one before; its times are odd and the clock even, so that they never meet | the almanac answers for the local day, whose sun rises before noon and which is less than a day from UTC's; a tie would be a matter of one microsecond |
| `BarometerAssumption` | pressures are numbers, scales and the steps of formats positive ones, a look-back is longer than its grace | 3 hours and 5 minutes by default (`enrichment/barometer_trend.py:66-71`); an operator who sets them the other way round asks for readings of the future |
| `TextAssumption` | the classifier gives its five labels, and no word is none | `sky_condition.py` |
| `PlanetsAssumption` | the times of forecasts, transits and the sun are numbers, or `None` where there is none that parses; `None` is no rating and no note | |
| `UnitsAssumption` | records and targets are of the groups of `UnitPaths`, each of which has a unit in each system | `units/groups.py` |

The modules of single enrichments are instances in `PacketTaps` and
`Enrichments`, so their assumptions are named definitions there, and
`TapAssumption` and `CurrentAssumption` assume all of them of the composition.

`SSEEmitterProofs`:

| Theorem | Property |
|---|---|
| `TypeCorrect` | `TypeOK`, the bound on queues included |
| `ContiguousDelivery` | `DeliveryIsContiguous` |
| `CurrentSubscribers` | `SubscriberIsCurrent` |
| `LastSentinel` | `SentinelIsLast` |
| `FinishedUnsubscribed` | `FinishedIsUnsubscribed` |
| `BoundedBacklog` | `BacklogBounded` (proved only) |
| `Refinement` | `ImplementsBroadcast`: `Spec` implies `SSEBroadcast`'s `BSpec` under the mapping at the end of `SSEEmitter` |

None of the safety properties is inductive alone: that the next packet put into
a queue continues what the client was sent needs that the client is current,
which needs that the queue holds nothing after a sentinel, which needs that
fan-out stops with `stop()`. The inductive invariant `IInv` (theorem
`Invariance`) is the conjunction of `TypeOK`, `TapSeesEveryPacket` and, for each
client, `ClientInv`: `Contiguous`, `Current`, `SentinelLast`, `Registered`, and
that an unused client has nothing. There is one lemma per action, and one for
all clients an action does not touch (`OtherClient`). `Refinement` maps each
action to a step or a stutter of `SSEBroadcast`, using `IInv` in the state
before; the packet a generator yields is the next one `Deliver` demands because
of `Contiguous`, and a client removed by `FanOut` is `MaxQ` behind because of
`Current`.

`LoopRelayProofs`, about the relay with any reader that only connects, reads
and closes (`PeerStep`):

| Theorem | Property |
|---|---|
| `RelayTypesHold` | `RelayTypeOK` |
| `DeliveryIsContiguous` | `ReceivesContiguously` |
| `NoClientLeftBehind` | `ClientIsCurrent` |
| `ReachableWhileUp` | `RelayIsReachable` |
| `NoConnectionForgotten` | `OpenIsKnown` |

Both contiguity and currency are about one connection, but what keeps them is
about all places a connection can be in. `RelayInv` says that it is in one place
at a time (`OnePlace`: a backlog, an accept thread's hands or one list), that
nothing is sent before it is in a list (`Fresh`), that a broadcast is at a place
of a list that does not change under it (`Round`: the lock), and that what a
client was sent is all packets up to this one or the one before, depending on
whether the broadcast has passed it (`UpToDate`). The hard step is the end of a
broadcast, which takes the dead out of the list while the others keep their
order: the lemmas about `Without`.

`DirectFeedProofs` composes this with the adapter:

| Theorem | Property |
|---|---|
| `EmitterGetsOrder` | `FeedInOrder` |
| `OneConnectionAtATime` | `OneConnection` |
| `NothingLostOnTheWay` | `FeedIsComplete` |
| `RelayKeepsItsPromise` | `ReceivesContiguously` and the relay's other invariants, with this reader |

Each step of the adapter is a `PeerStep`, so `RelayInv` holds of the
composition. `FeedInv` adds that no connection carries a packet weewx has not
made yet, that the feed is past, that all that was read from the connection in
use is in it (`FeedHasRead`), and that it is behind everything that connection can
still bring (`FeedIsBehind`). The last is the heart of it: a
connection that was opened while an older one still held unread lines would
break it, and it holds because the adapter closes the old one first.
`NothingLostOnTheWay` adds the relay's currency to `FeedHasRead`: a client of the
running instance was sent everything since it was added, and what was sent is
read or still on the wire.

`MQTTFeedProofs`:

| Theorem | Property |
|---|---|
| `MQTTTypeCorrect` | `MQTTTypeOK` |
| `PacketsArriveInOrder` | `PacketsArrive` |
| `ReadinessTellsTruth` | `ReadinessIsTrue` |
| `QuietAfterStop` | `StoppedIsQuiet`, an action property |

`FeedInv` says which events may be on the wire in each state of the session and
of paho's thread (`Connection`: nothing is left of an earlier connection, an
end comes last), that a new connection is not taken for subscribed (`Fresh`),
that wire, handed-over packets and queue are in order, each before the next
(`Ordered`), and that every packet since the subscription is in one of the
three (`Complete`). The proof of `ReadinessTellsTruth` showed that the guards
of `Aggregate` had overlapped in the model, which TLC decides by the order they
are written in; they follow the code's early returns now.

`ProxyPipelineProofs`:

| Theorem | Property |
|---|---|
| `ProxyTypeCorrect` | `ProxyTypeOK` |
| `PipelineImplementsGateway` | `ImplementsGateway`: `Spec` implies `Gateway`'s specification under `ServedBy` |

`ProxyInv` says that between the start of a server and the first `close()` the
client in use is open (`Serving`), what is known of a request at each place its
handler can be suspended (`Follows`), and that a handler half way through its
enrichments has run those behind it and applied them less those that failed
(`HalfWay`). With it every step maps to an `Ask`, an `Answer` or the `Close` of
`Gateway`, or to a stutter; the answer that ends a request is the whole one
because at the last enrichment `HalfWay` covers all of them, or the upstream
body alone (`Raw`) because that is what `Gateway` answers when it is spoilt.

`EnrichmentProofs`, about the composition of all enrichments (`Enrichments`):

| Theorem | Property | Component |
|---|---|---|
| `EnrichmentsTyped` | `EnrichmentTypeOK` | those with a type invariant: text, planets and units have none |
| `ReportsOfSamples` | `ReportsAreOfTheirSamples` | `WindWindow`, `SmoothedInputs` |
| `LogIsOfTheCounter` | `LogFollowsCounter` | `LightningStrikes` |
| `SkyLabelsAreDue` | `SkyLabelIsDue` | `SkyCondition` |
| `TiersOfTheReading` | `TiersAreOfTheReading` | `ComfortLabel` |
| `LabelsAreSteady` | `LabelIsSteady`, an action property | `ComfortLabel` |
| `DaytimeIsOfTheSun` | `DaytimeFollowsSun`, of any station | `SunTimes` |
| `ScenesOutlastRequests` | `SceneOutlastsRequests` | `SceneState` |
| `TrendsAreRight` | `TrendIsRight` | `BarometerTrend` |
| `CodesAreOfTheText` | `CodeSaysWhatTextSays` | `WeatherText` |
| `PlanetFieldsAreLocal` | `PlanetFieldsStand` | `PlanetViewing` |
| `UnitsAgree` | `UnitsAreRight` | `UnitPaths` |

Each component has an invariant of its own (`WindInv`, `SkyInv`, `SunInv` and so
on) which its own `Next` keeps; four of them (comfort, scene, wind, lightning)
also have theorems about the component alone. The composition keeps, for each
component, `WindPart` and its like: if the component is the part that moves, its
invariant, and otherwise that what its properties look at is still as it was at
first, where they hold too. A step of one part leaves the variables of the
others as they are, so eleven `...Step` lemmas carry the invariants over.

- *Comfort.* `NoBounce` needs to know where the reading of the last change was:
  on the new tier's side of the bound it passed (`Turned`), from which a reading
  that undoes it is a `Band` away. The proof needs readings within the
  sentinels: beyond them a reading would overshoot the open end of the first or
  last tier, which has no tier behind it to go to.
- *Scene.* What is kept between requests is the latest detection of all that
  were observed, in whatever order the requests end (`Detected`), and the sky
  kept for the night is that of the last response, with no later detection
  (`Answered`).
- *Wind.* A buffer is the end of what was added, and what it lacks was older
  than the window when the last sample came (`Kept`). Since the clock does not
  go back it is still older now: nothing recent is missing, although late
  packets make the buffer disordered. When the times are in order, what is in
  the buffer and what is in the window are the same, so the mean and the maximum
  are of just that (`FirstOutside`, `KeptAtSuffix` in `SequenceFacts`).
- *Lightning.* The counter has risen by no more than the strikes not yet seen
  (`Risen`; equality as long as it has not been reset), so a rise is a strike.
  `Traced` counts, for every time in the window, the packets of that `dateTime`
  that brought strikes and the strikes in the log. The log need not be in the
  order of time, but eviction stops at the first entry that is not too old and
  takes no entry that is in the window (`LogEvictFacts`), so the inequality
  survives it (`CountSuffix`, by an injection of places).
- *Sky.* The buffer is what was taken since the night, less what had left the
  window of the newest sample (`InWindow`); pruning takes exactly that, because
  samples are in the order of the clock. The rest is about the tables: sums of
  weights and of weighted indexes are bounded element by element (`TotalBounds`),
  so the mean is in the range of an index, and each bound of the table with
  hysteresis is the bound of the other one moved by at most `Hyst`
  (`UniformAgrees`, `VariableAgrees`, one case per label). Dividing is avoided by
  comparing with multiples of the count, as the model does.
- *Smoothed fields.* `RingOf`: the ring is the end of all that was fed, and the
  running sum is the sum of the ring unless something fed was NaN. One addition
  takes the head off (`TotalTail`) and puts the new reading on (`TotalAppend`).
- *Sun.* Unless yesterday's times could not be had (`guessed`), the cached times
  are of one day whose sun had risen when the request that wrote them began, and
  where the sunrise is on its UTC date they are of the last such day
  (`DaytimeInv`), whichever of several refreshes writes last. If another sunrise
  has passed since, either a day has gone by after the one that is cached, and the
  next request refreshes, or the sun has risen earlier than the day before
  (`RiseFacts`, `DaytimeFacts`). Nothing is assumed of the station: the first
  conjunct holds east of Greenwich too, where `sun_east` shows that what the
  second says does not.
- *Barometer.* A trend that is shown is of a record inside the window that was
  asked for, which `WithinGrace` places around the time of the trend
  (`InWindowOfTrend`). The reading is at most half a step of its format from the
  number it was made from (`TakenFacts`), which scaling keeps (`ScaledDistance`,
  `ProductOrder`), so the trend is that near to the change of the pressure, and
  its direction is right outside the same distance of the threshold
  (`DirectionIsOfRise`).
- *Text and code.* Each part of a text is said at most once and nothing else is
  (`SaidOnce`, about `KeptAt`), so what a text says of sky, rain and wind is
  what each table gave (`TextSays`). Then the two sets of tables are compared
  label by label (`SkyOfTheCode`, `WordsOfRain`).
- *Planets.* The fields of a planet are computed from the forecast, the planet
  and the moon; the lemma `LocalFailure` says what is left when the moon is
  taken away or another: a tier, the note and the conjunction. What is rated is
  rated by a nearest point among those with a time, which is not cloudy. The best
  time is the transit or the nearest of the clear points at which the planet is
  up, which lie between the first and the last of them (`NearestFacts`,
  `WindowFacts`, `BestFacts`).
- *Units.* What is shown is a function of what was measured, the station's
  system and the labels (`UnitsInv`); the system inferred from labels agrees with
  the station's in each unit a label is there for (`InferFacts`), and
  conversion of a record is field by field unless one fails (`TransformFacts`).

TLC checked the inductive invariants on instances, those it can evaluate, before
their proofs.
`SequenceFacts` holds what the proofs share about sequences: appending,
suffixes, pairs of positions, `Without`, `DropLeading` and `Total`. The
comprehensions of the code are written with `Without` and `KeptAt` (module
`KeptPart`), not `SelectSeq`, whose recursion cannot be reasoned about;
`WithoutAssumption` in `MCEnrichments` has TLC compare the two. `Total` is a
recursive function of a position, and what it returns is proved by induction on
that position. The library's induction theorems take a predicate as a
parameter, which the installed provers cannot instantiate, so `Induct` and
`LeastNat` state induction for a set of numbers; they are proved from the
well-foundedness of the natural numbers.

Only model-checked is liveness, as temporal reasoning under fairness and ENABLED
are out of the prover's reach: `ReaderGetsBacklog`, `SentinelClosesReader`,
`StopEnds`, `Recovers`, `EngineNeverStuck`, `SubscribesAgain`, `StopReturns`,
`NothingHangs`.

## 5. Not modelled, and why

- The wording of labels and texts, the arithmetic of conversions, the
  trigonometry of planets, wind direction and extra sensors, logging, settings:
  pure functions or text with no state; where a label's identity or a number's
  unit matters it is modelled.
- Headers, query strings and the relaying of bodies by the proxy.
- How a tap finds a number in a packet (suffixes, strings), and that one tap's
  exception does not reach the next (`enrichment/packet_tap.py`).
- Lengths of lines and messages, serialisation: a packet is a number.
- The choice of addresses, the command line and the drain time of the servers:
  `ProxyPipeline` lets them drain as late as they like, `SSEEmitter` lets `Stop`
  and `CancelStream` happen at any time.
- File descriptors running out in `accept()`, and the duration of retries: a
  back-off that is never reset would not be noticed.
- A broker that refuses a subscription in its SUBACK.
- What a NaN or a value that does not convert is in an answer: only that the
  answer is then sent as it came.

## 6. Plan

Done: models of every part that keeps state or decides by tables, two abstract
specifications with their refinements, and a proof of every safety property
that a passing run checks.

What could come next:

1. The parts of section 5 that have rules of their own: how a tap finds a number
   in a packet, and the isolation of one tap's exception from the next.
2. A clock finer than the one of `SunTimes`, so that drifts of minutes can be
   checked and not only proved.
3. Liveness by hand: `Recovers` and `EngineNeverStuck` rest on the safety
   invariants that are proved, and a written argument from those to the leads-to
   properties would say for every number of instances what TLC says for two.

## 7. Running it

    tlc -workers 2 -config SSEEmitter.cfg SSEEmitter
    for m in SequenceFacts SSEEmitterProofs LoopRelayProofs DirectFeedProofs \
             MQTTFeedProofs ProxyPipelineProofs EnrichmentProofs TapProofs; do
      tlapm $m.tla
    done

`PROJECT.json` names the module and the cfg of every run.
