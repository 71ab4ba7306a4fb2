----------------------------- MODULE Enrichments ----------------------------
(***************************************************************************)
(* The enrichments: the packet taps, and what answers to requests pass     *)
(* through: comfort label, sun times, sky and overlay of the scene,        *)
(* barometer trend, conditions text, planets and units.  None reads what   *)
(* another keeps but for daytime and the solar label, which SceneState and *)
(* WeatherText let change as they like, so each is explored with the       *)
(* others at rest: part says which one moves.                              *)
(***************************************************************************)
EXTENDS PacketTaps

CONSTANTS Request,   \* the requests in flight
          MaxDelay,  \* MaxDelay[p]: how long a request of part p may be suspended
          AppTemp, Dewpoint, OutTemp, HeatIndex, WindChill, \* comfort: readings
          Hold,      \* comfort: _HOLD_SECONDS
          Station,   \* sun: the stations of the almanac
          Day,       \* sun: the length of a day
          Solar,     \* scene: the labels of the solar classifier
          Clouds,    \* scene: the labels of cloud cover, perhaps None
          Linger,    \* scene: _LINGER_SECONDS
          Pressure, Scale, Step, Default, Trend, \* barometer: see BarometerTrend
          Comforts, SolarLabel, Cloud, Spread, Rain, Winds, Gust, \* text: inputs
          Planet, Group, Forecast, Almanac, Twilight, Now, \* planets: inputs
          Record, Target, \* units: measurements and targets
          MaxRecords, \* units: bound of the model
          Word       \* a value that is no number

VARIABLES tempTier, moistureTier, cached, cacheTime, accepted, shownSince, turn,
          station, utc, sunrise, sunset, sunPc, began, asOf, guessed,
          solar, lastPrecip, lastOverlay, providerSky, scenePc, obs, asked,
          response, wet,
          clock, pressure, records, units, trendConfig, answer, used,
          inputs, text, code,
          at, planets, points, almanac, fields,
          system, targets, format, labels, measured, shown, archive, loop, declared

\* Readings around the tiers "Cold", "Chilly", "Cool" and "Pleasant", around
\* the moisture tiers that make a difference there, and in the danger range.
Comfort == INSTANCE ComfortLabel WITH MaxTime <- MaxTime["comfort"]

Sun == INSTANCE SunTimes
  WITH MaxDelay <- MaxDelay["sun"], MaxTime <- MaxTime["sun"],
       now <- utc, pc <- sunPc

Scene == INSTANCE SceneState
  WITH MaxDelay <- MaxDelay["scene"], MaxTime <- MaxTime["scene"], pc <- scenePc

Barometer == INSTANCE BarometerTrend
  WITH MaxTime <- MaxTime["barometer"], station <- units

Conditions == INSTANCE WeatherText WITH Solar <- SolarLabel

Planets == INSTANCE PlanetViewing

Units == INSTANCE UnitPaths WITH current <- shown

ASSUME CurrentAssumption ==
  /\ Comfort!ComfortAssumption /\ Sun!SunAssumption /\ Scene!SceneAssumption
  /\ Barometer!BarometerAssumption /\ Conditions!TextAssumption
  /\ Planets!PlanetsAssumption /\ Units!UnitsAssumption

comfortVars ==
  <<tempTier, moistureTier, cached, cacheTime, accepted, shownSince, turn>>
sunVars == <<station, utc, sunrise, sunset, sunPc, began, asOf, guessed>>
sceneVars == <<solar, lastPrecip, lastOverlay, providerSky, scenePc, obs, asked,
               response, wet>>
barometerVars == <<clock, pressure, records, units, trendConfig, answer, used>>
textVars == <<inputs, text, code>>
planetVars == <<at, planets, points, almanac, fields>>
unitVars == <<system, targets, format, labels, measured, shown, archive, loop, declared>>
vars == <<part, now, packets, tapVars, comfortVars, sunVars, sceneVars, barometerVars, textVars,
          planetVars, unitVars>>

\* What may be so or so at the start matters to its own part only.
Init ==
  /\ TapsInit
  /\ Comfort!Init /\ Sun!Init /\ Scene!Init
  /\ Barometer!Init /\ Conditions!Init /\ Planets!Init /\ Units!Init
  /\ part # "sun" => station = CHOOSE s \in Station : TRUE
  /\ part # "barometer" =>
       /\ pressure = CHOOSE p \in Pressure : TRUE
       /\ units = [native |-> "inHg", inferred |-> "inHg", target |-> None,
                   custom |-> FALSE]
  /\ part # "units" =>
       /\ system = 1 /\ format = None
       /\ labels = [outTemp |-> None, rain |-> None]
       /\ targets = CHOOSE t \in Target : TRUE

\* One of the parts takes a step.
TapsMove ==
  /\ WindMoves \/ LightningMoves \/ SkyMoves \/ SmoothedMoves
  /\ UNCHANGED <<part, comfortVars, sunVars, sceneVars, barometerVars, textVars,
                 planetVars, unitVars>>

ComfortMoves ==
  /\ part = "comfort" /\ Comfort!Next
  /\ UNCHANGED <<part, packets, tapVars, sunVars, sceneVars, barometerVars, textVars,
                 planetVars, unitVars>>

SunMoves ==
  /\ part = "sun" /\ Sun!Next
  /\ UNCHANGED <<part, now, packets, tapVars, comfortVars, sceneVars, barometerVars,
                 textVars, planetVars, unitVars>>

SceneMoves ==
  /\ part = "scene" /\ Scene!Next
  /\ UNCHANGED <<part, packets, tapVars, comfortVars, sunVars, barometerVars, textVars,
                 planetVars, unitVars>>

BarometerMoves ==
  /\ part = "barometer" /\ Barometer!Next
  /\ UNCHANGED <<part, now, packets, tapVars, comfortVars, sunVars, sceneVars, textVars,
                 planetVars, unitVars>>

TextMoves ==
  /\ part = "text" /\ Conditions!Next
  /\ UNCHANGED <<part, now, packets, tapVars, comfortVars, sunVars, sceneVars,
                 barometerVars, planetVars, unitVars>>

PlanetsMove ==
  /\ part = "planets" /\ Planets!Next
  /\ UNCHANGED <<part, now, packets, tapVars, comfortVars, sunVars, sceneVars,
                 barometerVars, textVars, unitVars>>

UnitsMove ==
  /\ part = "units" /\ Units!Next
  /\ UNCHANGED <<part, now, packets, tapVars, comfortVars, sunVars, sceneVars,
                 barometerVars, textVars, planetVars>>

Next ==
  \/ TapsMove \/ ComfortMoves \/ SunMoves \/ SceneMoves
  \/ BarometerMoves \/ TextMoves \/ PlanetsMove \/ UnitsMove

Spec == Init /\ [][Next]_vars
-----------------------------------------------------------------------------
(* The properties of the enrichments.                                      *)

\* Every variable of the taps, the comfort label, the sun times, the scene and
\* the barometer trend stays in its range; text, planets and units, which keep
\* the last request only, have no type invariant.
EnrichmentTypeOK ==
  /\ TapsTypeOK
  /\ part = "comfort" => Comfort!ComfortTypeOK
  /\ part = "sun" => Sun!SunTypeOK
  /\ part = "scene" => Scene!SceneTypeOK
  /\ part = "barometer" => Barometer!BarometerTypeOK

\* Hysteresis delays a tier, it does not leave it behind (_apply_hysteresis),
\* and the tiers are those of the label shown (classify).
TiersAreOfTheReading == Comfort!TiersFollowReading /\ Comfort!LabelMatchesTiers

\* A label shown stays for the hold time, and a change of tier is undone only
\* by a reading a band away (classify).
LabelIsSteady == Comfort!LabelIsHeld /\ Comfort!NoBounce

\* Daytime is true exactly while the sun is up, or the next request refreshes
\* the times (_compute_daytime, sun_times_need_refresh, _update_sun_times).
DaytimeFollowsSun == Sun!DaytimeFollowsSun

\* Once refreshed since the last sunrise, daytime is right (_compute_daytime).
DaytimeOnceRefreshed == Sun!DaytimeOnceRefreshed

\* By night packets show what responses showed (build_scene), and the overlay
\* lasts for the linger time (detect_precip).
SceneOutlastsRequests == Scene!SameSceneAtNight /\ Scene!OverlayLingers

\* A trend is over its window, and of the pressure's size and direction as far
\* as rounding and units let it (enrich_barometer_trend).
TrendIsRight == Barometer!TrendIsRight

\* weatherCode says what weatherText says (enrich_weather_text).
CodeSaysWhatTextSays == Conditions!CodeSaysWhatTextSays

\* What fails costs no other planet its fields, and the best time is one at
\* which the planet can be seen (enrich_planet_viewing).
PlanetFieldsStand == Planets!FailuresAreLocal /\ Planets!BestTimeIsClear

\* A response and a packet show the same measurement (_apply_conversion,
\* convert_mqtt_packet), and a response is converted whole or not at all.
UnitsAreRight == Units!PathsAgree /\ Units!AllOrRaw

\* "Storm override: "thunderstorm" in conditions text triggers the storm sky
\* bucket regardless of cloud cover" (enrich_scene).
StormIsShown == Scene!StormIsShown

\* "Positive barometerTrend values indicate rising pressure; negative values
\* indicate falling" (enrichment/barometer_trend.py).
PositiveIsRising == Barometer!PositiveIsRising
=============================================================================
