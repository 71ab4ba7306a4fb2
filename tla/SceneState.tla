----------------------------- MODULE SceneState -----------------------------
(***************************************************************************)
(* Sky and overlay of the scene (scene.py), as GET /current updates and    *)
(* returns them (enrichment/scene_enrichment.py) and as every SSE event    *)
(* carries them (enrichment/scene_packet_tap.py).  Daytime is the subject  *)
(* of SunTimes, the label of the solar classifier that of SkyCondition;    *)
(* here it changes as it likes.                                            *)
(*                                                                         *)
(* A request has its observation from the upstream answer, is suspended in *)
(* the requests of the enrichments, and then does the rest in one step.    *)
(* Several may be in flight, and end in any order.                         *)
(***************************************************************************)
EXTENDS Integers

CONSTANTS Request,  \* GET /current requests in flight at the same time
          Solar,    \* the labels the solar classifier may give
          Clouds,   \* the labels cloud cover may give, and None
          Linger,   \* _LINGER_SECONDS
          MaxDelay, \* how long a request may be suspended
          MaxTime,  \* bound of the model: the clock
          None      \* no label, no precipitation, not set

SceneAssumption ==
  /\ Solar \subseteq {"Clear", "Mostly Clear", "Partly Cloudy", "Mostly Cloudy",
                      "Cloudy"}
  /\ Clouds \subseteq {"Clear", "Mostly Clear", "Partly Cloudy",
                       "Mostly Cloudy", "Overcast", None}
  /\ Linger \in Nat \ {0}
  /\ MaxDelay \in Nat
  /\ MaxTime \in Nat
  /\ None \notin Int \cup {"rain", "snow"}

\* What the upstream answer says: cloud cover as a label, whether the rain
\* gauge is above zero, and whether the provider's text has "thunderstorm".
Observation == [clouds : Clouds, rain : BOOLEAN, storm : BOOLEAN]

Precip == {"rain", "snow"}

VARIABLES now,         \* time.monotonic()
          solar,       \* what sky_condition.classify() gives, or None
          lastPrecip,  \* _last_precip_mono
          lastOverlay, \* _last_precip_overlay
          providerSky, \* _provider_sky_label
          pc,          \* pc[r]: "idle", "fetching"
          obs,         \* obs[r]: the observation r has in hand
          asked,       \* asked[r]: the clock when r got it
          response,    \* the last response: what it was told, and its scene
          wet          \* the last time each precipitation was observed

vars == <<now, solar, lastPrecip, lastOverlay, providerSky, pc, obs, asked,
          response, wet>>

Init ==
  /\ now = 0
  /\ solar = None
  /\ lastPrecip = None
  /\ lastOverlay = None
  /\ providerSky = None
  /\ pc = [r \in Request |-> "idle"]
  /\ obs = [r \in Request |-> None]
  /\ asked = [r \in Request |-> 0]
  /\ response = None
  /\ wet = [p \in Precip |-> None]
-----------------------------------------------------------------------------
(* scene.py                                                                *)

\* The table has no entry for "Cloudy", nor for an unknown label.
MapSky(label) ==
  IF label = "Thunderstorm" THEN "storm"
  ELSE IF label \in {"Mostly Cloudy", "Overcast"} THEN "cloudy"
  ELSE "clear"

\* _compute_overlay; precipType is "snow" for sleet and freezing rain too.
OverlayOf(precipType, o) ==
  IF precipType = "snow" THEN "snow"
  ELSE IF precipType = "rain" \/ o.rain \/ o.storm THEN "rain"
  ELSE None

\* _get_lingering_overlay for a detection at since.
Lingering(since, overlay, t) ==
  IF since = None THEN None
  ELSE IF t - since > Linger THEN None
  ELSE overlay

\* build_scene for the given label.
Scene(label, provider, since, overlay, t) ==
  [sky |-> MapSky(IF label # None THEN label ELSE provider),
   overlay |-> Lingering(since, overlay, t)]

\* What an SSE event carries now.
PacketScene == Scene(solar, providerSky, lastPrecip, lastOverlay, now)
-----------------------------------------------------------------------------
(* GET /current                                                            *)

\* enrich_weather_text replaces the provider's text by a composed one, which
\* speaks of sky, wind, comfort and rain, never of thunderstorms.
WeatherText(o) == [o EXCEPT !.storm = FALSE]

\* The upstream answer is there and the first requests of the enrichments
\* are under way.
Arrive(r) ==
  /\ pc[r] = "idle"
  /\ pc' = [pc EXCEPT ![r] = "fetching"]
  /\ \E o \in Observation : obs' = [obs EXCEPT ![r] = o]
  /\ asked' = [asked EXCEPT ![r] = now]
  /\ UNCHANGED <<now, solar, lastPrecip, lastOverlay, providerSky, response,
                 wet>>

\* The label enrich_scene arrives at.
SkyLabel(o) ==
  IF o.storm THEN "Thunderstorm"
  ELSE IF solar # None THEN solar
  ELSE o.clouds

\* A dry observation changes nothing.
DetectPrecip(overlay) ==
  IF overlay # None
  THEN lastPrecip' = now /\ lastOverlay' = overlay
  ELSE UNCHANGED <<lastPrecip, lastOverlay>>

\* Faulty variant of UpdateProviderSky: only a label from cloud cover counts.
UpdateProviderSkyAtNight(label) ==
  providerSky' = IF solar = None THEN label ELSE providerSky

UpdateProviderSky(label) == providerSky' = label

\* The forecast is there, or has failed; the rest of enrich_scene follows
\* without another suspension.
Finish(r) ==
  /\ pc[r] = "fetching"
  /\ pc' = [pc EXCEPT ![r] = "idle"]
  /\ obs' = [obs EXCEPT ![r] = None]
  /\ \E precipType \in Precip \cup {None} :
       LET o == WeatherText(obs[r])
           label == SkyLabel(o)
           overlay == OverlayOf(precipType, o)
       IN /\ UpdateProviderSky(label)
          /\ DetectPrecip(overlay)
          /\ response' = [told |-> obs[r],
                          scene |-> Scene(label, providerSky', lastPrecip',
                                          lastOverlay', now)]
          /\ wet' = IF overlay = None THEN wet
                    ELSE [wet EXCEPT ![overlay] = now]
  /\ UNCHANGED <<now, solar, asked>>

SolarChanges ==
  /\ \E label \in Solar \cup {None} : solar' = label
  /\ UNCHANGED <<now, lastPrecip, lastOverlay, providerSky, pc, obs, asked,
                 response, wet>>

Tick ==
  /\ now < MaxTime
  /\ \A r \in Request : pc[r] # "idle" => now + 1 - asked[r] <= MaxDelay
  /\ now' = now + 1
  /\ UNCHANGED <<solar, lastPrecip, lastOverlay, providerSky, pc, obs, asked,
                 response, wet>>

Next == Tick \/ SolarChanges \/ \E r \in Request : Arrive(r) \/ Finish(r)

Spec == Init /\ [][Next]_vars
-----------------------------------------------------------------------------
(* What must hold.                                                         *)

\* Every variable stays in its range; there is a kind of precipitation
\* exactly if there was a detection.
SceneTypeOK ==
  /\ now \in 0..MaxTime
  /\ solar \in Solar \cup {None}
  /\ lastPrecip \in 0..now \cup {None}
  /\ lastOverlay \in Precip \cup {None}
  /\ (lastPrecip = None) <=> (lastOverlay = None)
  /\ providerSky \in Solar \cup Clouds \cup {None, "Thunderstorm"}
  /\ \A r \in Request :
       obs[r] \in (IF pc[r] = "fetching" THEN Observation ELSE {None})

\* By night, when the classifier is silent, a packet shows what the last
\* response showed, whatever was in flight with it and whatever the
\* classifier said before dark, but for an overlay that has run out since.
SameSceneAtNight ==
  (solar = None /\ response # None) =>
    /\ PacketScene.sky = response.scene.sky
    /\ PacketScene.overlay \in {response.scene.overlay, None}

\* The overlay is there for Linger after each detection, through any number
\* of dry observations, and not longer; it is that of the last detection.
OverlayLingers ==
  LET recent == {p \in Precip :
                   IF wet[p] = None THEN FALSE ELSE now - wet[p] <= Linger}
      shown == PacketScene.overlay
  IN IF recent = {} THEN shown = None
     ELSE shown \in recent /\ \A p \in recent : wet[p] <= wet[shown]
-----------------------------------------------------------------------------
(* What the source says of itself and the code does not do.                *)

\* "Storm override: "thunderstorm" in conditions text triggers the storm sky
\* bucket regardless of cloud cover" (enrich_scene): a provider's text with
\* "thunderstorm" gives the storm sky.
StormIsShown ==
  response # None => (response.told.storm => response.scene.sky = "storm")
=============================================================================
