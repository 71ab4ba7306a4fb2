----------------------------- MODULE WeatherText -----------------------------
(***************************************************************************)
(* weatherText and weatherCode of GET /current                             *)
(* (enrichment/weather_text.py, conditions_text.py).  The text is the      *)
(* sequence of its parts; the code is derived beside it from the same      *)
(* values.  Both are functions of what the smoothers, the sky classifier   *)
(* and the provider say at the time, so one response after another shows   *)
(* nothing new, and a behaviour has one.                                   *)
(*                                                                         *)
(* Speeds are in mph, rain in hundredths of an inch per hour, the spread   *)
(* of temperature and dewpoint in tenths of a degree.                      *)
(***************************************************************************)
EXTENDS Integers, Sequences, FiniteSets, KeptPart

CONSTANTS Comforts, \* the comfort labels, None among them
          Solar,   \* the sky classifier's labels, None among them
          Cloud,   \* cloud covers in percent, None among them
          Spread,  \* outTemp - dewpoint, None if either is missing
          Rain,    \* rain rates, None among them
          Winds,   \* wind speeds, None among them
          Gust,    \* gusts, None among them
          None     \* no value

VARIABLES inputs, \* what the response was made of
          text,   \* weatherText
          code    \* weatherCode

vars == <<inputs, text, code>>

Inputs == [comfort : Comforts, solar : Solar, day : BOOLEAN, cloud : Cloud,
           spread : Spread, rain : Rain, wind : Winds, gust : Gust]

\* The classifier's labels, and those of a cloud cover, from clear to cloudy.
SkyLabels == <<"Clear", "Mostly Clear", "Partly Cloudy", "Mostly Cloudy", "Cloudy">>

\* The classifier gives its labels only, and no word of a text is none.
TextAssumption ==
  /\ Solar \subseteq {SkyLabels[i] : i \in DOMAIN SkyLabels} \cup {None}
  /\ None \notin {SkyLabels[i] : i \in DOMAIN SkyLabels}
        \cup {"Sunny", "Mostly Sunny", "Foggy", "Light Rain", "Moderate Rain", "Heavy Rain"}

\* _cloud_pct_to_sky by night; by day the first two have names of their own,
\* which DayLabel gives them later.
CloudToSky(pct) ==
  CASE pct = None -> None
    [] pct # None /\ pct <= 10 -> SkyLabels[1]
    [] pct # None /\ pct > 10 /\ pct <= 25 -> SkyLabels[2]
    [] pct # None /\ pct > 25 /\ pct <= 50 -> SkyLabels[3]
    [] pct # None /\ pct > 50 /\ pct <= 85 -> SkyLabels[4]
    [] OTHER -> SkyLabels[5]

DayLabel(sky, day) ==
  CASE day /\ sky = "Clear" -> "Sunny"
    [] day /\ sky = "Mostly Clear" -> "Mostly Sunny"
    [] OTHER -> sky

Foggy(in) == in.spread # None /\ in.spread <= 10

ProviderSky(in) == IF Foggy(in) THEN "Foggy" ELSE CloudToSky(in.cloud)

\* build_weather_text: the classifier's label by day, the provider's sky
\* otherwise.
TextSky(in) ==
  DayLabel(IF in.solar # None /\ in.day THEN in.solar ELSE ProviderSky(in), in.day)

\* Faulty variant of CodeSky: the classifier's label counts by night, too.
CodeSkyAlways(in) == IF in.solar # None THEN in.solar ELSE ProviderSky(in)

\* The same, written again in enrich_weather_text for the code.
CodeSky(in) ==
  IF in.solar # None /\ in.day THEN in.solar ELSE ProviderSky(in)

RainLabel(rate) ==
  CASE rate = None -> None
    [] rate # None /\ rate <= 0 -> None
    [] rate # None /\ rate \in 1..9 -> "Light Rain"
    [] rate # None /\ rate \in 10..29 -> "Moderate Rain"
    [] OTHER -> "Heavy Rain"

\* In decimetres per second.
BeaufortScale == <<5, 16, 34, 55, 80, 108, 139, 172, 208, 245, 285, 327>>

Beaufort(mph) ==
  Cardinality({i \in DOMAIN BeaufortScale : mph * 44704 >= BeaufortScale[i] * 10000})

Gusty(wind, gust) ==
  Beaufort(wind) > 0 /\ gust # None /\ gust >= wind + 12 /\ gust >= 18

WindLabel(in) ==
  IF in.wind = None THEN None ELSE <<Beaufort(in.wind), Gusty(in.wind, in.gust)>>

\* build_weather_text: comfort, sky, wind, rain, without those that are
\* missing.  The connectives of _compose add nothing to its parts.
Text(in) ==
  LET parts == << <<"comfort", in.comfort>>, <<"sky", TextSky(in)>>,
                  <<"wind", WindLabel(in)>>, <<"rain", RainLabel(in.rain)>> >>
  IN KeptAt(parts, {i \in DOMAIN parts : parts[i][2] # None})

SkyCode(sky) ==
  CASE sky \in {"Cloudy", "Mostly Cloudy"} -> 3
    [] sky = "Partly Cloudy" -> 2
    [] sky \in {"Mostly Clear", "Mostly Sunny"} -> 1
    [] OTHER -> 0

\* _derive_weather_code: rain, then fog, then sky.
Code(in) ==
  LET rain == RainLabel(in.rain) IN
  CASE rain = "Heavy Rain" -> 65
    [] rain = "Moderate Rain" -> 63
    [] rain = "Light Rain" -> 61
    [] rain = None /\ Foggy(in) -> 45
    [] OTHER -> SkyCode(CodeSky(in))

Init == inputs = None /\ text = <<>> /\ code = None

\* enrich_weather_text().
Enrich ==
  /\ inputs = None
  /\ inputs' \in Inputs
  /\ text' = Text(inputs')
  /\ code' = Code(inputs')

Next == Enrich

Spec == Init /\ [][Next]_vars
-----------------------------------------------------------------------------
(* What must hold.                                                         *)

\* What the text says of kind, or None.
Says(kind) ==
  LET places == {i \in DOMAIN text : text[i][1] = kind}
  IN IF places = {} THEN None ELSE text[CHOOSE i \in places : TRUE][2]

\* The skies that a code stands for; none of them is 0 as well.
SkiesOf(c) ==
  CASE c = 0 -> {"Clear", "Sunny", None}
    [] c = 1 -> {"Mostly Clear", "Mostly Sunny"}
    [] c = 2 -> {"Partly Cloudy"}
    [] c = 3 -> {"Mostly Cloudy", "Cloudy"}
    [] OTHER -> {"Foggy"}

\* Text and code are derived twice and say the same: the same rain, else fog
\* if the text says it, else the same sky; but for fog by day, which the code
\* reports while the text has the classifier's sky (enrich_weather_text,
\* compose_weather_text, _derive_weather_code).
CodeSaysWhatTextSays ==
  code # None =>
    CASE Says("rain") = "Light Rain" -> code = 61
      [] Says("rain") = "Moderate Rain" -> code = 63
      [] Says("rain") = "Heavy Rain" -> code = 65
      [] OTHER -> \/ Says("sky") \in SkiesOf(code)
                  \/ code = 45 /\ inputs.day /\ inputs.solar # None
=============================================================================
