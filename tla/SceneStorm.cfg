SPECIFICATION Spec
CONSTANTS
  Part = {"scene"}
  Window <- SmallWindow
  MinSamples <- SmallMinSamples
  MaxTime <- SmallMaxTime
  MaxPackets <- SmallMaxPackets
  MaxDelay <- SmallMaxDelay
  Speed = {1, 2}
  MinCoverage = 1
  Skew = 1
  MaxStrikes = 4
  MaxLoss = 2
  Kc = {32, 71, 84, 105}
  Recent = 1
  SmoothedField = {"UV", "radiation"}
  Capacity <- SmallCapacity
  Reading = {1, 4}
  AppTemp = {295, 330, 445, 455, 475, 620}
  Dewpoint = {540, 560, 575, None}
  OutTemp = {550, None}
  HeatIndex = {1045, None}
  WindChill = {None}
  Hold = 2
  Station <- Everywhere
  Day = 16
  Solar = {"Clear", "Mostly Cloudy"}
  Clouds = {"Overcast", None}
  Linger = 1
  Pressure = {29895, 29906, 29912}
  Scale <- SmallScale
  Step <- SmallStep
  Default <- SmallDefault
  Trend <- SmallTrend
  Comforts = {"Chilly", None}
  SolarLabel = {"Clear", "Mostly Clear", "Partly Cloudy", "Mostly Cloudy", "Cloudy", None}
  Cloud = {10, 11, 25, 26, 50, 51, 85, 86, None}
  Spread = {10, 11, None}
  Rain = {0, 1, 9, 10, 29, 30, None}
  Winds = {1, 2, 10, None}
  Gust = {18, 22, None}
  Planet <- SomePlanets
  Group = {"evening", "morning"}
  Forecast <- SomeForecasts
  Almanac <- SomeAlmanacs
  Twilight = 1
  Now = 1
  Record <- SomeRecords
  Target <- SomeTargets
  MaxRecords = 2
  Request = {r1, r2}
  NaN = NaN
  Word = Word
  None = None
INVARIANT
  StormIsShown
CHECK_DEADLOCK FALSE
