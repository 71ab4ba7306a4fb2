------------------------------ MODULE UnitPaths ------------------------------
(***************************************************************************)
(* The two ways a measurement takes to the units of the display: through   *)
(* the proxy (proxy.py, units/transformer.py), which has to infer the      *)
(* station's unit system from labels, and through the event stream         *)
(* (mqtt_fields.py), where a field's unit is in its name or follows from   *)
(* usUnits.                                                                *)
(*                                                                         *)
(* A number is kept as it was measured, with the unit it was read in and   *)
(* the unit it is shown in; a conversion is right if it was read in the    *)
(* unit it was measured in.  Every two units of a group can be converted.  *)
(***************************************************************************)
EXTENDS Integers, Sequences

CONSTANTS Record,     \* records of measurements, see Observation
          Target,     \* the configured units: of each observation's group, or None
          MaxRecords, \* bound on the records
          Word,       \* a value that is no number
          None        \* no value

Observation == {"outTemp", "rain", "windSpeed"}

\* The systems by their code: US, METRIC and METRICWX.
UNIT_SYSTEMS ==
  [c \in {1, 16, 17} |->
     [outTemp |-> IF c = 1 THEN "degree_F" ELSE "degree_C",
      rain |-> CASE c = 1 -> "inch" [] c = 16 -> "cm" [] c = 17 -> "mm",
      windSpeed |-> CASE c = 1 -> "mile_per_hour" [] c = 16 -> "km_per_hour"
                      [] c = 17 -> "meter_per_second"]]

UnitsAssumption ==
  /\ \A r \in Record : DOMAIN r = Observation
  /\ \A t \in Target : DOMAIN t = Observation
  /\ MaxRecords \in Nat /\ Word # None
  /\ \A c \in {1, 16, 17}, o \in Observation : UNIT_SYSTEMS[c][o] # None

VARIABLES system,   \* the station's unit system
          targets,  \* the transformer's targets
          format,   \* a unit whose configured format fails, or None
          labels,   \* the labels upstream gives temperature and rain
          measured, \* the records so far
          current,  \* the last response of GET /current
          archive,  \* the last response of GET /archive
          loop,     \* the last packet sent
          declared  \* that packet told its units

vars ==
  <<system, targets, format, labels, measured, current, archive, loop, declared>>

\* The labels are those of the system's units, or the operator's own or none.
Init ==
  /\ system \in {1, 16, 17}
  /\ targets \in Target
  /\ format \in {None, "degree_C", "mm"}
  /\ labels \in [outTemp : {UNIT_SYSTEMS[system].outTemp, None},
                 rain : {UNIT_SYSTEMS[system].rain, None}]
  /\ measured = <<>> /\ archive = <<>>
  /\ current = None /\ loop = None /\ declared = FALSE

Measure ==
  /\ Len(measured) < MaxRecords
  /\ \E r \in Record : measured' = Append(measured, r)
  /\ current' = None /\ archive' = <<>> /\ loop' = None /\ declared' = FALSE
  /\ UNCHANGED <<system, targets, format, labels>>
-----------------------------------------------------------------------------
ShownIn(o, unit) == IF targets[o] = None THEN unit ELSE targets[o]

NoField == [value |-> None, read |-> None, shown |-> None]

\* format_value raises for a format that does not fit.
Formats(o, value, unit) == value \in {None, Word} \/ ShownIn(o, unit) # format

Field(o, value, unit) ==
  IF value = None THEN NoField
  ELSE [value |-> value, read |-> unit, shown |-> ShownIn(o, unit)]

\* beaufort and comfortIndex, of a field whose number is taken for one in unit.
Derived(field, unit) ==
  IF field.value = None \/ unit = None THEN None
  ELSE [of |-> field.value, in |-> IF unit = field.shown THEN field.read ELSE Word]

\* What a record is when its conversion raises.
Raw(rec) ==
  [converted |-> FALSE, beaufort |-> None, comfortIndex |-> None,
   fields |-> [o \in Observation |-> [NoField EXCEPT !.value = rec[o]]]]

\* Faulty variant of InferUsUnits: the temperature decides alone.
InferByTemperature(block) == IF block.outTemp = "degree_C" THEN 16 ELSE 1

\* _infer_us_units: a label that is none of a system's means the first one.
InferUsUnits(block) ==
  CASE block.outTemp = "degree_C" /\ block.rain = "mm" -> 17
    [] block.outTemp = "degree_C" /\ block.rain # "mm" -> 16
    [] OTHER -> 1

\* transform_record in its try: what is derived is derived from the record.
TransformRecord(rec, code) ==
  LET unit == UNIT_SYSTEMS[code]
      field == [o \in Observation |-> Field(o, rec[o], unit[o])]
      source == [o \in Observation |-> [field[o] EXCEPT !.shown = unit[o]]]
  IN IF \E o \in Observation : rec[o] = Word \/ ~Formats(o, rec[o], unit[o])
     THEN Raw(rec)
     ELSE [converted |-> TRUE, fields |-> field,
           beaufort |-> Derived(source.windSpeed, unit.windSpeed),
           comfortIndex |-> Derived(source.outTemp, unit.outTemp)]

\* GET /current, an envelope with one record.
Current ==
  /\ measured # <<>>
  /\ current' = TransformRecord(measured[Len(measured)], InferUsUnits(labels))
  /\ UNCHANGED <<system, targets, format, labels, measured, archive, loop, declared>>

\* GET /archive, an envelope with a list: each record has a try of its own.
Archive ==
  /\ measured # <<>>
  /\ archive' = [i \in DOMAIN measured |->
                   TransformRecord(measured[i], InferUsUnits(labels))]
  /\ UNCHANGED <<system, targets, format, labels, measured, current, loop, declared>>

\* What is derived is derived from the numbers shown, if there is a target.
AddDerivedFields(field, unit) ==
  [converted |-> TRUE, fields |-> field,
   beaufort |-> Derived(field.windSpeed, targets.windSpeed),
   comfortIndex |-> Derived(field.outTemp, targets.outTemp)]

\* convert_mqtt_packet in its try: text is no value, and fails nothing else.
ConvertPacket(rec, unit) ==
  IF \E o \in Observation : ~Formats(o, rec[o], unit[o]) THEN Raw(rec)
  ELSE AddDerivedFields(
         [o \in Observation |->
            Field(o, IF rec[o] = Word THEN None ELSE rec[o], unit[o])], unit)

\* A packet on the stream.  Units are in the names, or of usUnits, or, if that
\* is missing or malformed, taken for those of the first system.
Emit ==
  /\ measured # <<>>
  /\ declared' \in BOOLEAN
  /\ loop' = ConvertPacket(measured[Len(measured)],
                           UNIT_SYSTEMS[IF declared' THEN system ELSE 1])
  /\ UNCHANGED <<system, targets, format, labels, measured, current, archive>>

Next == Measure \/ Current \/ Archive \/ Emit

Spec == Init /\ [][Next]_vars
-----------------------------------------------------------------------------
(* What must hold.                                                         *)

Has(block, o) == block[o] = UNIT_SYSTEMS[system][o]

\* With upstream's labels a response shows every measurement as the amount it
\* was, and its temperature even if only that label is known; a packet that
\* tells its units shows the same amounts in the same units, and has the same
\* derived from them where there is a target (_infer_us_units,
\* transform_record, convert_mqtt_packet, add_derived_fields).
PathsAgree ==
  LET rec == measured[Len(measured)]
      told == Has(labels, "outTemp") /\ Has(labels, "rain")
  IN
  /\ current # None => \A o \in Observation :
       (/\ current.converted /\ Has(labels, "outTemp")
        /\ o = "outTemp" \/ Has(labels, "rain"))
         => current.fields[o] = Field(o, rec[o], UNIT_SYSTEMS[system][o])
  /\ current # None /\ loop # None =>
       ((current.converted /\ loop.converted /\ declared /\ told)
          => /\ current.fields = loop.fields
             /\ targets.windSpeed # None => current.beaufort = loop.beaufort
             /\ targets.outTemp # None => current.comfortIndex = loop.comfortIndex)

\* A response never mixes numbers that were converted with others that were
\* not, whatever its record has; the last record of the archive is shown as it
\* is alone; and a record is left unconverted only for a value or a format of
\* its own, so that no record of the archive spoils another (_apply_conversion).
AllOrRaw ==
  /\ \A a \in ({current} \ {None}) \cup {archive[i] : i \in DOMAIN archive} :
       \A o \in Observation :
         IF a.converted
         THEN /\ a.fields[o].value # Word
              /\ a.fields[o].value # None =>
                   /\ a.fields[o].read # None
                   /\ a.fields[o].shown = ShownIn(o, a.fields[o].read)
         ELSE a.fields[o].shown = None
  /\ current # None /\ archive # <<>> => archive[Len(archive)] = current
  /\ \A i \in DOMAIN archive :
       ~archive[i].converted =>
         \E o \in Observation :
           measured[i][o] = Word \/ (measured[i][o] # None /\ format # None)
=============================================================================
