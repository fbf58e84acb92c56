----------------------------- MODULE RouteFile ------------------------------
(***************************************************************************)
(* route_file.py: the route as text, line by line, and back.  A line is a  *)
(* record of a key and its value; what a partly written line is worth to   *)
(* the YAML parser is that it rejects the file.                            *)
(***************************************************************************)
EXTENDS Integers, Sequences, SequencesExt

SchemaVersion == 1
MinSamples == 4
SOURCE_ODOMETRY == "odometry_global"
SOURCE_RAW_ANTENNA == "raw_antenna"
Refused == [refused |-> TRUE]

Entry(k, v) == [key |-> k, value |-> v]
Torn == Entry("torn", 0)

\* Sigma is written to a millimetre, two units here; positions to 0.1 mm.
Rounded(sample) == [sample EXCEPT !.sigma = ((@ + 1) \div 2) * 2]

dumps(route) ==
    <<Entry("version", SchemaVersion),
      Entry("source", route.source),
      Entry("loop", route.loop),
      Entry("lane_half_width_m", route.lane),
      Entry("datum", route.datum),
      Entry("samples", 0)>>
    \o [k \in 1 .. Len(route.samples) |-> Entry("sample", Rounded(route.samples[k]))]

Has(text, key) == \E k \in DOMAIN text : text[k].key = key
\* Every key but that of a sample is written once.
LineOf(text, key) == CHOOSE k \in DOMAIN text : text[k].key = key
Get(text, key, default) ==
    IF Has(text, key) THEN text[LineOf(text, key)].value
    ELSE default

\* The items of raw.get('samples') or []
SamplesOf(text) ==
    IF ~Has(text, "samples") THEN <<>>
    ELSE LET first == LineOf(text, "samples")
         IN  [k \in 1 .. Len(text) - first |-> text[first + k].value]

\* mutant: any number of samples will do
loads_Any(text) ==
    LET samples == SamplesOf(text)
    IN  IF Torn \in Range(text) \/ ~Has(text, "datum") THEN Refused
        ELSE [refused |-> FALSE,
              source |-> Get(text, "source", SOURCE_ODOMETRY),
              loop |-> Get(text, "loop", FALSE),
              lane |-> Get(text, "lane_half_width_m", 2),
              datum |-> Get(text, "datum", 0),
              samples |-> samples]

\* ValueError for another version, no datum, or fewer samples than a spline needs
loads(text) ==
    LET samples == SamplesOf(text)
    IN  IF \/ Torn \in Range(text)
           \/ Get(text, "version", 0) # SchemaVersion
           \/ ~Has(text, "datum")
           \/ Len(samples) < MinSamples
        THEN Refused
        ELSE [refused |-> FALSE,
              source |-> Get(text, "source", SOURCE_ODOMETRY),
              loop |-> Get(text, "loop", FALSE),
              lane |-> Get(text, "lane_half_width_m", 2),
              datum |-> Get(text, "datum", 0),
              samples |-> samples]

is_base_link(route) == route.source # SOURCE_RAW_ANTENNA
=============================================================================
