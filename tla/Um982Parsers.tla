----------------------------- MODULE Um982Parsers ---------------------------
(***************************************************************************)
(* What the UM982 driver makes of one sentence (nmea_parser.cpp,           *)
(* unicore_parser.cpp), of bytes cut into pieces (frame_splitter.cpp) and  *)
(* the commands it sends (command_builder.cpp).                            *)
(*                                                                         *)
(* A sentence is a record: its family, whether its checksum agrees, its    *)
(* identifier, its number of fields and the fields that are read, each a   *)
(* number or NoField when it is empty or no number.  Lengths are in cm,    *)
(* angles in degrees.                                                      *)
(***************************************************************************)
EXTENDS Integers, Sequences

CONSTANT NoField

\* parse_double, parse_long, to_double, to_int: the field, or what the
\* struct holds when there is none.
Value(s, name, default) ==
    IF s.fields[name] = NoField THEN default ELSE s.fields[name]

\* Both families are checked before anything is read, each by its own sum.
Verified(s) == s.sum

\* split_nmea_fields and the test of the identifier and of the field count.
Parsed(s, id, count) == s.id = id /\ s.count >= count

\* What a parser returns: nothing (std::nullopt) or one value.
Optional(present, value) == IF present THEN {value} ELSE {}

\* A coordinate is there when its number and its hemisphere are.
parse_latlon(s, name) == s.fields[name] # NoField

\* A position is taken when both coordinates are there, (0, 0) otherwise.
parse_gga(s) ==
    LET q == Value(s, "quality", 0)
    IN  Optional(Parsed(s, "GGA", 15),
                 [position |-> parse_latlon(s, "lat") /\ parse_latlon(s, "lon"),
                  quality |-> IF q \in 0 .. 8 THEN q ELSE 0,
                  hdop |-> Value(s, "hdop", 0)])

parse_gst(s) ==
    Optional(Parsed(s, "GST", 9),
             [lat |-> Value(s, "stdLat", 0), lon |-> Value(s, "stdLon", 0), age |-> 0])

parse_rmc(s) ==
    Optional(Parsed(s, "RMC", 10), [valid |-> Value(s, "status", "V") = "A"])

parse_vtg(s) == Optional(Parsed(s, "VTG", 9), [course |-> s.fields.course])

\* The heading quality is the twelfth field: shorter sentences have none.
parse_ksxt(s) ==
    Optional(Parsed(s, "KSXT", 11),
             [heading |-> s.fields.heading,
              quality |-> IF s.count > 11
                          THEN Value(s, "headingQuality", 0) % 256 ELSE 0])

-----------------------------------------------------------------------------
(* The splitter, for the pieces a read can bring of a line: "start" (a sync
   byte and part of a body), "end" (the rest and the line end), "damage"
   (bytes lost or altered), "overlong" (more than kMaxSentenceLen). *)

Pieces == {"start", "end", "damage", "overlong"}
SplitStates == {"idle", "whole", "damaged"}

\* What is kept: nothing between sentences, or one that is whole so far.
Split(state, piece) ==
    CASE piece = "start" -> "whole"
      [] piece = "damage" -> IF state = "whole" THEN "damaged" ELSE state
      [] OTHER -> "idle"

\* A line end completes what was started, whole or not.
Emits(state, piece) == piece = "end" /\ state # "idle"

-----------------------------------------------------------------------------
(* The commands, in the order send_init_commands writes them *)

InitCommands(mode, unlog, delta, rtcm, logs, save) ==
    (IF unlog THEN <<"unlogall">> ELSE << >>)
    \o (IF delta THEN <<"ANTENNADELTAHEN">> ELSE << >>)
    \o (CASE mode = "rover" -> <<"MODE ROVER">>
          [] mode = "base_fixed" -> <<"MODE BASE">> \o rtcm
          [] mode = "base_survey" -> <<"MODE BASE TIME">> \o rtcm
          [] mode = "heading2" -> <<"MODE HEADING2">>
          [] OTHER -> << >>)
    \o logs
    \o (IF save THEN <<"saveconfig">> ELSE << >>)
=============================================================================
