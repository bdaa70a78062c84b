------------------------------ MODULE Profile ------------------------------
(***************************************************************************)
(* What src/src/osm/profile.rs makes of OpenStreetMap tags: the penalty    *)
(* and the directions of a way, and the kind of a restriction.             *)
(*                                                                         *)
(* Tags are a function from keys to values.  The value of "except" is the  *)
(* set of the modes it lists, and that of a restriction tag the pair       *)
(* <<kind, description>> that its first underscore splits.  Penalties are  *)
(* in hundredths.                                                          *)
(***************************************************************************)
EXTENDS Integers, Sequences, SequencesExt

\* f32::INFINITY, beyond every penalty.
INFINITY == 10 ^ 9

Is(tags, key, value) == key \in DOMAIN tags /\ tags[key] = value

\* The value of one key, or what stands for a missing one.
ValueOf(tags, key, missing) == IF key \in DOMAIN tags THEN tags[key] ELSE missing

---------------------------------------------------------------------------
(* Keys are given from the least to the most specific. *)

\* Variant: the first key that is there decides.
LeastSpecific(tags, keys, missing) ==
    LET i == SelectInSeq(keys, LAMBDA key : key \in DOMAIN tags)
    IN  IF i = 0 THEN missing ELSE tags[keys[i]]

\* The value of the most specific key that is there.
MostSpecific(tags, keys, missing) ==
    LET i == SelectLastInSeq(keys, LAMBDA key : key \in DOMAIN tags)
    IN  IF i = 0 THEN missing ELSE tags[keys[i]]

\* name, then name:MODE for each mode of access.
ModeKeys(p, name) ==
    LET modes == SelectSeq(p.access, LAMBDA mode : mode # "access")
    IN  <<name>> \o [i \in DOMAIN modes |-> name \o ":" \o modes[i]]

\* A profile named "foot" only looks at tags meant for it.
ApplyFootExceptions(p) == p.name = "foot"

---------------------------------------------------------------------------
(* Penalties and access *)

\* Variant: the last row that matches counts.
LastPenalty(p, tags) ==
    LET i == SelectLastInSeq(p.penalties, LAMBDA row : Is(tags, row.key, row.value))
    IN  IF i = 0 THEN INFINITY ELSE p.penalties[i].penalty

GetPenalty(p, tags) ==
    LET i == SelectInSeq(p.penalties, LAMBDA row : Is(tags, row.key, row.value))
    IN  IF i = 0 THEN INFINITY ELSE p.penalties[i].penalty

IsAllowed(p, tags) ==
    /\ ~ (p.disallow_motorroad /\ Is(tags, "motorroad", "yes"))
    /\ MostSpecific(tags, p.access, "") \notin {"no", "private"}

\* A penalty must be normal: not infinite, and not zero.
WayPenalty(p, tags) ==
    IF GetPenalty(p, tags) \notin {0, INFINITY} /\ IsAllowed(p, tags)
    THEN GetPenalty(p, tags) ELSE INFINITY

---------------------------------------------------------------------------
(* Directions *)

\* Where "oneway" concerns people on foot.
AllowGenericOnewayToApplyOnFoot(tags) ==
    \/ ValueOf(tags, "highway", "") \in {"footway", "path", "steps", "platform"}
    \/ Is(tags, "public_transport", "platform")
    \/ Is(tags, "railway", "platform")

OnewayKeys(p, tags) ==
    CASE ~ ApplyFootExceptions(p) -> ModeKeys(p, "oneway")
      [] ApplyFootExceptions(p) /\ AllowGenericOnewayToApplyOnFoot(tags) -> <<"oneway", "oneway:foot">>
      [] OTHER -> <<"oneway:foot">>

\* Ways that are one-way unless a tag says otherwise.
OnewayByDefault(p, tags) ==
    /\ ~ ApplyFootExceptions(p)
    /\ \/ ValueOf(tags, "highway", "") \in {"motorway", "motorway_link"}
       \/ ValueOf(tags, "junction", "") \in {"roundabout", "circular"}

\* Variant: a tag for the way back leaves the default as it is.
WayDirectionOneSided(p, tags) ==
    LET oneway == MostSpecific(tags, OnewayKeys(p, tags), "")
    IN  [forward |-> oneway \notin {"-1", "reverse"},
         backward |-> oneway \notin {"yes", "true", "1"} /\ (oneway = "no" \/ ~ OnewayByDefault(p, tags))]

WayDirection(p, tags) ==
    LET oneway == MostSpecific(tags, OnewayKeys(p, tags), "")
    IN  CASE oneway \in {"yes", "true", "1"} -> [forward |-> TRUE, backward |-> FALSE]
          [] oneway \in {"-1", "reverse"} -> [forward |-> FALSE, backward |-> TRUE]
          [] oneway = "no" -> [forward |-> TRUE, backward |-> TRUE]
          [] OTHER -> [forward |-> TRUE, backward |-> ~ OnewayByDefault(p, tags)]

---------------------------------------------------------------------------
(* Restrictions *)

\* "except" lists modes; one that is missing lists the empty string.
IsExempted(p, tags) == ValueOf(tags, "except", {""}) \cap ToSet(p.access) # {}

RestrictionKeys(p) ==
    IF ApplyFootExceptions(p) THEN <<"restriction:foot">> ELSE ModeKeys(p, "restriction")

RestrictionKind(p, tags) ==
    LET restriction == MostSpecific(tags, RestrictionKeys(p), <<"", "">>)
        applies == /\ ~ p.disable_restrictions
                   /\ Is(tags, "type", "restriction")
                   /\ ~ IsExempted(p, tags)
                   /\ restriction[2] \in {"right_turn", "left_turn", "u_turn", "straight_on"}
    IN  CASE applies /\ restriction[1] = "no" -> "prohibitory"
          [] applies /\ restriction[1] = "only" -> "mandatory"
          [] OTHER -> "inapplicable"

---------------------------------------------------------------------------
(* The predefined profiles *)

PenaltyRows(key, values, penalty) ==
    [i \in DOMAIN values |-> [key |-> key, value |-> values[i], penalty |-> penalty]]
PenaltyRow(key, value, penalty) == PenaltyRows(key, <<value>>, penalty)
Highways(values, penalty) == PenaltyRows("highway", values, penalty)

Motorways == <<"motorway", "motorway_link">>
Trunks == <<"trunk", "trunk_link">>
Primaries == <<"primary", "primary_link">>
Secondaries == <<"secondary", "secondary_link">>
Tertiaries == <<"tertiary", "tertiary_link">>
Minors == <<"unclassified", "minor">>

CAR_PROFILE ==
    [name |-> "motorcar",
     penalties |->
        Highways(Motorways, 100) \o Highways(Trunks, 200) \o Highways(Primaries, 500)
        \o Highways(Secondaries, 650) \o Highways(Tertiaries, 1000) \o Highways(Minors, 1000)
        \o PenaltyRow("highway", "residential", 1500)
        \o Highways(<<"living_street", "track", "service">>, 2000),
     access |-> <<"access", "vehicle", "motor_vehicle", "motorcar">>,
     disallow_motorroad |-> FALSE,
     disable_restrictions |-> FALSE]

BUS_PROFILE ==
    [name |-> "bus",
     penalties |->
        Highways(Motorways, 100) \o Highways(Trunks, 100) \o Highways(Primaries, 110)
        \o Highways(Secondaries, 115) \o Highways(Tertiaries, 115) \o Highways(Minors, 150)
        \o Highways(<<"residential", "living_street">>, 250) \o Highways(<<"track", "service">>, 500),
     access |-> <<"access", "vehicle", "motor_vehicle", "psv", "bus", "routing:ztm">>,
     disallow_motorroad |-> FALSE,
     disable_restrictions |-> FALSE]

BICYCLE_PROFILE ==
    [name |-> "bicycle",
     penalties |->
        Highways(Trunks, 5000) \o Highways(Primaries, 1000) \o Highways(Secondaries, 300)
        \o Highways(Tertiaries, 250) \o Highways(Minors, 250)
        \o Highways(<<"cycleway", "residential">>, 100) \o PenaltyRow("highway", "living_street", 150)
        \o Highways(<<"track", "service">>, 200) \o Highways(<<"bridleway", "footway">>, 300)
        \o PenaltyRow("highway", "steps", 500) \o PenaltyRow("highway", "path", 200),
     access |-> <<"access", "vehicle", "bicycle">>,
     disallow_motorroad |-> TRUE,
     disable_restrictions |-> FALSE]

FOOT_PROFILE ==
    [name |-> "foot",
     penalties |->
        Highways(Trunks, 400) \o Highways(Primaries, 200) \o Highways(Secondaries, 130)
        \o Highways(Tertiaries, 120) \o Highways(Minors, 120)
        \o Highways(<<"residential", "living_street", "track", "service", "bridleway">>, 120)
        \o Highways(<<"footway", "path">>, 105) \o PenaltyRow("highway", "steps", 115)
        \o PenaltyRow("highway", "pedestrian", 100) \o PenaltyRow("highway", "platform", 110)
        \o PenaltyRow("railway", "platform", 110) \o PenaltyRow("public_transport", "platform", 110),
     access |-> <<"access", "foot">>,
     disallow_motorroad |-> TRUE,
     disable_restrictions |-> FALSE]

Rails(name, values) ==
    [name |-> name,
     penalties |-> PenaltyRows("railway", values, 100),
     access |-> <<"access", name>>,
     disallow_motorroad |-> FALSE,
     disable_restrictions |-> FALSE]

RAILWAY_PROFILE == Rails("train", <<"rail", "light_rail", "subway", "narrow_gauge">>)
TRAM_PROFILE == Rails("tram", <<"tram", "light_rail">>)
SUBWAY_PROFILE == Rails("subway", <<"subway">>)

Predefined ==
    {CAR_PROFILE, BUS_PROFILE, BICYCLE_PROFILE, FOOT_PROFILE,
     RAILWAY_PROFILE, TRAM_PROFILE, SUBWAY_PROFILE}

=============================================================================
