----------------------------- MODULE MCTagging -----------------------------
(***************************************************************************)
(* The predefined profiles and three odd ones, with the tags that the code *)
(* tells apart: roads, their access, their directions, and restrictions.   *)
(***************************************************************************)
EXTENDS Tagging

Odd ==
    {[CAR_PROFILE EXCEPT !.name = "foot"],
     [BICYCLE_PROFILE EXCEPT !.access = << >>, !.disable_restrictions = TRUE],
     [FOOT_PROFILE EXCEPT !.name = "hike",
        !.penalties = PenaltyRow("highway", "path", 0) \o PenaltyRow("railway", "platform", 50) \o @]}

MCProfiles == Predefined \cup Odd

Roads ==
    [highway |-> {"motorway", "primary", "footway", "platform"}, railway |-> {"platform", "light_rail"},
     public_transport |-> {"platform"}, motorroad |-> {"yes", "no"}, access |-> {"no"}]

Accesses ==
    [highway |-> {"residential", "path"}, motorroad |-> {"yes"}, access |-> {"no", "yes"}, vehicle |-> {"private", "yes"},
     motor_vehicle |-> {"no", "yes"}, motorcar |-> {"private", "destination"},
     psv |-> {"no", "yes"}, foot |-> {"no", "designated"}]

Directions ==
    [key \in {"highway", "junction", "railway", "oneway", "oneway:foot", "oneway:vehicle", "oneway:bus",
              "oneway:motorcar"} |->
        CASE key = "highway" -> {"motorway", "steps", "primary"}
          [] key = "junction" -> {"roundabout", "yes"}
          [] key = "railway" -> {"platform"}
          [] OTHER -> {"yes", "-1", "no", "alternating"}]

Restrictions ==
    [key \in {"type", "except", "restriction", "restriction:foot", "restriction:bus", "restriction:vehicle"} |->
        CASE key = "type" -> {"restriction", "route"}
          [] key = "except" -> {{"bus"}, {"vehicle", "foot"}, {"emergency"}}
          [] OTHER -> {<<"no", "left_turn">>, <<"only", "straight_on">>, <<"no", "entry">>, <<"", "">>}]

MCSchemes == {Roads, Accesses, Directions, Restrictions}

=============================================================================
