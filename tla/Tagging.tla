------------------------------ MODULE Tagging ------------------------------
(***************************************************************************)
(* A map is edited tag by tag; Profile says what each state of the tags    *)
(* means.  The steps are the edits, so that action properties can say      *)
(* which edits may change the meaning of a feature for a profile.          *)
(***************************************************************************)
EXTENDS Profile, FiniteSets

CONSTANTS
    Profiles,  \* the profiles to look at
    Schemes,   \* sets of tags in use together: functions from keys to sets of values
    MaxTags    \* the most tags of a feature

VARIABLES
    profile,
    scheme,
    tags

vars == <<profile, scheme, tags>>

IsList(seq) == seq \in Seq(ToSet(seq))

\* Keys and rows come in lists.
ASSUME ProfilesAssumption ==
    \A p \in Profiles :
        /\ IsList(p.access) /\ IsList(p.penalties)
        /\ IsList(ModeKeys(p, "oneway")) /\ IsList(ModeKeys(p, "restriction"))

Init ==
    /\ profile \in Profiles
    /\ scheme \in Schemes
    /\ tags = [key \in {} |-> ""]

SetTag(key, value) ==
    /\ Cardinality(DOMAIN tags \cup {key}) <= MaxTags
    /\ tags' = [k \in DOMAIN tags \cup {key} |-> IF k = key THEN value ELSE tags[k]]
    /\ UNCHANGED <<profile, scheme>>

RemoveTag(key) ==
    /\ tags' = [k \in DOMAIN tags \ {key} |-> tags[k]]
    /\ UNCHANGED <<profile, scheme>>

Next ==
    \/ \E key \in DOMAIN scheme : \E value \in scheme[key] : SetTag(key, value)
    \/ \E key \in DOMAIN tags : RemoveTag(key)

Spec == Init /\ [][Next]_vars

---------------------------------------------------------------------------
(* Properties *)

\* create_edges: "debug_assert!(penalty.is_finite() && penalty >= 1.0)",
\* "debug_assert!(forward || backward)".  No set of tags makes a predefined
\* profile let a way through that breaks what the graph builder relies on.
BuilderMayRelyOnWays ==
    /\ WayDirection(profile, tags).forward \/ WayDirection(profile, tags).backward
    /\ profile \in Predefined => WayPenalty(profile, tags) >= 100

\* An edit of the keys before one that stays, most specific last.
Shielded(keys) ==
    \E j \in DOMAIN keys :
        /\ keys[j] \in DOMAIN tags \cap DOMAIN tags'
        /\ tags[keys[j]] = tags'[keys[j]]
        /\ \A key \in {keys[i] : i \in j .. Len(keys)} :
              /\ key \in DOMAIN tags <=> key \in DOMAIN tags'
              /\ key \in DOMAIN tags \cap DOMAIN tags' => tags[key] = tags'[key]

Unedited(keys) ==
    \A key \in keys :
        /\ key \in DOMAIN tags <=> key \in DOMAIN tags'
        /\ key \in DOMAIN tags \cap DOMAIN tags' => tags[key] = tags'[key]

\* The tags for directions and those for restrictions, the more specific later.
DirectionTags ==
    IF ApplyFootExceptions(profile) THEN <<"oneway", "oneway:foot">> ELSE ModeKeys(profile, "oneway")

RestrictionTags ==
    IF ApplyFootExceptions(profile) THEN <<"restriction", "restriction:foot">>
    ELSE ModeKeys(profile, "restriction")

\* What else has a say in directions.
Circumstances == {"highway", "junction", "railway", "public_transport"}

\* "the most specific": under a tag of a mode no edit of less specific ones
\* opens or closes a way, turns it round, or changes a restriction.
SpecificTagsShield ==
    [][/\ Shielded(profile.access) /\ Unedited({"motorroad"}) =>
             IsAllowed(profile, tags') = IsAllowed(profile, tags)
       /\ Shielded(DirectionTags) /\ Unedited(Circumstances) =>
             WayDirection(profile, tags') = WayDirection(profile, tags)
       /\ Shielded(RestrictionTags) /\ Unedited({"type", "except"}) =>
             RestrictionKind(profile, tags') = RestrictionKind(profile, tags)]_vars

\* "Finds the first matching Penalty": once a row matches, no edit that makes
\* later rows match, or stops them, changes the penalty.
EarlierRowsShield ==
    [][\A i \in DOMAIN profile.penalties :
          LET row == profile.penalties[i] IN
          Is(tags, row.key, row.value) /\ Unedited({profile.penalties[j].key : j \in 1 .. i}) =>
             GetPenalty(profile, tags') = GetPenalty(profile, tags)]_vars

=============================================================================
