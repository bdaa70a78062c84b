--------------------------- MODULE TaggingProofs ---------------------------
(***************************************************************************)
(* For any profile, any tags and any edit: what a more specific tag or an  *)
(* earlier row decides, no other one changes.                              *)
(***************************************************************************)
EXTENDS Tagging, WellFoundedInduction, TLAPS

---------------------------------------------------------------------------
(* First and last matches *)

LEMMA LeastNatural ==
    ASSUME NEW T, T \subseteq Nat, T # {}
    PROVE  \E i \in T : \A j \in T : i <= j
<1> DEFINE R == OpToRel(<, Nat)
<1>1. PICK i \in T : \A j \in T : ~ (<<j, i>> \in R)
  <2>1. IsWellFoundedOn(R, Nat)
    BY NatLessThanWellFounded
  <2> HIDE DEF R
  <2> QED  BY <2>1, WFMin
<1>2. \A j \in T : ~ (j < i)
  BY <1>1 DEF OpToRel
<1>3. \A j \in T : i <= j
  BY <1>2
<1> QED  BY <1>3

LEMMA GreatestNatural ==
    ASSUME NEW n \in Nat, NEW T, T \subseteq 0 .. n, T # {}
    PROVE  \E i \in T : \A j \in T : i >= j
<1> DEFINE Rest == {n - i : i \in T}
<1>1. Rest \subseteq Nat /\ Rest # {}
  <2>1. \A i \in T : n - i \in Nat
    OBVIOUS
  <2>2. PICK i \in T : TRUE
    OBVIOUS
  <2>3. n - i \in Rest
    OBVIOUS
  <2> QED  BY <2>1, <2>3
<1>2. PICK rest \in Rest : \A r \in Rest : rest <= r
  BY <1>1, LeastNatural
<1>3. PICK i \in T : rest = n - i
  BY <1>2
<1>4. \A j \in T : n - i <= n - j
  BY <1>2, <1>3
<1>5. \A j \in T : i >= j
  BY <1>4
<1> QED  BY <1>5

LEMMA MinOfIndices ==
    ASSUME NEW n \in Nat, NEW T, T \subseteq 1 .. n, T # {}
    PROVE  Min(T) \in T /\ Min(T) \in 1 .. n /\ \A j \in T : Min(T) <= j
<1>1. T \subseteq Nat
  OBVIOUS
<1>2. \E i \in T : \A j \in T : i <= j
  BY <1>1, LeastNatural
<1> QED  BY <1>2 DEF Min

LEMMA MaxOfIndices ==
    ASSUME NEW n \in Nat, NEW T, T \subseteq 1 .. n, T # {}
    PROVE  Max(T) \in T /\ Max(T) \in 1 .. n /\ \A j \in T : Max(T) >= j
<1>1. T \subseteq 0 .. n
  OBVIOUS
<1>2. \E i \in T : \A j \in T : i >= j
  BY <1>1, GreatestNatural
<1> QED  BY <1>2 DEF Max

\* Two sets of tags that agree from some key on, which is there, if keys
\* before it may differ.
Agree(ts, us, key) ==
    /\ key \in DOMAIN ts <=> key \in DOMAIN us
    /\ key \in DOMAIN ts \cap DOMAIN us => ts[key] = us[key]

LEMMA LastMatchDecides ==
    ASSUME NEW keys, IsList(keys), NEW ts, NEW us, NEW missing,
           NEW j \in Nat \ {0},
           \A i \in j .. Len(keys) : Agree(ts, us, keys[i]),
           j = 1 \/ (j \in DOMAIN keys /\ keys[j] \in DOMAIN ts)
    PROVE  MostSpecific(us, keys, missing) = MostSpecific(ts, keys, missing)
<1> DEFINE T == {i \in 1 .. Len(keys) : keys[i] \in DOMAIN ts}
           U == {i \in 1 .. Len(keys) : keys[i] \in DOMAIN us}
<1>1. Len(keys) \in Nat /\ DOMAIN keys = 1 .. Len(keys)
  BY DEF IsList
<1>2. T \subseteq 1 .. Len(keys) /\ U \subseteq 1 .. Len(keys)
  OBVIOUS
<1>3. \A i \in 1 .. Len(keys) : i >= j => (i \in T <=> i \in U)
  BY <1>1 DEF Agree
<1>4. MostSpecific(ts, keys, missing) = IF T = {} THEN missing ELSE ts[keys[Max(T)]]
  <2>1. T # {} => Max(T) \in 1 .. Len(keys)
    BY <1>1, <1>2, MaxOfIndices
  <2>2. T # {} => Max(T) # 0
    BY <2>1
  <2> QED  BY <2>2 DEF MostSpecific, SelectLastInSeq
<1>5. MostSpecific(us, keys, missing) = IF U = {} THEN missing ELSE us[keys[Max(U)]]
  <2>1. U # {} => Max(U) \in 1 .. Len(keys)
    BY <1>1, <1>2, MaxOfIndices
  <2>2. U # {} => Max(U) # 0
    BY <2>1
  <2> QED  BY <2>2 DEF MostSpecific, SelectLastInSeq
<1>6. CASE j = 1
  <2>1. T = U
    BY <1>1, <1>3, <1>6
  <2>2. T # {} => Max(T) \in T
    BY <1>1, <1>2, MaxOfIndices
  <2>3. T # {} => ts[keys[Max(T)]] = us[keys[Max(T)]]
    BY <1>1, <1>6, <2>1, <2>2 DEF Agree
  <2> HIDE DEF T, U
  <2> QED  BY <1>4, <1>5, <2>1, <2>3
<1>7. CASE j \in DOMAIN keys /\ keys[j] \in DOMAIN ts
  <2>1. j \in T /\ j \in U
    BY <1>1, <1>3, <1>7
  <2>2. Max(T) \in T /\ \A i \in T : Max(T) >= i
    BY <1>1, <1>2, <2>1, MaxOfIndices
  <2>3. Max(U) \in U /\ \A i \in U : Max(U) >= i
    BY <1>1, <1>2, <2>1, MaxOfIndices
  <2>4. Max(T) = Max(U) /\ Max(T) \in j .. Len(keys)
    <3> DEFINE t == Max(T)
               u == Max(U)
    <3>1. t \in T /\ u \in U /\ t >= j /\ u >= j
      BY <2>1, <2>2, <2>3
    <3>2. t \in 1 .. Len(keys) /\ u \in 1 .. Len(keys)
      BY <3>1, <1>2
    <3>3. t \in U /\ u \in T
      BY <3>1, <3>2, <1>3
    <3>4. t >= u /\ u >= t
      BY <3>3, <2>2, <2>3
    <3> HIDE DEF t, u
    <3>5. t = u /\ t \in j .. Len(keys)
      BY <1>1, <3>1, <3>2, <3>4
    <3> QED  BY <3>5 DEF t, u
  <2>5. ts[keys[Max(T)]] = us[keys[Max(T)]]
    BY <2>2, <2>3, <2>4 DEF Agree
  <2> HIDE DEF T, U
  <2> QED  BY <1>4, <1>5, <2>1, <2>4, <2>5
<1> QED  BY <1>6, <1>7

\* Shielded is the same of tags before and after a step.
LEMMA ShieldDecides ==
    ASSUME NEW keys, IsList(keys), Shielded(keys), NEW missing
    PROVE  MostSpecific(tags', keys, missing) = MostSpecific(tags, keys, missing)
<1>1. PICK j \in DOMAIN keys :
        /\ keys[j] \in DOMAIN tags \cap DOMAIN tags'
        /\ \A i \in j .. Len(keys) : Agree(tags, tags', keys[i])
  BY DEF Shielded, Agree
<1>2. j \in Nat \ {0}
  BY DEF IsList
<1> QED  BY <1>1, <1>2, LastMatchDecides

---------------------------------------------------------------------------
(* The most specific tag *)

LEMMA AccessIsShielded ==
    ASSUME profile \in Profiles, Shielded(profile.access), Unedited({"motorroad"})
    PROVE  IsAllowed(profile, tags') = IsAllowed(profile, tags)
<1>1. Is(tags', "motorroad", "yes") = Is(tags, "motorroad", "yes")
  BY DEF Unedited, Is
<1>2. MostSpecific(tags', profile.access, "") = MostSpecific(tags, profile.access, "")
  BY ProfilesAssumption, ShieldDecides
<1> QED  BY <1>1, <1>2 DEF IsAllowed

\* Tags of two keys for people on foot, of which only one counts.
LEMMA FootKeyDecides ==
    ASSUME NEW generic, NEW foot, Shielded(<<generic, foot>>), NEW missing
    PROVE  /\ MostSpecific(tags', <<generic, foot>>, missing) = MostSpecific(tags, <<generic, foot>>, missing)
           /\ MostSpecific(tags', <<foot>>, missing) = MostSpecific(tags, <<foot>>, missing)
<1>1. IsList(<<generic, foot>>) /\ IsList(<<foot>>)
  BY DEF IsList, ToSet
<1>2. Agree(tags, tags', foot)
  <2>1. PICK j \in DOMAIN <<generic, foot>> :
          \A i \in j .. Len(<<generic, foot>>) : Agree(tags, tags', <<generic, foot>>[i])
    BY DEF Shielded, Agree
  <2>2. 2 \in j .. Len(<<generic, foot>>)
    OBVIOUS
  <2> QED  BY <2>1, <2>2
<1>3. \A i \in 1 .. Len(<<foot>>) : Agree(tags, tags', <<foot>>[i])
  BY <1>2
<1>4. MostSpecific(tags', <<foot>>, missing) = MostSpecific(tags, <<foot>>, missing)
  <2>1. 1 \in Nat \ {0}
    OBVIOUS
  <2> QED  BY <1>1, <1>3, <2>1, LastMatchDecides
<1> QED  BY <1>1, <1>4, ShieldDecides

LEMMA DirectionIsShielded ==
    ASSUME profile \in Profiles, Shielded(DirectionTags), Unedited(Circumstances)
    PROVE  WayDirection(profile, tags') = WayDirection(profile, tags)
<1>1. \A key \in Circumstances : Agree(tags, tags', key)
  BY DEF Unedited, Agree
<1>2. /\ AllowGenericOnewayToApplyOnFoot(tags') = AllowGenericOnewayToApplyOnFoot(tags)
      /\ OnewayByDefault(profile, tags') = OnewayByDefault(profile, tags)
  <2>1. \A key \in Circumstances : ValueOf(tags', key, "") = ValueOf(tags, key, "")
    BY <1>1 DEF Agree, ValueOf
  <2>2. \A key \in Circumstances : \A value : Is(tags', key, value) = Is(tags, key, value)
    BY <1>1 DEF Agree, Is
  <2> QED  BY <2>1, <2>2 DEF AllowGenericOnewayToApplyOnFoot, OnewayByDefault, Circumstances
<1>3. MostSpecific(tags', OnewayKeys(profile, tags'), "") = MostSpecific(tags, OnewayKeys(profile, tags), "")
  <2>1. CASE ApplyFootExceptions(profile)
    <3>1. Shielded(<<"oneway", "oneway:foot">>)
      BY <2>1 DEF DirectionTags
    <3>2. OnewayKeys(profile, tags') = OnewayKeys(profile, tags)
      BY <1>2, <2>1 DEF OnewayKeys
    <3>3. OnewayKeys(profile, tags) \in {<<"oneway", "oneway:foot">>, <<"oneway:foot">>}
      BY <2>1 DEF OnewayKeys
    <3> QED  BY <3>1, <3>2, <3>3, FootKeyDecides, ZenonT(30)
  <2>2. CASE ~ ApplyFootExceptions(profile)
    <3>1. /\ OnewayKeys(profile, tags') = ModeKeys(profile, "oneway")
          /\ OnewayKeys(profile, tags) = ModeKeys(profile, "oneway")
          /\ Shielded(ModeKeys(profile, "oneway"))
      BY <2>2 DEF OnewayKeys, DirectionTags
    <3> QED  BY <3>1, ProfilesAssumption, ShieldDecides
  <2> QED  BY <2>1, <2>2
<1> QED  BY <1>2, <1>3 DEF WayDirection

LEMMA RestrictionIsShielded ==
    ASSUME profile \in Profiles, Shielded(RestrictionTags), Unedited({"type", "except"})
    PROVE  RestrictionKind(profile, tags') = RestrictionKind(profile, tags)
<1>1. Is(tags', "type", "restriction") = Is(tags, "type", "restriction")
  BY DEF Unedited, Is
<1>2. IsExempted(profile, tags') = IsExempted(profile, tags)
  <2>1. ValueOf(tags', "except", {""}) = ValueOf(tags, "except", {""})
    BY DEF Unedited, ValueOf
  <2> QED  BY <2>1 DEF IsExempted
<1>3. MostSpecific(tags', RestrictionKeys(profile), <<"", "">>)
        = MostSpecific(tags, RestrictionKeys(profile), <<"", "">>)
  <2>1. CASE ApplyFootExceptions(profile)
    <3>1. Shielded(<<"restriction", "restriction:foot">>) /\ RestrictionKeys(profile) = <<"restriction:foot">>
      BY <2>1 DEF RestrictionTags, RestrictionKeys
    <3> QED  BY <3>1, FootKeyDecides
  <2>2. CASE ~ ApplyFootExceptions(profile)
    <3>1. /\ RestrictionKeys(profile) = ModeKeys(profile, "restriction")
          /\ Shielded(ModeKeys(profile, "restriction"))
      BY <2>2 DEF RestrictionKeys, RestrictionTags
    <3> QED  BY <3>1, ProfilesAssumption, ShieldDecides
  <2> QED  BY <2>1, <2>2
<1> QED  BY <1>1, <1>2, <1>3 DEF RestrictionKind

LEMMA ProfileStays == Spec => [](profile \in Profiles)
<1>1. Init => profile \in Profiles
  BY DEF Init
<1>2. profile \in Profiles /\ [Next]_vars => (profile \in Profiles)'
  BY DEF Next, SetTag, RemoveTag, vars
<1> QED  BY <1>1, <1>2, PTL DEF Spec

\* A tag of a mode that stays shields a way and a relation from every edit of
\* less specific tags, for each profile, its own modes included, and whatever
\* the tags are: profile.rs lets the most specific one decide.
THEOREM SpecificTagsAlwaysShield == Spec => SpecificTagsShield
<1>1. profile \in Profiles =>
        /\ Shielded(profile.access) /\ Unedited({"motorroad"}) =>
             IsAllowed(profile, tags') = IsAllowed(profile, tags)
        /\ Shielded(DirectionTags) /\ Unedited(Circumstances) =>
             WayDirection(profile, tags') = WayDirection(profile, tags)
        /\ Shielded(RestrictionTags) /\ Unedited({"type", "except"}) =>
             RestrictionKind(profile, tags') = RestrictionKind(profile, tags)
  BY AccessIsShielded, DirectionIsShielded, RestrictionIsShielded
<1> QED  BY <1>1, ProfileStays, PTL DEF SpecificTagsShield

---------------------------------------------------------------------------
(* The first row *)

Matching(rows, ts) == {i \in 1 .. Len(rows) : Is(ts, rows[i].key, rows[i].value)}

LEMMA FirstRowDecides ==
    ASSUME NEW p, IsList(p.penalties), NEW ts
    PROVE  LET M == Matching(p.penalties, ts) IN
           GetPenalty(p, ts) = IF M = {} THEN INFINITY ELSE p.penalties[Min(M)].penalty
<1> DEFINE M == Matching(p.penalties, ts)
<1>1. Len(p.penalties) \in Nat /\ M \subseteq 1 .. Len(p.penalties)
  BY DEF IsList, Matching
<1>2. M # {} => Min(M) \in 1 .. Len(p.penalties)
  BY <1>1, MinOfIndices
<1>3. M # {} => Min(M) # 0
  BY <1>2
<1> QED  BY <1>3 DEF GetPenalty, SelectInSeq, Matching

LEMMA RowsAreShielded ==
    ASSUME profile \in Profiles, NEW i \in DOMAIN profile.penalties,
           Is(tags, profile.penalties[i].key, profile.penalties[i].value),
           Unedited({profile.penalties[j].key : j \in 1 .. i})
    PROVE  GetPenalty(profile, tags') = GetPenalty(profile, tags)
<1> DEFINE rows == profile.penalties
           T == Matching(rows, tags)
           U == Matching(rows, tags')
<1>1. IsList(rows)
  BY ProfilesAssumption
<1>2. Len(rows) \in Nat /\ DOMAIN rows = 1 .. Len(rows) /\ i \in 1 .. Len(rows)
  BY <1>1 DEF IsList
<1>3. \A j \in 1 .. i : Is(tags', rows[j].key, rows[j].value) <=> Is(tags, rows[j].key, rows[j].value)
  BY DEF Unedited, Is
<1>4. /\ T \subseteq 1 .. Len(rows) /\ U \subseteq 1 .. Len(rows)
      /\ \A j \in 1 .. Len(rows) : j <= i => (j \in T <=> j \in U)
      /\ i \in T /\ i \in U
  BY <1>2, <1>3 DEF Matching
<1>5. Min(T) \in T /\ Min(T) \in 1 .. Len(rows) /\ \A j \in T : Min(T) <= j
  BY <1>2, <1>4, MinOfIndices
<1>6. Min(U) \in U /\ Min(U) \in 1 .. Len(rows) /\ \A j \in U : Min(U) <= j
  BY <1>2, <1>4, MinOfIndices
<1>7. Min(T) = Min(U)
  <2> DEFINE t == Min(T)
             u == Min(U)
  <2>1. t <= i /\ u <= i
    BY <1>4, <1>5, <1>6
  <2>2. t \in U /\ u \in T
    BY <1>4, <1>5, <1>6, <2>1
  <2>3. t <= u /\ u <= t /\ t \in Nat /\ u \in Nat
    BY <1>5, <1>6, <2>2
  <2> HIDE DEF t, u
  <2>4. t = u
    BY <2>3
  <2> QED  BY <2>4 DEF t, u
<1>8. /\ GetPenalty(profile, tags) = rows[Min(T)].penalty
      /\ GetPenalty(profile, tags') = rows[Min(U)].penalty
  <2>1. T # {} /\ U # {}
    BY <1>4
  <2> HIDE DEF T, U
  <2> QED  BY <1>1, <2>1, FirstRowDecides DEF T, U
<1> QED  BY <1>7, <1>8

\* The first row that matches is the penalty of a way, and no edit of tags
\* that only later rows name changes it, for any rows.
THEOREM EarlierRowsAlwaysShield == Spec => EarlierRowsShield
<1>1. profile \in Profiles =>
        \A i \in DOMAIN profile.penalties :
          LET row == profile.penalties[i] IN
          Is(tags, row.key, row.value) /\ Unedited({profile.penalties[j].key : j \in 1 .. i}) =>
             GetPenalty(profile, tags') = GetPenalty(profile, tags)
  BY RowsAreShielded
<1> QED  BY <1>1, ProfileStays, PTL DEF EarlierRowsShield

---------------------------------------------------------------------------
(* What the graph builder relies on *)

\* Rows of which none makes a way cheaper than it is long.
NoRowTooLow(rows) ==
    IsList(rows) /\ \A i \in 1 .. Len(rows) : rows[i].penalty \in Nat /\ rows[i].penalty >= 100

LEMMA RowsOfOneKey ==
    ASSUME NEW key, NEW values, IsList(values), NEW penalty \in Nat, penalty >= 100
    PROVE  NoRowTooLow(PenaltyRows(key, values, penalty))
<1> DEFINE rows == PenaltyRows(key, values, penalty)
<1>1. DOMAIN values = 1 .. Len(values) /\ Len(values) \in Nat
  BY DEF IsList
<1>2. \A i \in 1 .. Len(values) : rows[i].penalty = penalty
  BY <1>1 DEF PenaltyRows
<1>3. rows \in Seq(ToSet(rows)) /\ Len(rows) = Len(values)
  BY <1>1 DEF PenaltyRows, ToSet
<1> QED  BY <1>1, <1>2, <1>3 DEF NoRowTooLow, IsList

LEMMA RowsOfOneValue ==
    ASSUME NEW key, NEW value, NEW penalty \in Nat, penalty >= 100
    PROVE  NoRowTooLow(PenaltyRow(key, value, penalty))
<1>1. IsList(<<value>>)
  BY DEF IsList, ToSet
<1> QED  BY <1>1, RowsOfOneKey DEF PenaltyRow

LEMMA RowsOfTwoTables ==
    ASSUME NEW rows, NEW more, NoRowTooLow(rows), NoRowTooLow(more)
    PROVE  NoRowTooLow(rows \o more)
<1> DEFINE S == ToSet(rows) \cup ToSet(more)
           both == rows \o more
<1>1. rows \in Seq(S) /\ more \in Seq(S)
  BY DEF NoRowTooLow, IsList, ToSet
<1>2. /\ both \in Seq(S)
      /\ Len(both) = Len(rows) + Len(more)
      /\ \A i \in 1 .. Len(both) :
            both[i] = IF i <= Len(rows) THEN rows[i] ELSE more[i - Len(rows)]
  BY <1>1
<1>3. both \in Seq(ToSet(both))
  <2>1. DOMAIN both = 1 .. Len(both) /\ Len(both) \in Nat
    BY <1>2
  <2>2. \A i \in 1 .. Len(both) : both[i] \in ToSet(both)
    BY <2>1 DEF ToSet
  <2> HIDE DEF both
  <2> QED  BY <1>2, <2>1, <2>2
<1>4. \A i \in 1 .. Len(both) : i <= Len(rows) => i \in 1 .. Len(rows)
  BY <1>1, <1>2
<1>5. \A i \in 1 .. Len(both) : ~ (i <= Len(rows)) => i - Len(rows) \in 1 .. Len(more)
  BY <1>1, <1>2
<1>6. \A i \in 1 .. Len(both) : both[i].penalty \in Nat /\ both[i].penalty >= 100
  BY <1>2, <1>4, <1>5 DEF NoRowTooLow
<1> QED  BY <1>3, <1>6 DEF NoRowTooLow, IsList

LEMMA ListsOfValues ==
    /\ \A a : IsList(<<a>>)
    /\ \A a, b : IsList(<<a, b>>)
    /\ \A a, b, c : IsList(<<a, b, c>>)
    /\ \A a, b, c, d : IsList(<<a, b, c, d>>)
    /\ \A a, b, c, d, e : IsList(<<a, b, c, d, e>>)
  BY DEF IsList, ToSet

LEMMA HighwayRows ==
    ASSUME NEW values, IsList(values), NEW penalty \in Nat, penalty >= 100
    PROVE  NoRowTooLow(Highways(values, penalty))
BY RowsOfOneKey DEF Highways

LEMMA HighwayClasses ==
    /\ IsList(Motorways) /\ IsList(Trunks) /\ IsList(Primaries)
    /\ IsList(Secondaries) /\ IsList(Tertiaries) /\ IsList(Minors)
BY ListsOfValues DEF Motorways, Trunks, Primaries, Secondaries, Tertiaries, Minors

LEMMA CarRows == NoRowTooLow(CAR_PROFILE.penalties)
BY HighwayClasses, HighwayRows, ListsOfValues, RowsOfOneValue, RowsOfTwoTables DEF CAR_PROFILE


LEMMA BusRows == NoRowTooLow(BUS_PROFILE.penalties)
BY HighwayClasses, HighwayRows, ListsOfValues, RowsOfTwoTables DEF BUS_PROFILE

LEMMA BicycleRows == NoRowTooLow(BICYCLE_PROFILE.penalties)
BY HighwayClasses, HighwayRows, ListsOfValues, RowsOfOneValue, RowsOfTwoTables DEF BICYCLE_PROFILE

LEMMA FootRows == NoRowTooLow(FOOT_PROFILE.penalties)
BY HighwayClasses, HighwayRows, ListsOfValues, RowsOfOneValue, RowsOfTwoTables DEF FOOT_PROFILE

LEMMA RailRows ==
    NoRowTooLow(RAILWAY_PROFILE.penalties) /\ NoRowTooLow(TRAM_PROFILE.penalties)
        /\ NoRowTooLow(SUBWAY_PROFILE.penalties)
BY ListsOfValues, RowsOfOneKey DEF RAILWAY_PROFILE, TRAM_PROFILE, SUBWAY_PROFILE, Rails

LEMMA InfinityIsHigh == INFINITY \in Nat /\ INFINITY >= 100
BY DEF INFINITY

LEMMA PredefinedPenalties ==
    ASSUME NEW p \in Predefined, NEW ts
    PROVE  WayPenalty(p, ts) >= 100
<1> DEFINE M == Matching(p.penalties, ts)
<1>1. NoRowTooLow(p.penalties)
  BY CarRows, BusRows, BicycleRows, FootRows, RailRows DEF Predefined
<1>2. M # {} => Min(M) \in 1 .. Len(p.penalties)
  <2>1. Len(p.penalties) \in Nat /\ M \subseteq 1 .. Len(p.penalties)
    BY <1>1 DEF Matching, NoRowTooLow, IsList
  <2> QED  BY <2>1, MinOfIndices
<1>3. GetPenalty(p, ts) = IF M = {} THEN INFINITY ELSE p.penalties[Min(M)].penalty
  BY <1>1, FirstRowDecides DEF NoRowTooLow
<1>4. GetPenalty(p, ts) \in Nat /\ GetPenalty(p, ts) >= 100
  <2> HIDE DEF M
  <2> QED  BY <1>1, <1>2, <1>3, InfinityIsHigh DEF NoRowTooLow
<1> QED  BY <1>4, InfinityIsHigh DEF WayPenalty

LEMMA SomeDirection ==
    ASSUME NEW p, NEW ts
    PROVE  WayDirection(p, ts).forward \/ WayDirection(p, ts).backward
<1> DEFINE oneway == MostSpecific(ts, OnewayKeys(p, ts), "")
<1>1. CASE oneway \in {"yes", "true", "1"}
  BY <1>1 DEF WayDirection
<1>2. CASE oneway \notin {"yes", "true", "1"} /\ oneway \in {"-1", "reverse"}
  BY <1>2 DEF WayDirection
<1>3. CASE oneway \notin {"yes", "true", "1"} /\ oneway \notin {"-1", "reverse"}
  BY <1>3 DEF WayDirection
<1> QED  BY <1>1, <1>2, <1>3

\* Whatever tags a way has: each profile lets it be used in some direction, and
\* a predefined one never makes its edges cheaper than the distance, so the
\* debug assertions of create_edges hold in release builds too.
THEOREM BuilderMayAlwaysRelyOnWays == Spec => []BuilderMayRelyOnWays
<1>1. BuilderMayRelyOnWays
  BY SomeDirection, PredefinedPenalties DEF BuilderMayRelyOnWays
<1> QED  BY <1>1, PTL

=============================================================================
