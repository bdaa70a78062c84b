--------------------------- MODULE CLoggerProofs ---------------------------
(***************************************************************************)
(* For any number of threads, setters among them, and any handlers.        *)
(***************************************************************************)
EXTENDS CLogger, FiniteSetTheorems, TLAPS

LEMMA IntAsLevelFilterType ==
    ASSUME NEW i \in Int
    PROVE  IntAsLevelFilter(i) \in Filters
<1> DEFINE S == {l \in Levels : i <= LevelAsInt[l]}
<1>1. IsFiniteSet(Levels) /\ Cardinality(Levels) = 5
  <2>1. 1 \in Int /\ 5 \in Int
    OBVIOUS
  <2>2. IsFiniteSet(1 .. 5) /\ Cardinality(1 .. 5) = IF 1 > 5 THEN 0 ELSE 5 - 1 + 1
    BY <2>1, FS_Interval, Zenon
  <2> QED  BY <2>2 DEF Levels
<1>2. IsFiniteSet(S) /\ Cardinality(S) <= 5
  <2>1. S \subseteq Levels
    OBVIOUS
  <2> QED  BY <1>1, <2>1, FS_Subset
<1>3. Cardinality(S) \in Nat
  BY <1>2, FS_CardinalityType
<1> QED  BY <1>2, <1>3 DEF IntAsLevelFilter, Filters

LEMMA HandlerTypes ==
    ASSUME NEW r \in [callback : Callbacks, min_level : Int]
    PROVE  /\ Filter(r) \in Filters
           /\ Handler(r) \in HandlerType
           /\ Handler(r).callback = NoCallback => Handler(r).level = 0
<1>1. Filter(r) \in Filters
  BY IntAsLevelFilterType DEF Filter, Filters
<1> QED  BY <1>1 DEF Handler, HandlerType, Filter

\* Type correctness, for any number of threads and any handlers: the levels
\* stay those of the log crate, and are off without a callback.
THEOREM LoggerTypeCorrect == Spec => []TypeOK
<1>1. Init => TypeOK
  <2>1. NoCallback \in Callbacks
    BY DEF Callbacks
  <2>2. Unset \in HandlerType /\ Unset.callback = NoCallback /\ Unset.level = 0
    BY <2>1 DEF Unset, HandlerType, Filters
  <2>3. [callback |-> NoCallback, min_level |-> 0] \in [callback : Callbacks, min_level : Int]
    BY <2>1
  <2>4. 0 \in Filters /\ 1 \in Levels
    BY DEF Filters, Levels
  <2> SUFFICES ASSUME Init
               PROVE  TypeOK
    OBVIOUS
  <2>5. data \in HandlerType /\ (data.callback = NoCallback => data.level = 0)
    BY <2>2 DEF Init
  <2>6. /\ request \in [Threads -> [callback : Callbacks, min_level : Int]]
        /\ level \in [Threads -> Levels]
        /\ handed \in [Threads -> HandlerType]
    BY <2>2, <2>3, <2>4 DEF Init
  <2>7. pc \in [Threads -> {"idle", "set_handler", "install", "logger", "enabled", "log", "callback"}]
    BY DEF Init
  <2>8. mixed \in BOOLEAN
    BY DEF Init
  <2> QED  BY <2>4, <2>5, <2>6, <2>7, <2>8 DEF Init, TypeOK
<1>2. TypeOK /\ [Next]_vars => TypeOK'
  <2> SUFFICES ASSUME TypeOK, [Next]_vars
               PROVE  TypeOK'
    OBVIOUS
  <2> USE DEF TypeOK, Go, Call, Mixes, locals
  <2>1. ASSUME NEW t \in Setters, NEW r \in Requests, SetMaxLevel(t, r)
        PROVE  TypeOK'
    <3>1. r \in [callback : Callbacks, min_level : Int]
      BY RequestsAssumption DEF Callbacks
    <3>2. t \in Threads
      BY SettersAssumption
    <3> QED  BY <2>1, <3>1, <3>2, HandlerTypes DEF SetMaxLevel
  <2>2. ASSUME NEW t \in Threads, NEW l \in Logged, Message(t, l)
        PROVE  TypeOK'
    BY <2>2 DEF Message, Logged, Levels
  <2>3. ASSUME NEW t \in Threads, NEW l \in Logged, FilteredOut(t, l)
        PROVE  TypeOK'
    BY <2>3 DEF FilteredOut
  <2>4. ASSUME NEW t \in Threads, SetHandler(t)
        PROVE  TypeOK'
    BY <2>4, HandlerTypes DEF SetHandler
  <2>5. ASSUME NEW t \in Threads, Install(t)
        PROVE  TypeOK'
    BY <2>5 DEF Install
  <2>6. ASSUME NEW t \in Threads, GetLogger(t)
        PROVE  TypeOK'
    BY <2>6 DEF GetLogger
  <2>7. ASSUME NEW t \in Threads, Enabled(t)
        PROVE  TypeOK'
    BY <2>7 DEF Enabled
  <2>8. ASSUME NEW t \in Threads, NoHandler(t)
        PROVE  TypeOK'
    BY <2>8 DEF NoHandler
  <2>9. ASSUME NEW t \in Threads, CallBack(t)
        PROVE  TypeOK'
    BY <2>9 DEF CallBack
  <2>10. ASSUME NEW t \in Threads, CallBackReturns(t)
         PROVE  TypeOK'
    BY <2>10 DEF CallBackReturns
  <2>11. CASE UNCHANGED vars
    BY <2>11 DEF vars
  <2> QED
    BY <2>1, <2>2, <2>3, <2>4, <2>5, <2>6, <2>7, <2>8, <2>9, <2>10, <2>11 DEF Next, Continue
<1> QED  BY <1>1, <1>2, PTL DEF Spec

\* A callback runs alone, and only while it is set: for any number of threads
\* that log and set handlers.  The invariant is inductive because the mutex is
\* held from the moment the handler is read until the callback returns.
THEOREM CallbacksAreCurrent == Spec => []HandlersAreCurrent
<1>1. Init => HandlersAreCurrent
  BY DEF Init, HandlersAreCurrent
<1>2. TypeOK /\ HandlersAreCurrent /\ [Next]_vars => HandlersAreCurrent'
  <2> SUFFICES ASSUME TypeOK, HandlersAreCurrent, [Next]_vars,
                      NEW u \in Threads, (pc[u] = "callback")'
               PROVE  (lock = u /\ handed[u] = data)'
    BY DEF HandlersAreCurrent
  <2>1. pc[u] = "callback" => lock = u /\ handed[u] = data
    BY DEF HandlersAreCurrent
  <2>2. \A t \in Threads : lock = t => lock # NoThread
    BY NoThreadAssumption
  <2> USE DEF TypeOK, Go, locals
  <2>3. ASSUME NEW t \in Setters, NEW r \in Requests, SetMaxLevel(t, r)
        PROVE  (lock = u /\ handed[u] = data)'
    BY <2>1, <2>3, SettersAssumption DEF SetMaxLevel
  <2>4. ASSUME NEW t \in Threads, NEW l \in Logged, Message(t, l) \/ FilteredOut(t, l)
        PROVE  (lock = u /\ handed[u] = data)'
    BY <2>1, <2>4 DEF Message, FilteredOut
  <2>5. ASSUME NEW t \in Threads, SetHandler(t)
        PROVE  (lock = u /\ handed[u] = data)'
    BY <2>1, <2>2, <2>5 DEF SetHandler
  <2>6. ASSUME NEW t \in Threads, Install(t) \/ GetLogger(t) \/ Enabled(t) \/ NoHandler(t)
        PROVE  (lock = u /\ handed[u] = data)'
    BY <2>1, <2>6 DEF Install, GetLogger, Enabled, NoHandler
  <2>7. ASSUME NEW t \in Threads, CallBack(t)
        PROVE  (lock = u /\ handed[u] = data)'
    BY <2>1, <2>2, <2>7 DEF CallBack
  <2>8. ASSUME NEW t \in Threads, CallBackReturns(t)
        PROVE  (lock = u /\ handed[u] = data)'
    BY <2>1, <2>8 DEF CallBackReturns, HandlersAreCurrent
  <2>9. CASE UNCHANGED vars
    BY <2>1, <2>9 DEF vars
  <2> QED  BY <2>3, <2>4, <2>5, <2>6, <2>7, <2>8, <2>9 DEF Next, Continue
<1> QED  BY <1>1, <1>2, LoggerTypeCorrect, PTL DEF Spec

---------------------------------------------------------------------------

\* Unless calls were mixed, the thread that is between its two steps is the only
\* one, and max_level is what it asked for.
HalfSet ==
    ~ mixed => \A t \in Threads : Setting(t) =>
                  max_level = Filter(request[t]) /\ \A s \in Threads : Setting(s) => s = t

LevelsInv == HalfSet /\ LevelsAgree

LEMMA HalfSetMatters ==
    ASSUME HalfSet, ~ mixed, NEW t \in Threads, Setting(t)
    PROVE  max_level = Filter(request[t]) /\ \A s \in Threads : Setting(s) => s = t
BY DEF HalfSet

\* However many threads set handlers, and whatever they overtake: unless the
\* last calls overlapped, the filter of the log crate and the level of the
\* handler agree.  A call that begins alone mends what others have mixed.
THEOREM UnmixedCallsKeepLevels == Spec => []LevelsAgree
<1>1. Init => LevelsInv
  BY DEF Init, LevelsInv, HalfSet, LevelsAgree, Setting, Unset
<1>2. TypeOK /\ LevelsInv /\ [Next]_vars => LevelsInv'
  <2> SUFFICES ASSUME TypeOK, LevelsInv, [Next]_vars
               PROVE  LevelsInv'
    OBVIOUS
  <2> USE DEF LevelsInv, Go
  <2>1. ASSUME NEW s \in Setters, NEW r \in Requests, SetMaxLevel(s, r)
        PROVE  LevelsInv'
    <3>1. s \in Threads /\ Setting(s)'
      BY <2>1, SettersAssumption DEF SetMaxLevel, Setting, TypeOK
    <3>2. \A t \in Threads \ {s} : Setting(t)' => Setting(t)
      BY <2>1 DEF SetMaxLevel, Setting, TypeOK
    <3>3. ~ mixed' => \A t \in Threads \ {s} : ~ Setting(t)
      BY <2>1 DEF SetMaxLevel, Mixes
    <3>4. max_level' = Filter(request'[s])
      BY <2>1, <3>1 DEF SetMaxLevel, TypeOK
    <3>5. HalfSet'
      <4>1. ~ mixed' => \A t \in Threads : Setting(t)' => t = s
        BY <3>2, <3>3
      <4>2. Filter(request'[s]) = Filter(request[s])'
        BY DEF Filter, IntAsLevelFilter
      <4> QED  BY <3>4, <4>1, <4>2 DEF HalfSet
    <3>6. LevelsAgree'
      BY <3>1 DEF LevelsAgree
    <3> QED  BY <3>5, <3>6
  <2>2. ASSUME NEW s \in Threads, SetHandler(s)
        PROVE  LevelsInv'
    <3>1. Setting(s) /\ ~ Setting(s)'
      BY <2>2 DEF SetHandler, Setting, TypeOK
    <3>2. data'.level = Filter(request[s])
      BY <2>2 DEF SetHandler, Handler
    <3>3. ~ mixed => max_level' = data'.level
      BY <2>2, <3>1, <3>2, HalfSetMatters DEF SetHandler
    <3>4. \A t \in Threads : Setting(t)' => Setting(t)
      BY <2>2 DEF SetHandler, Setting, TypeOK
    <3>5. request' = request /\ max_level' = max_level /\ mixed' = mixed
      BY <2>2 DEF SetHandler, locals
    <3>6. HalfSet'
      BY <3>4, <3>5 DEF HalfSet, Filter, IntAsLevelFilter
    <3> QED  BY <3>3, <3>5, <3>6 DEF LevelsAgree
  <2>3. ASSUME UNCHANGED <<max_level, data, request, mixed>>,
               \A t \in Threads : Setting(t)' <=> Setting(t)
        PROVE  LevelsInv'
    <3>1. HalfSet'
      BY <2>3 DEF HalfSet, Filter, IntAsLevelFilter
    <3>2. LevelsAgree'
      BY <2>3 DEF LevelsAgree
    <3> QED  BY <3>1, <3>2
  <2>4. ASSUME NEW s \in Threads, NEW l \in Logged, Message(s, l) \/ FilteredOut(s, l)
        PROVE  LevelsInv'
    BY <2>3, <2>4 DEF Message, FilteredOut, Setting, TypeOK, locals
  <2>5. ASSUME NEW s \in Threads, Install(s) \/ GetLogger(s) \/ Enabled(s)
        PROVE  LevelsInv'
    BY <2>3, <2>5 DEF Install, GetLogger, Enabled, Setting, TypeOK, locals
  <2>6. ASSUME NEW s \in Threads, NoHandler(s) \/ CallBack(s) \/ CallBackReturns(s)
        PROVE  LevelsInv'
    BY <2>3, <2>6 DEF NoHandler, CallBack, CallBackReturns, Setting, TypeOK, locals
  <2>7. CASE UNCHANGED vars
    BY <2>3, <2>7 DEF vars, locals, Setting
  <2> QED  BY <2>1, <2>2, <2>4, <2>5, <2>6, <2>7 DEF Next, Continue
<1>3. LevelsInv => LevelsAgree
  BY DEF LevelsInv
<1> QED  BY <1>1, <1>2, <1>3, LoggerTypeCorrect, PTL DEF Spec

\* If only one thread sets handlers, its calls never meet, so that the levels
\* agree whenever it is not between its two steps, however many threads log.
THEOREM OneSetterNeverMixes ==
    ASSUME \A s, t \in Setters : s = t
    PROVE  Spec => []~ mixed
<1> DEFINE OnlySetters == \A t \in Threads : Setting(t) => t \in Setters
<1>1. Init => OnlySetters /\ ~ mixed
  BY DEF Init, Setting
<1>2. TypeOK /\ OnlySetters /\ ~ mixed /\ [Next]_vars => (OnlySetters /\ ~ mixed)'
  <2> SUFFICES ASSUME TypeOK, OnlySetters, ~ mixed, [Next]_vars
               PROVE  (OnlySetters /\ ~ mixed)'
    OBVIOUS
  <2> USE DEF Go
  <2>1. ASSUME NEW s \in Setters, NEW r \in Requests, SetMaxLevel(s, r)
        PROVE  (OnlySetters /\ ~ mixed)'
    <3>1. \A t \in Threads \ {s} : ~ Setting(t)
      OBVIOUS
    <3>2. ~ mixed'
      BY <2>1, <3>1 DEF SetMaxLevel, Mixes
    <3>3. \A t \in Threads \ {s} : ~ Setting(t)'
      BY <2>1, <3>1 DEF SetMaxLevel, Setting, TypeOK
    <3> QED  BY <3>2, <3>3
  <2>2. ASSUME mixed' = mixed, \A t \in Threads : Setting(t)' => Setting(t)
        PROVE  (OnlySetters /\ ~ mixed)'
    BY <2>2
  <2>3. ASSUME NEW s \in Threads, NEW l \in Logged, Message(s, l) \/ FilteredOut(s, l)
        PROVE  (OnlySetters /\ ~ mixed)'
    BY <2>2, <2>3 DEF Message, FilteredOut, Setting, TypeOK
  <2>4. ASSUME NEW s \in Threads, Continue(s)
        PROVE  (OnlySetters /\ ~ mixed)'
    BY <2>2, <2>4 DEF Continue, SetHandler, Install, GetLogger, Enabled, NoHandler, CallBack, CallBackReturns,
                      Setting, TypeOK
  <2>5. CASE UNCHANGED vars
    BY <2>2, <2>5 DEF vars, Setting
  <2> QED  BY <2>1, <2>3, <2>4, <2>5 DEF Next
<1> QED  BY <1>1, <1>2, LoggerTypeCorrect, PTL DEF Spec

=============================================================================
