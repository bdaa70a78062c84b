------------------------------ MODULE CLogger ------------------------------
(***************************************************************************)
(* The logger of the C interface, src/src/c.rs, called from several        *)
(* threads: routx_set_logging_callback replaces the handler, and what the  *)
(* library logs (log::warn!, log::error!) goes to the handler.             *)
(*                                                                         *)
(* A message passes three filters that are read at three different times:  *)
(* max_level, a static of the log crate; enabled(), under the mutex; and   *)
(* log(), which locks the mutex again and holds it while the callback      *)
(* runs.  A callback and its arg are one value here: they are stored and   *)
(* read together.                                                          *)
(***************************************************************************)
EXTENDS Integers, FiniteSets

CONSTANTS
    Threads,
    Setters,      \* the threads that also set the handler
    Requests,     \* what they ask for: [callback, min_level]
    NoCallback,   \* the NULL callback
    NoThread,
    MaxCalls      \* how many calls each thread makes

ASSUME SettersAssumption == Setters \subseteq Threads
ASSUME NoThreadAssumption == NoThread \notin Threads
ASSUME RequestsAssumption == \A r \in Requests : r = [callback |-> r.callback, min_level |-> r.min_level]
                                                 /\ r.min_level \in Int

\* log::LevelFilter is Off = 0, Error = 1, Warn = 2, Info, Debug, Trace = 5.
Filters == 0 .. 5
Levels == 1 .. 5

\* The library logs errors and warnings.
Logged == {1, 2}

LevelAsInt == <<40, 30, 20, 10, 5>>

\* All the levels that are at least as severe as a number.
IntAsLevelFilter(i) == Cardinality({l \in Levels : i <= LevelAsInt[l]})

Filter(r) == IF r.callback = NoCallback THEN 0 ELSE IntAsLevelFilter(r.min_level)

Handler(r) == [callback |-> r.callback, level |-> Filter(r), min_level |-> r.min_level]

Callbacks == {r.callback : r \in Requests} \cup {NoCallback}
HandlerType == [callback : Callbacks, level : Filters, min_level : Int]

VARIABLES
    max_level,  \* log::max_level()
    installed,  \* whether log::logger() is the CLogger
    data,       \* CLoggerData: [callback, level], and the min_level asked for
    lock,       \* the thread that holds the mutex across steps
    pc,         \* where each thread is
    request,    \* what a thread is setting
    level,      \* what a thread is logging
    handed,     \* the handler that a thread is calling
    calls,      \* how many calls a thread has begun
    mixed       \* history: whether the last call to set a handler met another

locals == <<request, level, handed>>
vars == <<max_level, installed, data, lock, pc, locals, calls, mixed>>

Unset == [callback |-> NoCallback, level |-> 0, min_level |-> 0]

Init ==
    /\ max_level = 0
    /\ installed = FALSE
    /\ data = Unset
    /\ lock = NoThread
    /\ pc = [t \in Threads |-> "idle"]
    /\ request = [t \in Threads |-> [callback |-> NoCallback, min_level |-> 0]]
    /\ level = [t \in Threads |-> 1]
    /\ handed = [t \in Threads |-> Unset]
    /\ calls = [t \in Threads |-> 0]
    /\ mixed = FALSE

Go(t, from, to) == pc[t] = from /\ pc' = [pc EXCEPT ![t] = to]

Call(t) == calls[t] < MaxCalls[t] /\ calls' = [calls EXCEPT ![t] = @ + 1]

\* Between the two steps of setting a handler.
Setting(t) == pc[t] = "set_handler"

\* A call that begins while no other is between its steps sets things right.
Mixes(t) == mixed' = \E s \in Threads \ {t} : Setting(s)

---------------------------------------------------------------------------
(* routx_set_logging_callback *)

\* Variant: the level is only ever raised.
SetMaxLevelUp(t, r) ==
    /\ Call(t)
    /\ Go(t, "idle", "set_handler")
    /\ request' = [request EXCEPT ![t] = r]
    /\ max_level' = IF Filter(r) > max_level THEN Filter(r) ELSE max_level
    /\ Mixes(t)
    /\ UNCHANGED <<installed, data, lock, level, handed>>

\* The filter of the log crate is set first ...
SetMaxLevel(t, r) ==
    /\ Call(t)
    /\ Go(t, "idle", "set_handler")
    /\ request' = [request EXCEPT ![t] = r]
    /\ max_level' = Filter(r)
    /\ Mixes(t)
    /\ UNCHANGED <<installed, data, lock, level, handed>>

\* ... and then, when no callback is running, the handler.
SetHandler(t) ==
    /\ Go(t, "set_handler", "install")
    /\ lock = NoThread
    /\ data' = Handler(request[t])
    /\ UNCHANGED <<max_level, installed, lock, locals, calls, mixed>>

Install(t) ==
    /\ Go(t, "install", "idle")
    /\ installed' = TRUE
    /\ UNCHANGED <<max_level, data, lock, locals, calls, mixed>>

---------------------------------------------------------------------------
(* log::warn! and log::error! *)

\* What the filter of the log crate lets pass.
Message(t, l) ==
    /\ Call(t)
    /\ l <= max_level
    /\ Go(t, "idle", "logger")
    /\ level' = [level EXCEPT ![t] = l]
    /\ UNCHANGED <<max_level, installed, data, lock, request, handed, mixed>>

FilteredOut(t, l) ==
    /\ Call(t)
    /\ l > max_level
    /\ Go(t, "idle", "idle")
    /\ UNCHANGED <<max_level, installed, data, lock, locals, mixed>>

\* log::logger() is a logger that does nothing until one is installed.
GetLogger(t) ==
    /\ Go(t, "logger", IF installed THEN "enabled" ELSE "idle")
    /\ UNCHANGED <<max_level, installed, data, lock, locals, calls, mixed>>

\* Variant: the guard lives on while log() locks again.
EnabledKeepsLock(t) ==
    /\ lock = NoThread
    /\ Go(t, "enabled", IF level[t] <= data.level THEN "log" ELSE "idle")
    /\ lock' = IF level[t] <= data.level THEN t ELSE NoThread
    /\ UNCHANGED <<max_level, installed, data, locals, calls, mixed>>

\* The mutex is released when the levels have been compared ...
Enabled(t) ==
    /\ lock = NoThread
    /\ Go(t, "enabled", IF level[t] <= data.level THEN "log" ELSE "idle")
    /\ UNCHANGED <<max_level, installed, data, lock, locals, calls, mixed>>

\* ... and locked again, for as long as the callback runs.
NoHandler(t) ==
    /\ lock = NoThread
    /\ data.callback = NoCallback
    /\ Go(t, "log", "idle")
    /\ UNCHANGED <<max_level, installed, data, lock, locals, calls, mixed>>

\* Variant: the mutex is released before the callback is called.
CallBackUnlocked(t) ==
    /\ lock = NoThread
    /\ data.callback # NoCallback
    /\ Go(t, "log", "callback")
    /\ handed' = [handed EXCEPT ![t] = data]
    /\ UNCHANGED <<max_level, installed, data, lock, request, level, calls, mixed>>

CallBack(t) ==
    /\ lock = NoThread
    /\ data.callback # NoCallback
    /\ Go(t, "log", "callback")
    /\ lock' = t
    /\ handed' = [handed EXCEPT ![t] = data]
    /\ UNCHANGED <<max_level, installed, data, request, level, calls, mixed>>

CallBackReturns(t) ==
    /\ Go(t, "callback", "idle")
    /\ lock' = NoThread
    /\ UNCHANGED <<max_level, installed, data, locals, calls, mixed>>

---------------------------------------------------------------------------
\* What a thread does once it has begun.
Continue(t) ==
    \/ SetHandler(t) \/ Install(t)
    \/ GetLogger(t) \/ Enabled(t) \/ NoHandler(t) \/ CallBack(t) \/ CallBackReturns(t)

Next ==
    \/ \E t \in Setters, r \in Requests : SetMaxLevel(t, r)
    \/ \E t \in Threads, l \in Logged : Message(t, l) \/ FilteredOut(t, l)
    \/ \E t \in Threads : Continue(t)

Spec == Init /\ [][Next]_vars

\* Threads are scheduled, and callbacks return.
FairSpec == Spec /\ \A t \in Threads : WF_vars(Continue(t))

---------------------------------------------------------------------------
(* Properties *)

\* Every variable stays within its type, and without a callback nothing is on.
TypeOK ==
    /\ max_level \in Filters
    /\ installed \in BOOLEAN
    /\ data \in HandlerType
    /\ data.callback = NoCallback => data.level = 0
    /\ lock \in Threads \cup {NoThread}
    /\ pc \in [Threads -> {"idle", "set_handler", "install", "logger", "enabled", "log", "callback"}]
    /\ request \in [Threads -> [callback : Callbacks, min_level : Int]]
    /\ level \in [Threads -> Levels]
    /\ handed \in [Threads -> HandlerType]
    /\ mixed \in BOOLEAN

\* While a callback runs, it is the one that is set, and no other runs.  So
\* when routx_set_logging_callback returns, the callback it has replaced is
\* not running and never will again: its arg may be freed.
HandlersAreCurrent ==
    \A t \in Threads : pc[t] = "callback" => lock = t /\ handed[t] = data

\* Unless a handler is just being set, or the last ones were set at once by
\* several threads, the log crate lets pass what the handler is to get, and no
\* more: nothing is lost, and nothing waits for the mutex in vain.  Calls that
\* overlap may leave the max_level of one with the handler of another, and
\* messages are lost, until a call that begins alone sets it right.
LevelsAgree == ~ mixed /\ (\A t \in Threads : ~ Setting(t)) => max_level = data.level

\* Every call returns: no thread waits for the mutex for ever.
CallsReturn == \A t \in Threads : pc[t] # "idle" ~> pc[t] = "idle"

=============================================================================
