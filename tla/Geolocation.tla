---------------------------- MODULE Geolocation ----------------------------
(***************************************************************************)
(* The geolocation singleton (geoloc): Geolocation, LocationInfo and the   *)
(* GeoIP backends.                                                          *)
(*                                                                         *)
(* The start-up code calls refresh(), one call after another; a refresh    *)
(* registers the lookup thread in threadMgr, and that thread sets          *)
(* _refresh_in_progress, runs the provider's _refresh, clears the flag and *)
(* notifies the refresh condition.  Other threads call                     *)
(* wait_for_refresh_to_finish, which waits on that condition with a        *)
(* timeout when the flag is set.                                           *)
(*                                                                         *)
(* Every step that takes the condition's lock is one action: the lock is   *)
(* held only around reads and writes of the flag.  threadMgr is outside    *)
(* this source tree; as the spec (5) has it, a named thread is registered  *)
(* when added and removed when its target returns.  The HTTP reply is      *)
(* reduced to what _refresh branches on.                                   *)
(***************************************************************************)
EXTENDS Naturals

CONSTANTS
    Waiters,        \* threads that call wait_for_refresh_to_finish
    NoOption,       \* no geoloc boot option
    Zero,           \* the option "0" (after str() and strip())
    Options,        \* geoloc option values: NoOption, Zero, provider ids, others
    Fedora, Hostip, \* constants.GEOLOC_PROVIDER_FEDORA_GEOIP / _HOSTIP
    MaxRefreshes    \* calls of refresh() in a run

\* constants.GEOLOC_DEFAULT_PROVIDER
DefaultProvider == Fedora

\* The replies a provider's _refresh can meet: a request exception, a reply
\* that is no JSON, a non-OK status, or an OK JSON reply with or without a
\* territory code and a valid time zone.
Replies == [kind : {"RequestException", "ValueError", "BadStatus", "OK"},
            territory : BOOLEAN, timezone : BOOLEAN]

VARIABLES
    enabled,      \* Geolocation._geolocation_enabled
    provider,     \* the backend LocationInfo made
    refreshes,    \* refresh() calls so far
    registered,   \* threadMgr holds THREAD_GEOLOCATION_REFRESH
    lookup,       \* the lookup thread: "none" | "started" | "running" | "notify" | "exit"
    inProgress,   \* GeolocationBackend._refresh_in_progress
    result,       \* "unknown" (an empty LocationResult) | "located"
    lookupsDone,  \* history: lookups that have cleared the flag
    wpc,          \* wpc[w]: "idle" | "waiting" | "done"
    notified,     \* notified[w]: a notify_all reached w while it waited
    waitBase,     \* history: lookupsDone when w began to wait
    wres          \* wres[w]: "none" | "at_once" | "waited" | "timed_out"

vars == <<enabled, provider, refreshes, registered, lookup, inProgress,
          result, lookupsDone, wpc, notified, waitBase, wres>>

-----------------------------------------------------------------------------
(* Geolocation.__init__ and LocationInfo.__init__ *)

\* _check_if_geolocation_should_be_used
ShouldBeUsed(isHardware, option, automated, override) ==
    /\ isHardware
    /\ option # Zero
    /\ automated => override

\* _get_provider_id_from_option: an officially supported id, else None
ProviderIdFromOption(option) ==
    IF option \in {Fedora, Hostip} THEN option ELSE NoOption

\* the provider id chosen in __init__, and LocationInfo's fallback to Fedora
ProviderOf(option, isEnabled) ==
    LET parsed == ProviderIdFromOption(option)
        id == IF option # NoOption /\ isEnabled /\ parsed # NoOption
              THEN parsed ELSE DefaultProvider
    IN  IF id \in {Fedora, Hostip} THEN id ELSE Fedora

-----------------------------------------------------------------------------
(* The providers' _refresh: when does a reply set a new result? *)

\* FedoraGeoIPProvider._refresh: a territory or a time zone (taken from the
\* territory when the reply's is not valid) makes a result.
FedoraLocates(reply) ==
    /\ reply.kind = "OK"
    /\ reply.territory \/ reply.timezone

\* HostipGeoIPProvider._refresh: only a territory code makes a result.
HostipLocates(reply) ==
    /\ reply.kind = "OK"
    /\ reply.territory

Locates(reply) ==
    IF provider = Fedora THEN FedoraLocates(reply) ELSE HostipLocates(reply)

-----------------------------------------------------------------------------
(* The caller of refresh() *)

\* Bug variant: the thread is added without asking threadMgr first.
RefreshUnchecked ==
    /\ refreshes < MaxRefreshes
    /\ refreshes' = refreshes + 1
    /\ registered' = TRUE
    /\ lookup' = "started"
    /\ UNCHANGED <<enabled, provider, inProgress, result, lookupsDone,
                   wpc, notified, waitBase, wres>>

\* LocationInfo.refresh: if the thread is registered, only log; otherwise
\* wait for connectivity and, when there is some, add the lookup thread.
Refresh ==
    /\ refreshes < MaxRefreshes
    /\ refreshes' = refreshes + 1
    /\ \/ /\ registered
          /\ UNCHANGED <<registered, lookup>>
       \/ /\ ~registered
          /\ UNCHANGED <<registered, lookup>>          \* no connectivity
       \/ /\ ~registered
          /\ registered' = TRUE
          /\ lookup' = "started"
    /\ UNCHANGED <<enabled, provider, inProgress, result, lookupsDone,
                   wpc, notified, waitBase, wres>>

-----------------------------------------------------------------------------
(* The lookup thread: GeolocationBackend.refresh *)

\* with self._refresh_condition: self._refresh_in_progress = True
SetInProgress ==
    /\ lookup = "started"
    /\ inProgress' = TRUE
    /\ lookup' = "running"
    /\ UNCHANGED <<enabled, provider, refreshes, registered, result,
                   lookupsDone, wpc, notified, waitBase, wres>>

\* self._refresh(): _set_result only when the reply locates us
RunLookup ==
    /\ lookup = "running"
    /\ \E reply \in Replies :
         result' = IF Locates(reply) THEN "located" ELSE result
    /\ lookup' = "notify"
    /\ UNCHANGED <<enabled, provider, refreshes, registered, inProgress,
                   lookupsDone, wpc, notified, waitBase, wres>>

\* Bug variant: the flag is cleared but the waiters are not notified.
FinishLookupSilent ==
    /\ lookup = "notify"
    /\ inProgress' = FALSE
    /\ lookupsDone' = lookupsDone + 1
    /\ lookup' = "exit"
    /\ UNCHANGED <<enabled, provider, refreshes, registered, result,
                   wpc, notified, waitBase, wres>>

\* with self._refresh_condition: clear the flag, notify_all
FinishLookup ==
    /\ lookup = "notify"
    /\ inProgress' = FALSE
    /\ notified' = [w \in Waiters |-> notified[w] \/ wpc[w] = "waiting"]
    /\ lookupsDone' = lookupsDone + 1
    /\ lookup' = "exit"
    /\ UNCHANGED <<enabled, provider, refreshes, registered, result,
                   wpc, waitBase, wres>>

\* the target returned: threadMgr forgets the thread
ExitLookup ==
    /\ lookup = "exit"
    /\ registered' = FALSE
    /\ lookup' = "none"
    /\ UNCHANGED <<enabled, provider, refreshes, inProgress, result,
                   lookupsDone, wpc, notified, waitBase, wres>>

-----------------------------------------------------------------------------
(* wait_for_refresh_to_finish *)

\* Bug variant: the waiter waits without looking at the flag.
BeginWaitUnchecked(w) ==
    /\ wpc[w] = "idle"
    /\ wpc' = [wpc EXCEPT ![w] = "waiting"]
    /\ notified' = [notified EXCEPT ![w] = FALSE]
    /\ waitBase' = [waitBase EXCEPT ![w] = lookupsDone]
    /\ UNCHANGED wres

\* acquire; if the flag is set, wait (releasing the lock); else release
\* and return at once
BeginWait(w) ==
    /\ wpc[w] = "idle"
    /\ \/ /\ inProgress
          /\ wpc' = [wpc EXCEPT ![w] = "waiting"]
          /\ notified' = [notified EXCEPT ![w] = FALSE]
          /\ waitBase' = [waitBase EXCEPT ![w] = lookupsDone]
          /\ UNCHANGED wres
       \/ /\ ~inProgress
          /\ wpc' = [wpc EXCEPT ![w] = "done"]
          /\ wres' = [wres EXCEPT ![w] = "at_once"]
          /\ UNCHANGED <<notified, waitBase>>

WaitStep(w) ==
    /\ BeginWait(w)
    /\ UNCHANGED <<enabled, provider, refreshes, registered, lookup,
                   inProgress, result, lookupsDone>>

\* wait() returned and the lock is held again: a set flag is logged as a
\* time-out, a clear one as the end of the wait
EndWait(w) ==
    /\ wpc[w] = "waiting"
    /\ wpc' = [wpc EXCEPT ![w] = "done"]
    /\ wres' = [wres EXCEPT ![w] = IF inProgress THEN "timed_out" ELSE "waited"]
    /\ UNCHANGED <<enabled, provider, refreshes, registered, lookup,
                   inProgress, result, lookupsDone, notified, waitBase>>

\* woken by notify_all
Wake(w) == notified[w] /\ EndWait(w)

\* the timeout of wait() ran out first
TimeOut(w) == ~notified[w] /\ EndWait(w)

-----------------------------------------------------------------------------

Init ==
    /\ \E isHardware, automated, override \in BOOLEAN, option \in Options :
         /\ enabled = ShouldBeUsed(isHardware, option, automated, override)
         /\ provider = ProviderOf(option, enabled)
    /\ refreshes = 0
    /\ registered = FALSE
    /\ lookup = "none"
    /\ inProgress = FALSE
    /\ result = "unknown"
    /\ lookupsDone = 0
    /\ wpc = [w \in Waiters |-> "idle"]
    /\ notified = [w \in Waiters |-> FALSE]
    /\ waitBase = [w \in Waiters |-> 0]
    /\ wres = [w \in Waiters |-> "none"]

LookupThread == SetInProgress \/ RunLookup \/ FinishLookup \/ ExitLookup

Next ==
    \/ Refresh
    \/ LookupThread
    \/ \E w \in Waiters : WaitStep(w) \/ Wake(w) \/ TimeOut(w)

\* The lookup thread, once added, is scheduled; a notified waiter is woken.
\* The timer of wait() is given no fairness: the waiters must wake without it.
Fairness ==
    /\ WF_vars(LookupThread)
    /\ \A w \in Waiters : WF_vars(Wake(w))

Spec == Init /\ [][Next]_vars /\ Fairness

-----------------------------------------------------------------------------
(* Properties *)

TypeOK ==
    /\ enabled \in BOOLEAN
    /\ provider \in {Fedora, Hostip}
    /\ refreshes \in 0..MaxRefreshes
    /\ registered \in BOOLEAN
    /\ lookup \in {"none", "started", "running", "notify", "exit"}
    /\ inProgress \in BOOLEAN
    /\ inProgress <=> lookup \in {"running", "notify"}
    /\ result \in {"unknown", "located"}
    /\ lookupsDone \in 0..MaxRefreshes
    /\ wpc \in [Waiters -> {"idle", "waiting", "done"}]
    /\ notified \in [Waiters -> BOOLEAN]
    /\ waitBase \in [Waiters -> 0..MaxRefreshes]
    /\ wres \in [Waiters -> {"none", "at_once", "waited", "timed_out"}]

\* A waiter that logs "Waited ... for Geolocation" really waited for a
\* lookup: one finished between the start and the end of its wait.
WaitedForLookup ==
    \A w \in Waiters : wres[w] = "waited" => lookupsDone > waitBase[w]

\* Every thread blocked in wait_for_refresh_to_finish is woken by the
\* lookup it waits for, without counting on the timeout.
WaitersWake ==
    \A w \in Waiters : wpc[w] = "waiting" ~> wpc[w] = "done"

\* The docstring of wait_for_refresh_to_finish: it returns at once only
\* when no lookup is in progress, i.e. no refresh thread is running.
ReturnsAtOnceOnlyWhenIdle ==
    [][\A w \in Waiters :
         wpc[w] = "idle" /\ wpc'[w] = "done" => lookup \in {"none", "exit"}]_vars

\* The module docstring: while a look-up is in progress, the result
\* properties return None.  Here: once the lookup thread has set
\* _refresh_in_progress and before its _refresh has returned, the result
\* reads as unknown.  _set_result is called only when a reply locates, and
\* nothing clears the result when a new lookup starts.
ResultUnknownDuringLookup == lookup = "running" => result = "unknown"

=============================================================================
