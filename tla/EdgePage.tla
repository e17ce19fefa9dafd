------------------------------ MODULE EdgePage ------------------------------
(***************************************************************************)
(* The remote lock-screen page: StoredEdgeSettings and PlanWake, EdgeSync   *)
(* (the download of one page), and the parts of TerminalApp that wake the   *)
(* device for a download, cache the page, show it and plan the next wake.   *)
(* Between two wakes the device is in deep sleep and only flash remains.    *)
(*                                                                         *)
(* Time is relative to the wall clock, in units of the shortest interval:   *)
(* "due" is the time to the stored edge_next, "left" the time to a page's   *)
(* expiry; a page is valid for Life units, so more than Life is too early.  *)
(* A refresh of the panel takes seconds: at most one unit turns during it.  *)
(***************************************************************************)
EXTENDS Naturals

CONSTANTS
    Sources,        \* configured host and path
    Intervals,      \* interval_seconds, in units
    Switches,       \* bound: the switches a user may choose, enabled and show
    Day,            \* units of a day
    QuietStart, QuietEnd,   \* quiet hours, when they are on
    Life,           \* units a page is valid
    Styles,         \* sleep covers: "dashboard" has a calendar, "blank" hides the page
    MaxRevision, MaxGeneration, MaxFaults,   \* bounds
    None

\* What is asked of the constants; the instance assumes it.
EdgeConstants ==
    /\ Day \in Nat \ {0} /\ Intervals \subseteq 1..Day /\ Intervals # {}
    /\ QuietStart \in 0..(Day - 1) /\ QuietEnd \in 0..(Day - 1) /\ Life \in Nat \ {0}

VARIABLES
    phase,          \* where RunTerminal is
    conf,           \* edge_settings in flash
    due,            \* edge_next in flash
    cache,          \* the page file, or None
    ram,            \* edge_configuration_valid_, edge_schedule_failure_
    sync,           \* EdgeSync, its page and whether the page was accepted
    radio,          \* what transmits: "station", "ble"
    env,            \* clock known, time of day, power, cover style
    screen,         \* what the sleeping panel shows and the planned wake
    seen,           \* ghost: wakes, time waited, what may delay a download, whether the
                    \* wake was planned without the end of the page on the panel, whether
                    \* the unit turned while the panel took its cover
    faults

vars == <<phase, conf, due, cache, ram, sync, radio, env, screen, seen, faults>>

Settings == [source : Sources, generation : 1..MaxGeneration, enabled : BOOLEAN,
             show : BOOLEAN, interval : Intervals, quiet : BOOLEAN]
Pages == [generation : 0..MaxGeneration, source : Sources, revision : 1..MaxRevision,
          left : 0..(Life + 1)]
States == {"Idle", "Credentials", "Start", "Association", "Ip", "Dns", "Tls", "Fetch",
           "Stop", "Done"}

NoSync == [state |-> "Idle", started |-> FALSE, result |-> "Pending", page |-> None,
           accepted |-> FALSE, key |-> FALSE]
Unseen == [wakes |-> 0, misread |-> 0, promised |-> FALSE, waited |-> 0, moved |-> FALSE,
           blind |-> FALSE, turned |-> FALSE]

TypeOK ==
    /\ phase \in {"ui", "closing", "covered", "asleep", "woken", "burst", "settled"}
    /\ conf \in Settings /\ due \in 0..(Day + 1) /\ cache \in Pages \cup {None}
    /\ ram \in [valid : BOOLEAN, failed : BOOLEAN]
    /\ sync.state \in States /\ sync.page \in Pages \cup {None}
    /\ sync.result \in {"Pending", "Success", "Failed", "Cancelled", "StopFailed"}
    /\ radio \subseteq {"station", "ble"}
    /\ env \in [clock : BOOLEAN, hour : 0..(Day - 1), power : {"critical", "low", "ok"},
                style : Styles]
    /\ screen \in [shows : {"ui", "local", "page"}, plan : (0..(2 * Day)) \cup {None},
                   critical : BOOLEAN]
    /\ faults \in 0..MaxFaults

Init ==
    /\ phase = "ui" /\ due = 0 /\ cache = None /\ sync = NoSync
    /\ conf \in [source : Sources, generation : {1}, enabled : {TRUE}, show : {TRUE},
                 interval : Intervals, quiet : BOOLEAN]
    /\ ram = [valid |-> FALSE, failed |-> FALSE] /\ radio = {"ble"}
    /\ env \in [clock : BOOLEAN, hour : {0}, power : {"ok"}, style : Styles]
    /\ screen = [shows |-> "ui", plan |-> None, critical |-> FALSE]
    /\ seen = Unseen /\ faults = 0

-----------------------------------------------------------------------------
Fine == faults' = faults
Failing == faults < MaxFaults /\ faults' = faults + 1

Earlier(a, b) == IF a = None \/ (b # None /\ b < a) THEN b ELSE a
Least(a, b) == IF a < b THEN a ELSE b
Greatest(a, b) == IF a < b THEN b ELSE a

\* edge::Page::Fresh
Fresh(page) == env.clock /\ page.left \in 1..Life

\* The cached page, when it belongs to the configured source.
Ours(page) == page # None /\ page.generation = conf.generation

\* Seeded fault (Punctual): the end of the quiet hours is looked for on the next day.
AfterQuietTomorrow(wait) ==
    LET local == (env.hour + wait) % Day
    IN IF conf.quiet /\ local \in QuietStart..(QuietEnd - 1) THEN wait + QuietEnd + Day - local
       ELSE wait

\* AfterQuiet: a time in quiet hours becomes their end.
AfterQuiet(wait) ==
    LET local == (env.hour + wait) % Day
        quiet == /\ conf.quiet /\ QuietStart # QuietEnd
                 /\ IF QuietStart < QuietEnd THEN local \in QuietStart..(QuietEnd - 1)
                    ELSE local >= QuietStart \/ local < QuietEnd
    IN IF quiet THEN wait + ((QuietEnd + Day - local) % Day) ELSE wait

\* EdgePowerAllowed and WifiPolicy: "ok" stands for both.
Allowed == ram.valid /\ env.clock /\ env.power = "ok"

\* PlanWake: the wait for the next download, or None; 0 means it is due.
NextDownload(allowed) ==
    IF ~conf.enabled \/ ~allowed \/ ~env.clock THEN None
    ELSE AfterQuiet(IF due > Day THEN 0 ELSE Least(due, conf.interval))

\* NextEdgeSync
NextEdgeSync(suggested, failed) ==
    IF ~env.clock THEN 0
    ELSE IF failed \/ suggested = 0 THEN conf.interval
    ELSE Least(Greatest(suggested, 1), conf.interval)

-----------------------------------------------------------------------------
(* Seeded faults.                                                          *)

\* PageForward: any fresh page replaces the cached one.
ReplacesAny(page, previous) == TRUE

-----------------------------------------------------------------------------
(* The interactive device.                                                 *)

\* StoredEdgeSettings::Save: a new source gets a new generation.
Configure ==
    /\ phase = "ui"
    /\ \E new \in {[source |-> s, generation |-> conf.generation, enabled |-> w.enabled,
                     show |-> w.show, interval |-> i, quiet |-> conf.quiet] :
                     s \in Sources, w \in Switches, i \in Intervals} :
          /\ new # conf
          /\ IF new.source = conf.source THEN conf' = new
             ELSE /\ conf.generation < MaxGeneration
                  /\ conf' = [new EXCEPT !.generation = @ + 1]
    /\ UNCHANGED <<phase, due, cache, ram, sync, radio, env, screen, seen, faults>>

\* The phone or the user sets the clock, forward or back; a time long past may stay so.
Aged(page, step) == IF page = None THEN None
                    ELSE [page EXCEPT !.left = IF @ > step THEN @ - step ELSE 0]
SetClock ==
    /\ phase = "ui"
    /\ \/ /\ env' = [env EXCEPT !.clock = TRUE, !.hour = (@ + Day - 1) % Day]
          /\ due' \in {Least(due + 1, Day + 1)} \cup (IF due = 0 THEN {0} ELSE {})
          /\ cache' = IF cache = None THEN None
                      ELSE [cache EXCEPT !.left = Least(@ + 1, Life + 1)]
       \/ /\ env' = [env EXCEPT !.clock = TRUE, !.hour = (@ + 1) % Day]
          /\ due' = IF due = 0 THEN 0 ELSE due - 1
          /\ cache' = Aged(cache, 1)
    /\ UNCHANGED <<phase, conf, ram, sync, radio, screen, seen, faults>>

\* PowerOff up to the stop of connectivity.
PowerOff ==
    /\ phase = "ui" /\ phase' = "closing" /\ radio' = radio \ {"ble"}
    /\ UNCHANGED <<conf, due, cache, ram, sync, env, screen, seen, faults>>

\* Battery and policy change while nothing looks at them.
PowerChanges ==
    /\ phase \in {"ui", "asleep"}
    /\ \E p \in {"critical", "low", "ok"} : p # env.power /\ env' = [env EXCEPT !.power = p]
    /\ UNCHANGED <<phase, conf, due, cache, ram, sync, radio, screen, seen, faults>>

Tick ==
    /\ \/ phase \in {"ui", "burst"}
       \/ (phase = "covered" /\ ~seen.turned)
       \/ (phase = "asleep" /\ screen.plan # 0)
    /\ env' = [env EXCEPT !.hour = (@ + 1) % Day]
    /\ due' = IF due = 0 THEN 0 ELSE due - 1
    /\ cache' = Aged(cache, 1)
    /\ sync' = [sync EXCEPT !.page = Aged(@, 1)]
    /\ screen' = [screen EXCEPT !.plan = IF phase = "asleep" /\ @ # None THEN @ - 1 ELSE @]
    /\ seen' = [seen EXCEPT !.wakes = 0, !.misread = 0, !.turned = phase = "covered",
                    !.waited = IF phase = "asleep" /\ seen.promised /\ @ <= 2 * Day
                               THEN @ + 1 ELSE @]
    /\ UNCHANGED <<phase, conf, ram, radio, faults>>

-----------------------------------------------------------------------------
(* Going to sleep.                                                         *)

\* LoadEdgeConfiguration
Loaded(valid) ==
    \/ valid = ~ram.failed /\ Fine /\ seen' = seen
    \/ ~valid /\ Failing /\ seen' = [seen EXCEPT !.misread = @ + 1, !.waited = 0]

MayShow(page) ==
    /\ ram'.valid /\ conf.show /\ env.style # "blank" /\ Ours(page) /\ Fresh(page)

\* Connectivity stops; LoadEdgeConfiguration; PresentEdgeCover, or the local cover.
Cover ==
    /\ phase = "closing" /\ phase' = "covered" /\ radio' = radio \ {"ble"}
    /\ \E v \in BOOLEAN : Loaded(v) /\ ram' = [ram EXCEPT !.valid = v]
    /\ screen' = [screen EXCEPT !.shows = IF MayShow(cache) THEN "page" ELSE "local"]
    /\ UNCHANGED <<conf, due, cache, sync, env>>

\* The page cannot be read or drawn: the local cover takes its place.
CoverFails ==
    /\ phase = "covered" /\ screen.shows = "page" /\ Failing
    /\ screen' = [screen EXCEPT !.shows = "local"]
    /\ UNCHANGED <<phase, conf, due, cache, ram, sync, radio, env, seen>>

\* SleepRefreshDelayUs: the dashboard's calendar turns at midnight.
Calendar == IF env.style = "dashboard" /\ env.clock THEN Day - env.hour ELSE None

\* The end of the cached page, when it may be on the screen.  A page that cannot
\* be read has none, nor has one that ended while the panel was refreshed.
Expiry(read) ==
    IF read /\ ram.valid /\ conf.show /\ env.style # "blank" /\ Ours(cache) /\ Fresh(cache)
    THEN cache.left ELSE None

\* NextWakeDelay and Platform::Shutdown: deep sleep, all radios off.
Sleep ==
    /\ phase = "covered" /\ phase' = "asleep"
    /\ \E read \in BOOLEAN :
       LET critical == env.power = "critical"
           download == NextDownload(Allowed)
           promised == ~critical /\ download # None
       IN /\ IF read THEN Fine ELSE Failing
          /\ screen' = [screen EXCEPT !.critical = critical,
                 !.plan = IF critical THEN None
                          ELSE Earlier(Earlier(Calendar, Expiry(read)), download)]
          /\ seen' = [seen EXCEPT !.promised = promised,
                 !.waited = IF promised THEN @ ELSE 0,
                 !.moved = @ \/ (promised /\ due > conf.interval /\ download # 0),
                 !.blind = screen.shows = "page" /\ Expiry(read) = None, !.turned = FALSE]
    /\ radio' = {} /\ ram' = [valid |-> FALSE, failed |-> FALSE] /\ sync' = NoSync
    /\ UNCHANGED <<conf, due, cache, env>>

-----------------------------------------------------------------------------
(* Waking up.                                                              *)

\* A key starts the interactive device, with its radios.
Button ==
    /\ phase = "asleep" /\ phase' = "ui"
    /\ screen' = [shows |-> "ui", plan |-> None, critical |-> FALSE]
    /\ radio' = {"ble"} /\ seen' = Unseen
    /\ UNCHANGED <<conf, due, cache, ram, sync, env, faults>>

Wake ==
    /\ phase = "asleep" /\ screen.plan = 0 /\ phase' = "woken"
    /\ seen' = [seen EXCEPT !.wakes = @ + 1]
    /\ UNCHANGED <<conf, due, cache, ram, sync, radio, env, screen, faults>>

\* RefreshEdgeOnWake answers: the interface with its radios, or BroadcastPower and PowerOff.
Returns(interactive, valid) ==
    IF interactive THEN phase' = "ui" /\ radio' = radio \cup {"ble"}
                        /\ screen' = [shows |-> "ui", plan |-> None, critical |-> FALSE]
    ELSE /\ phase' = "closing" /\ UNCHANGED screen
         /\ \E broadcast \in {FALSE, valid /\ env.clock} :
                radio' = IF broadcast THEN radio \cup {"ble"} ELSE radio

\* EdgePageDownload::Begin and EdgeSync::Begin; without a token that can be read, or
\* without memory, there is no burst and the schedule goes on.
Begun == [NoSync EXCEPT !.state = "Credentials"]

\* LoadEdgeConfiguration, and RefreshEdgeOnWake down to the first poll.
Decide ==
    /\ phase = "woken"
    /\ \E v \in BOOLEAN : Loaded(v) /\ ram' = [ram EXCEPT !.valid = v]
    /\ IF ram'.valid /\ env.clock /\ env.power = "ok" /\ NextDownload(TRUE) = 0
       THEN /\ \/ phase' = "burst" /\ sync' = Begun
               \/ phase' = "settled" /\ sync' = NoSync
            /\ UNCHANGED <<radio, screen>>
       ELSE Returns(FALSE, ram'.valid) /\ UNCHANGED sync
    /\ UNCHANGED <<conf, due, cache, env>>

\* EdgeSync::Stop
Stopped(s, result) ==
    [s EXCEPT !.result = result, !.state = IF s.started THEN "Stop" ELSE "Done"]

After == [Association |-> "Ip", Ip |-> "Dns", Dns |-> "Tls", Tls |-> "Fetch"]

\* What Fetch may bring: a page of the configured source, some not yet or no longer valid.
Offers == {p \in Pages : p.source = conf.source /\ p.generation = 0}

\* One step of EdgeSync::Poll from s, over any answer of the driver.
Step(s, next) ==
    CASE s.state = "Credentials" ->
             next \in {[s EXCEPT !.state = "Start"], Stopped(s, "Failed")}
      [] s.state = "Start" ->
             next \in {[s EXCEPT !.started = TRUE, !.state = "Association"], Stopped(s, "Failed")}
      [] s.state \in DOMAIN After ->
             next \in {s, [s EXCEPT !.state = After[s.state]], Stopped(s, "Failed")}
      [] s.state = "Fetch" ->
             next \in {s, Stopped(s, "Failed")}
                 \cup {[Stopped(s, "Success") EXCEPT !.page = p] : p \in Offers}
      [] s.state = "Stop" ->
             next \in {s, [s EXCEPT !.started = FALSE, !.state = "Done"]}
      [] OTHER -> next = s

\* One round of the loop: a key cancels, then EdgeSync::Poll, whose deadline may be reached.
Cancelled(s) == IF s.state \in {"Idle", "Done", "Stop"} THEN s ELSE Stopped(s, "Cancelled")
Poll ==
    /\ phase = "burst" /\ sync.state # "Done"
    /\ \E key, late \in BOOLEAN :
          LET pressed == IF key THEN Cancelled([sync EXCEPT !.key = TRUE]) ELSE sync
              begun == IF late /\ pressed.state \notin {"Stop", "Done"}
                       THEN Stopped(pressed, "Failed") ELSE pressed
          IN Step(begun, sync')
    /\ radio' = IF sync'.started THEN radio \cup {"station"} ELSE radio \ {"station"}
    /\ UNCHANGED <<phase, conf, due, cache, ram, env, screen, seen, faults>>

\* The station does not stop in time.
StopTimesOut ==
    /\ phase = "burst" /\ sync.state = "Stop" /\ Failing
    /\ sync' = [sync EXCEPT !.state = "Done", !.result = "StopFailed"]
    /\ UNCHANGED <<phase, conf, due, cache, ram, radio, env, screen, seen>>

StopFailed == [valid |-> FALSE, failed |-> TRUE]

Replaces(page, previous) == Ours(previous) => page.revision > previous.revision
Same(page, previous) ==
    Ours(previous) /\ page.revision = previous.revision /\ page.left = previous.left

\* The result of the burst: a new page replaces the cached file by a rename.
Keep ==
    /\ phase = "burst" /\ sync.state = "Done" /\ phase' = "settled"
    /\ ram' = IF sync.result = "StopFailed" THEN StopFailed ELSE ram
    /\ LET interactive == sync.key /\ sync.result # "StopFailed"
           page == sync.page
           stamped == [page EXCEPT !.generation = conf.generation]
           kept(accepted) == sync' = [sync EXCEPT !.key = interactive, !.accepted = accepted]
       IN IF sync.result = "Success" /\ Fresh(page)
          THEN \/ \E readable \in BOOLEAN :
                     LET previous == IF readable THEN cache ELSE None
                     IN /\ IF readable THEN Fine ELSE Failing
                        /\ IF Replaces(page, previous) THEN cache' = stamped /\ kept(TRUE)
                           ELSE UNCHANGED cache /\ kept(Same(page, previous))
               \/ /\ Replaces(page, cache) /\ Failing
                  /\ cache' \in {cache, stamped} /\ kept(FALSE)
          ELSE Fine /\ UNCHANGED cache /\ kept(FALSE)
    /\ UNCHANGED <<conf, due, radio, env, screen, seen>>

SaveFailed == [valid |-> FALSE, failed |-> TRUE]

\* The next download is planned and saved.
Schedule ==
    /\ phase = "settled"
    /\ \E suggested \in IF sync.accepted THEN 0..Least(cache.left, Life) ELSE {0} :
          LET next == NextEdgeSync(suggested, ~sync.accepted)
          IN \/ due' = next /\ Fine /\ UNCHANGED ram
             \/ due' \in {due, next} /\ Failing /\ ram' = SaveFailed
    /\ Returns(sync.key, ram'.valid)
    /\ sync' = NoSync
    /\ seen' = IF sync.key THEN Unseen
               ELSE [seen EXCEPT !.waited = 0, !.moved = FALSE, !.promised = FALSE]
    /\ UNCHANGED <<conf, cache, env>>

\* The battery is taken out: flash remains, the next start is interactive.
PowerCut ==
    /\ phase # "asleep" /\ phase # "ui" /\ Failing
    /\ phase' = "ui" /\ radio' = {"ble"} /\ sync' = NoSync
    /\ ram' = [valid |-> FALSE, failed |-> FALSE] /\ seen' = Unseen
    /\ screen' = [shows |-> "ui", plan |-> None, critical |-> FALSE]
    /\ UNCHANGED <<conf, due, cache, env>>

Next ==
    \/ Configure \/ SetClock \/ PowerOff \/ PowerChanges \/ Tick
    \/ Cover \/ CoverFails \/ Sleep \/ Button \/ Wake \/ Decide
    \/ Poll \/ StopTimesOut \/ Keep \/ Schedule \/ PowerCut

Spec == Init /\ [][Next]_vars

-----------------------------------------------------------------------------
\* What a sleeping panel shows of the network is a page of the source that is configured
\* now, valid now, and a wake is planned for its end; unless the battery is nearly empty, or
\* the end could not be known when the wake was planned.  PresentEdgeCover and NextWakeDelay
\* read the clock, the file and the settings separately.
ShownIsTrue ==
    phase = "asleep" /\ screen.shows = "page" /\ ~screen.critical =>
        /\ cache.source = conf.source
        /\ ~seen.blind => screen.plan # None /\ screen.plan <= cache.left /\ cache.left <= Life

\* docs/CONNECTIVITY_CONFIGURATION.md:57: the local lock screen takes the place of a page that
\* has expired.  It does not hold: a page that cannot be read when the wake is planned, or ends
\* between PresentEdgeCover and NextWakeDelay, has no wake of its own.
ExpiredPageLeaves ==
    phase = "asleep" /\ screen.shows = "page" /\ ~screen.critical =>
        cache.left > 0 \/ screen.plan = 0

\* Between two units of time the timer wakes the device once, and once more for every reading
\* of the settings that failed: a failed save of the schedule starts no loop of wakes.
NoWakeLoop == seen.wakes <= 1 + seen.misread

\* A sleeping device that was promised a download attempts it, or fails to read its settings,
\* within one interval and one quiet period, unless the stored time lay further ahead than
\* the interval: then the wait is cut to the interval at every wake anew, and a time more
\* than a day ahead, which counts as now, may have come within the day by the end of the
\* quiet hours.
Punctual ==
    ~seen.moved => seen.waited <= conf.interval + ((QuietEnd + Day - QuietStart) % Day)

\* The same without the exception: the settings in force bound the wait.
IntervalInForce == seen.waited <= conf.interval + ((QuietEnd + Day - QuietStart) % Day)

\* The station of a download and the Bluetooth radio are never on together, even when the
\* station does not stop.
OneRadio == ~({"station", "ble"} \subseteq radio)

\* What a sleeping device shows is true, and it wakes neither in a loop nor too late nor
\* with two radios on (edge_display.cc, note4_edge_settings.cc).
PageSound == ShownIsTrue /\ NoWakeLoop /\ Punctual /\ OneRadio

\* A cached page makes room for a later one of its source only, or when it cannot be read.
GoesForward ==
    cache # None /\ cache' # None /\ cache'.generation = cache.generation /\ faults' = faults
        => cache'.revision >= cache.revision

PageForward == [][GoesForward]_vars
=============================================================================
