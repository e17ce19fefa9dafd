------------------------------ MODULE AppShell ------------------------------
(***************************************************************************)
(* The application shell of the terminal: ApplicationRuntime, which owns   *)
(* one foreground application and what it asked for, the loop of           *)
(* RunApplicationShell that steps it, the launcher, and the part of        *)
(* HealthSupervisor that gives a failing foreground up.  Everything runs   *)
(* in the terminal task, so one turn of the loop is one step; applications *)
(* may fail in any callback.                                               *)
(*                                                                         *)
(* The generation of the foreground is only compared for equality with the *)
(* one a render request or the supervisor remembers, so those remember     *)
(* whether it is still the same.                                           *)
(***************************************************************************)
EXTENDS Naturals

CONSTANTS
    Apps,           \* the applications but the launcher
    Launcher, NoApp,
    FailureLimit,   \* kForegroundFailureLimit
    MaxBurst        \* bound: inputs of one burst, kMaxInputBurst

Foregrounds == Apps \cup {Launcher}
NoCommand == [kind |-> "none", target |-> NoApp]
Commands == [kind : {"none", "back", "home", "shutdown"}, target : {NoApp}]
            \cup [kind : {"open"}, target : Apps]

VARIABLES
    s,          \* the runtime, the launcher and the supervisor
    broken,     \* applications that can never draw
    quiet       \* the user has left the keys alone for good

vars == <<s, broken, quiet>>

TypeOK ==
    /\ s \in [life : {"absent", "active", "failsafe", "stopped", "ended"},
              fg : Foregrounds \cup {NoApp}, ok : BOOLEAN, error : BOOLEAN, moved : BOOLEAN,
              render : {"none", "current", "stale"}, command : Commands,
              \* HealthSupervisor
              sameGeneration : BOOLEAN, failures : 0..FailureLimit, suppressed : BOOLEAN,
              \* the launcher, and what the terminal keeps for it
              opening : Apps \cup {NoApp}, pending : Apps \cup {NoApp}, presented : BOOLEAN,
              openTarget : Apps \cup {NoApp}, failedTarget : Apps \cup {NoApp},
              automatic : BOOLEAN, ready : BOOLEAN]
    /\ broken \subseteq Foregrounds
    /\ quiet \in BOOLEAN

Init ==
    \E recoveryBoot \in BOOLEAN :
        /\ s = [life |-> "absent", fg |-> NoApp, ok |-> TRUE, error |-> FALSE, moved |-> FALSE,
                render |-> "none", command |-> NoCommand,
                sameGeneration |-> TRUE, failures |-> 0, suppressed |-> recoveryBoot,
                opening |-> NoApp, pending |-> NoApp, presented |-> FALSE,
                openTarget |-> NoApp, failedTarget |-> NoApp,
                automatic |-> FALSE, ready |-> FALSE]
        /\ broken \in SUBSET Foregrounds
        /\ quiet = FALSE

-----------------------------------------------------------------------------
(* Seeded faults, each with the property it breaks.                        *)

\* OneOwner: the work of the application that leaves is kept.
ExitedKeepsWork(t) == [t EXCEPT !.life = "absent", !.fg = NoApp, !.opening = NoApp,
                                !.pending = NoApp, !.presented = FALSE]

\* NothingHangs, LaunchEnds: a render that failed is not asked for again.
RenderAgainNot(t) == [t EXCEPT !.ok = FALSE, !.error = TRUE]

\* BrokenLeaves: every failure counts as the first of its generation.
CountedOnce(t) == [t EXCEPT !.sameGeneration = TRUE, !.failures = IF t.ok THEN 0 ELSE 1]

\* NoAutomaticAfterError: only a recovery suppresses the automatic applications.
SuppressNot(t) == t

-----------------------------------------------------------------------------
(* What applications ask for.                                              *)

Priority(kind) == CASE kind = "shutdown" -> 3 [] kind = "home" -> 2
                    [] kind \in {"open", "back"} -> 1 [] OTHER -> 0

\* CommandArbiter::Submit
Accepts(t, kind) == Priority(kind) > Priority(t.command.kind)
Submit(t, kind, target) ==
    IF Accepts(t, kind) THEN [t EXCEPT !.command = [kind |-> kind, target |-> target]] ELSE t

RequestRender(t) == [t EXCEPT !.render = "current"]

\* An application's Enter, HandleEvent or HandleIdle; none opens itself.
Asks(t) ==
    {IF draw THEN RequestRender(u) ELSE u :
        draw \in BOOLEAN,
        u \in {t} \cup {Submit(t, k, NoApp) : k \in {"back", "home", "shutdown"}}
              \cup {Submit(t, "open", a) : a \in Apps \ {t.fg}}}

AppCallback(t) == {[u EXCEPT !.ok = ok, !.error = @ \/ ~ok] : ok \in BOOLEAN, u \in Asks(t)}

-----------------------------------------------------------------------------
(* The launcher.  An application that is being opened blocks every input   *)
(* but Back.                                                               *)

\* SetEntryState(id, Ready) and (id, Unavailable)
EntryDone(t, id) ==
    IF t.opening = id /\ id # NoApp THEN RequestRender([t EXCEPT !.opening = NoApp]) ELSE t

ConsumeLaunchFailure(t) == [EntryDone(t, t.failedTarget) EXCEPT !.failedTarget = NoApp]

SubmitOpen(t, id) ==
    IF Accepts(t, "open") THEN [Submit(t, "open", id) EXCEPT !.openTarget = id]
    ELSE EntryDone(t, id)

LauncherEnter(t) == {RequestRender(ConsumeLaunchFailure(t))}

\* LauncherController::Handle, and what the application makes of its decision.
LauncherEvent(t) ==
    LET c == ConsumeLaunchFailure(t)
        stays == [c EXCEPT !.pending = NoApp]
        navigate == {stays, RequestRender(stays)}
        open == {RequestRender([c EXCEPT !.opening = a, !.pending = a, !.presented = FALSE]) :
                    a \in Apps}
        cancel == {[EntryDone(c, c.opening) EXCEPT !.pending = NoApp]}
        shutdown == {[Submit(c, "shutdown", NoApp) EXCEPT !.pending = NoApp]}
    IN shutdown \cup IF c.opening = NoApp THEN navigate \cup open ELSE {c} \cup cancel

\* HandleIdle: the launch that was drawn, the showcase after a quiet while, or
\* what a changed date asks for.
LauncherIdle(t) ==
    LET c == ConsumeLaunchFailure(t)
    IN IF c.pending # NoApp /\ c.presented
       THEN {SubmitOpen([c EXCEPT !.pending = NoApp], c.pending)}
       ELSE {c, RequestRender(c)} \cup
            IF c.suppressed THEN {}
            ELSE {[SubmitOpen(c, a) EXCEPT !.automatic = TRUE] : a \in Apps}

-----------------------------------------------------------------------------
(* ApplicationRuntime.                                                     *)

Enter(t) ==
    IF t.fg = Launcher
    THEN LauncherEnter(t) \cup {[t EXCEPT !.ok = FALSE, !.error = TRUE]}
    ELSE AppCallback(t)
HandleEvent(t) == IF t.fg = Launcher THEN LauncherEvent(t) ELSE AppCallback(t)
HandleIdle(t) == IF t.fg = Launcher THEN LauncherIdle(t) ELSE AppCallback(t)

\* ExitAndDestroyForeground, with the renders_.Discard and commands_ = {} that
\* every caller adds.
Exited(t) == [t EXCEPT !.life = "absent", !.fg = NoApp, !.render = "none",
                       !.command = NoCommand, !.opening = NoApp,
                       !.pending = NoApp, !.presented = FALSE]
Exits(t) == {IF t.fg = NoApp THEN Exited(t) ELSE [Exited(t) EXCEPT !.error = @ \/ failed] :
                failed \in BOOLEAN}

\* The runtime's and the terminal's EnterFailsafe.
EnterFailsafe(t) ==
    {[u EXCEPT !.life = "failsafe", !.ok = FALSE, !.error = TRUE, !.suppressed = TRUE] :
        u \in Exits(t)}

\* SwitchTo once the candidate exists: what Enter makes of it.
Entered(t, id) ==
    UNION {Enter([u EXCEPT !.fg = id, !.ok = TRUE, !.sameGeneration = FALSE, !.moved = TRUE,
                           !.render = IF @ = "none" THEN @ ELSE "stale", !.life = "active"]) :
           u \in Exits(t)}

\* The candidate cannot be created: a foreground stays.
NotCreated(t) == [t EXCEPT !.ok = FALSE, !.error = TRUE]

\* SwitchTo(launcher, false), and so EnterLauncherFallback.
SwitchHome(t) ==
    (UNION {IF u.ok THEN {u} ELSE EnterFailsafe(u) : u \in Entered(t, Launcher)})
    \cup IF t.fg = NoApp THEN EnterFailsafe(NotCreated(t)) ELSE {NotCreated(t)}

\* SwitchTo(id, true)
SwitchOpen(t, id) ==
    {NotCreated(t)} \cup
    UNION {IF u.ok THEN {u} ELSE UNION {SwitchHome(v) : v \in Exits(u)} : u \in Entered(t, id)}

\* Stop: the terminal's Shutdown never returns.
Stop(t) == {[u EXCEPT !.life = "stopped"] : u \in Exits(t)}

ProcessCommand(t) ==
    LET taken == [t EXCEPT !.command = NoCommand, !.ok = TRUE]
    IN CASE t.command.kind = "none" -> {taken}
         [] t.command.kind = "open" -> SwitchOpen(taken, t.command.target)
         [] t.command.kind \in {"back", "home"} -> SwitchHome(taken)
         [] t.command.kind = "shutdown" -> Stop(taken)

\* A render that failed is asked for again.
RenderAgain(t) == [t EXCEPT !.ok = FALSE, !.error = TRUE, !.render = "current"]

ProcessRender(t) ==
    LET taken == [t EXCEPT !.render = "none", !.ok = TRUE]
        drawn == [taken EXCEPT !.presented = @ \/ (t.fg = Launcher /\ t.pending # NoApp)]
    IN IF t.render # "current" THEN {taken}
       ELSE {RenderAgain(taken)} \cup IF t.fg \in broken THEN {} ELSE {drawn}

\* The first of two results that failed is kept, as the code combines them.
Then(t, Op(_)) == {[u EXCEPT !.ok = @ /\ t.ok] : u \in Op(t)}
RenderIfActive(t) == IF t.life = "active" THEN Then(t, ProcessRender) ELSE {t}

DispatchInput(t) == UNION {Then(u, ProcessCommand) : u \in HandleEvent([t EXCEPT !.ok = TRUE])}
Step(t) == UNION {RenderIfActive(u) : u \in ProcessCommand(t)}
Idle(t) ==
    UNION {UNION {RenderIfActive(v) : v \in Then(u, ProcessCommand)} :
           u \in HandleIdle([t EXCEPT !.ok = TRUE])}

\* DispatchInputBurst: more inputs only after a direction key that succeeded in
\* the same foreground; then Step after anything else, and Idle after the last.
Burst(t) ==
    LET Goes(u) == u.ok /\ ~u.moved
        inputs[n \in 1..MaxBurst] ==
            IF n = 1 THEN DispatchInput([t EXCEPT !.moved = FALSE])
            ELSE inputs[n - 1] \cup UNION {DispatchInput(u) :
                    u \in {v \in inputs[n - 1] : v.life = "active" /\ Goes(v)}}
    IN UNION {IF u.life # "active" THEN {u}
              ELSE Then(u, Step) \cup IF Goes(u) THEN Idle(u) ELSE {} : u \in inputs[MaxBurst]}

\* Recover: the broken application is released first; a failing launcher ends
\* in failsafe, where Recover tries it again.
Recover(t) ==
    IF t.life = "active" /\ t.fg = Launcher THEN EnterFailsafe(t)
    ELSE UNION {SwitchHome([u EXCEPT !.error = TRUE]) : u \in Exits(t)}

-----------------------------------------------------------------------------
(* RunApplicationShell.                                                    *)

\* A launch that came back to the launcher is one that failed.
LaunchChecked(t) ==
    [t EXCEPT !.openTarget = NoApp,
              !.failedTarget = IF t.openTarget # NoApp /\ t.life = "active" /\ t.fg = Launcher
                               THEN t.openTarget ELSE @]

Suppress(t) == [t EXCEPT !.suppressed = @ \/ t.error]

\* UiEngine::RefreshPending after a step that succeeded.
Refreshed(t) == IF t.ok /\ t.life = "active" THEN {t, [t EXCEPT !.ok = FALSE]} ELSE {t}

\* HealthSupervisor::CompleteForeground
Counted(t) ==
    LET before == IF t.sameGeneration /\ ~t.ok THEN t.failures ELSE 0
    IN [t EXCEPT !.sameGeneration = TRUE,
                 !.failures = IF t.ok THEN 0
                              ELSE IF before < FailureLimit THEN before + 1 ELSE before]

\* The first frame of the launcher confirms the boot; when that fails the shell
\* ends, and the trial's watchdog does the rest.
Confirmed(t) ==
    IF t.ready \/ ~t.ok \/ t.life # "active" \/ t.fg # Launcher THEN {t}
    ELSE {[t EXCEPT !.ready = TRUE]} \cup {[u EXCEPT !.life = "ended"] : u \in Exits(t)}

Complete(t) ==
    UNION {LET c == Counted(u)
           IN IF ~c.ok /\ c.failures = FailureLimit /\ c.life = "active"
              THEN Recover([c EXCEPT !.failures = 0, !.suppressed = TRUE])
              ELSE Confirmed(c) : u \in Refreshed(Suppress(LaunchChecked(t)))}

Loop(outcomes) ==
    /\ \E t \in outcomes : s' \in Complete(t)
    /\ UNCHANGED <<broken, quiet>>

Turn == [s EXCEPT !.automatic = FALSE]

\* runtime.Start and the first Step.
Start ==
    /\ s.life = "absent"
    /\ Loop(UNION {IF t.ok THEN Step(t) ELSE {t} : t \in SwitchHome(Turn)})

LoopInput == s.life = "active" /\ ~quiet /\ Loop(Burst(Turn))
LoopIdle == s.life = "active" /\ Loop(Idle(Turn))

\* The shutdown key, or a scheduled reboot of the maintenance CLI.
LoopStop ==
    /\ s.life \in {"active", "failsafe"}
    /\ s' \in Stop(Turn)
    /\ UNCHANGED <<broken, quiet>>

\* Confirm or Back on the recovery page.
FailsafeInput ==
    /\ s.life = "failsafe"
    /\ ~quiet
    /\ Loop(UNION {IF t.ok THEN Step(t) ELSE {t} :
                   t \in Recover([Turn EXCEPT !.failures = 0, !.suppressed = TRUE])})

\* The user stops pressing keys.
FallQuiet == ~quiet /\ quiet' = TRUE /\ UNCHANGED <<s, broken>>

Next == Start \/ LoopInput \/ LoopIdle \/ LoopStop \/ FailsafeInput \/ FallQuiet

Spec == Init /\ [][Next]_vars

\* The loop runs on; without input it idles.
FairSpec == Spec /\ WF_vars(Start) /\ WF_vars(LoopIdle)

-----------------------------------------------------------------------------
(* Properties.                                                             *)

\* A foreground exists exactly while the runtime is active, and what is asked
\* for - a render, a command, a launch - is asked by it: nothing of an
\* application survives its exit, its fallback or failsafe.
OneOwner ==
    /\ s.life = "active" <=> s.fg # NoApp
    /\ s.life # "active" => s.render = "none" /\ s.command = NoCommand
    /\ s.render # "stale"
    /\ s.opening # NoApp \/ s.pending # NoApp => s.fg = Launcher

\* No application is opened by itself once anything failed, or after a boot
\* that followed a crash.
NoAutomaticAfterError == [][s'.automatic => ~s.error /\ ~s.suppressed]_s

\* A launch ends without another key: the application opens, is marked
\* unavailable, or the launcher goes; the inputs it blocks come back.
LaunchEnds == quiet /\ s.opening # NoApp ~> s.opening = NoApp

\* An application that cannot draw does not keep the screen, whatever keys are
\* pressed: its failures are counted until it is given up.
BrokenLeaves ==
    \A a \in Foregrounds :
        a \in broken /\ s.fg = a /\ s.render = "current" ~> s.fg # a \/ s.render = "none"
=============================================================================
