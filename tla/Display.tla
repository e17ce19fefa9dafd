------------------------------ MODULE Display -------------------------------
(***************************************************************************)
(* The display of the Note4, from the canvas of UiEngine through           *)
(* DisplayService to the panel that the note4_epd driver drives.  All of   *)
(* it runs in the terminal task, so a call is one step; what can go wrong  *)
(* is the hardware, at every place where a driver call checks it.          *)
(*                                                                         *)
(* A partial refresh sends the transition from the driver's shadow to the  *)
(* new pixels: it is right only where the panel really shows the shadow.   *)
(* The screen is two parts, the status strip and the content, and a part   *)
(* is one pixel; turning the picture exchanges them.  A batch of refreshes *)
(* is left out, since nothing opens one: the rail is off between calls.    *)
(***************************************************************************)
EXTENDS Naturals

CONSTANTS
    Images,         \* what a part can be drawn as
    Gray,           \* a part of a gray picture
    Torn,           \* what an interrupted refresh leaves
    None            \* no preview

Parts == {1, 2}
status == 1
content == 2
Canvas == [Parts -> Images]
AllOf(p) == [t \in Parts |-> p]
Orientations == {"standard", "portrait", "inverted", "portraitInverted"}

VARIABLES
    panel,      \* what the glass shows; it keeps it without power
    display,    \* DisplayService, and the shadow of its driver
    ui,         \* UiEngine and its viewports
    step        \* the presentation of the last step, its result and its layout

vars == <<panel, display, ui, step>>

Presentation == [kind : {"none", "equal", "partial", "full", "gray"}, ok : BOOLEAN]
NoPresentation == [kind |-> "none", ok |-> TRUE]

TypeOK ==
    /\ panel \in [Parts -> Images \cup {Gray, Torn}]
    /\ display \in [shadow : Canvas, shadowValid : BOOLEAN, baseline : BOOLEAN,
                    orientation : Orientations, changed : BOOLEAN,
                    portraitPresented : BOOLEAN, layout : {"upright", "turned", "clockwise",
                    "counter", "none"}, preview : Images \cup {Gray, None}]
    /\ ui \in [canvas : Canvas, status : Images, dirty : SUBSET Parts, quality : BOOLEAN,
               portrait : BOOLEAN, gray : BOOLEAN, sleep : BOOLEAN]
    /\ step \in Presentation

\* note4_epd_new and DisplayService: nothing is known of the glass.
Fresh(image) ==
    [shadow |-> AllOf(image), shadowValid |-> FALSE, baseline |-> FALSE,
     orientation |-> "standard", changed |-> FALSE, portraitPresented |-> FALSE,
     layout |-> "none", preview |-> None]

FreshUi(image) ==
    [canvas |-> AllOf(image), status |-> image, dirty |-> Parts, quality |-> FALSE,
     portrait |-> FALSE, gray |-> FALSE, sleep |-> FALSE]

Init ==
    /\ panel = AllOf(Torn)
    /\ \E i \in Images : display = Fresh(i) /\ ui = FreshUi(i)
    /\ step = NoPresentation

\* A start after a power cut or deep sleep: the glass alone remains.
Restart ==
    /\ \E i \in Images : display' = Fresh(i) /\ ui' = FreshUi(i)
    /\ step' = NoPresentation
    /\ UNCHANGED panel

-----------------------------------------------------------------------------
(* Seeded faults, each with the property it breaks.                        *)

\* PanelKnown: a failed refresh leaves the preview and the baseline.
OnErrorForgets(d) == d

\* PresentedIsShown: a frame equal to the shadow is done whatever is known of it.
IsShownUnchecked(d, p) == d.shadow = p

-----------------------------------------------------------------------------
(* The panel and its driver, and what DisplayService remembers of it.  An  *)
(* outcome is the glass, the display and the presentation.                 *)

\* OnError, and RecordRefresh for a refresh that failed.
OnError(d) == [d EXCEPT !.baseline = FALSE, !.preview = None]

Outcome(glass, d, kind, ok) == [panel |-> glass, display |-> d,
                                step |-> [kind |-> kind, ok |-> ok]]

\* The rail, the reset, the OTP selection or the temperature fails before the
\* waveform starts, it stops in the middle, or the shutdown after it fails.
Interrupted(glass, driven) == {glass, driven, [t \in Parts |->
    IF driven[t] = glass[t] THEN glass[t] ELSE Torn]}

\* A full frame is written and drives every part, whatever it showed; one that
\* stops leaves the parts as they were, torn or driven.
WrittenInterrupted(glass, p) == Interrupted(glass, AllOf(Torn)) \cup {p}

\* A gray picture is several waveforms over a white base.
GrayInterrupted(glass) == WrittenInterrupted(glass, AllOf(Gray))

\* BeginRefresh fails: the driver was not asked.
NoPower(glass, d, kind) == Outcome(glass, OnError(d), kind, FALSE)

\* A full refresh shows "p" whatever the glass showed before; after a failed one
\* the shadow is refused, unless only EndRefresh's power_off failed.
Full(glass, d, p) ==
    LET known == [d EXCEPT !.shadow = p, !.shadowValid = TRUE]
        lost == [OnError(d) EXCEPT !.shadowValid = FALSE]
    IN {NoPower(glass, d, "full"),
        Outcome(p, [known EXCEPT !.baseline = TRUE, !.preview = p[status]], "full", TRUE),
        Outcome(p, OnError(known), "full", FALSE)}
       \cup {Outcome(g, lost, "full", FALSE) : g \in WrittenInterrupted(glass, p)}

\* What a transition from "old" to "new" makes of a part.
Driven(shown, old, new) ==
    CASE old = new -> shown
      [] old # new /\ shown = old -> new
      [] OTHER -> Torn

Partial(glass, d, p) ==
    LET driven == [t \in Parts |-> Driven(glass[t], d.shadow[t], p[t])]
        known == [d EXCEPT !.shadow = p]
        lost == [OnError(d) EXCEPT !.shadowValid = FALSE]
    IN {NoPower(glass, d, "partial"),
        Outcome(driven, [known EXCEPT !.preview = p[status]], "partial", TRUE),
        Outcome(driven, OnError(known), "partial", FALSE)}
       \cup {Outcome(g, lost, "partial", FALSE) : g \in Interrupted(glass, driven)}

\* No shadow follows a gray picture.
GrayRefresh(glass, d) ==
    LET lost == [OnError(d) EXCEPT !.shadowValid = FALSE]
    IN {NoPower(glass, d, "gray"),
        Outcome(AllOf(Gray), [lost EXCEPT !.preview = Gray], "gray", TRUE)}
       \cup {Outcome(g, lost, "gray", FALSE) :
             g \in GrayInterrupted(glass)}

\* A frame the driver finds equal to its shadow costs no refresh.
IsShown(d, p) == d.shadowValid /\ d.baseline /\ d.shadow = p

\* PhysicsModel::Predict: whether the pixels that change and the debt of their
\* parts still allow a partial refresh is left open.
Physical1Bpp(glass, d, p, automatic) ==
    IF automatic /\ IsShown(d, p) THEN {Outcome(glass, d, "equal", TRUE)}
    ELSE Full(glass, d, p)
         \cup IF automatic /\ d.shadowValid /\ d.baseline THEN Partial(glass, d, p) ELSE {}

-----------------------------------------------------------------------------
(* DisplayService: the layouts of a frame.                                 *)

\* How Present1Bpp and Present4Bpp turn a frame, and PresentPortraitFrame.
LayoutOf(orientation, portrait) ==
    IF portrait THEN IF orientation = "portraitInverted" THEN "counter" ELSE "clockwise"
    ELSE IF orientation \in {"inverted", "portraitInverted"} THEN "turned" ELSE "upright"

\* RotateHalfTurn and RotatePortraitMono on two parts.
Placed(f, layout) ==
    IF layout \in {"turned", "clockwise"} THEN [t \in Parts |-> f[3 - t]] ELSE f

\* The first frame after a change of direction, or between portrait and
\* landscape, is never a partial one.
MustClean(d, portrait) == d.changed \/ d.portraitPresented # portrait

\* A presentation that succeeded is what the next one is compared with.
Remembered(o, portrait, layout) ==
    IF ~o.step.ok THEN o
    ELSE [o EXCEPT !.display.changed = FALSE, !.display.portraitPresented = portrait,
                   !.display.layout = layout]

\* The rotation buffer cannot be had.
NoMemory(glass, d) == Outcome(glass, d, "none", FALSE)

\* Present1Bpp and PresentPortrait1Bpp, for a frame of the application.
Present(glass, d, f, portrait, automatic) ==
    LET layout == LayoutOf(d.orientation, portrait)
        auto == automatic /\ ~MustClean(d, portrait)
    IN {Remembered(o, portrait, layout) :
            o \in Physical1Bpp(glass, d, Placed(f, layout), auto)}
       \cup IF layout = "upright" THEN {} ELSE {NoMemory(glass, d)}

\* PresentPortrait1Bpp of the lock screen: always clockwise, and the frame after
\* it is a clean one.
PresentLock(glass, d, f) ==
    {IF o.step.ok THEN [o EXCEPT !.display.changed = TRUE] ELSE o :
        o \in {Remembered(o, TRUE, "clockwise") :
                o \in Physical1Bpp(glass, d, Placed(f, "clockwise"), FALSE)}}
    \cup {NoMemory(glass, d)}

Present4Bpp(glass, d) ==
    LET layout == LayoutOf(d.orientation, FALSE)
    IN {Remembered(o, FALSE, layout) : o \in GrayRefresh(glass, d)}
       \cup IF layout = "upright" THEN {} ELSE {NoMemory(glass, d)}

\* SetOrientation; the rotation buffer is allocated before anything changes.
SetOrientation ==
    \E o \in Orientations \ {display.orientation} :
        /\ display' = [display EXCEPT !.orientation = o, !.changed = TRUE]
        /\ step' = NoPresentation
        /\ UNCHANGED <<panel, ui>>

\* SetCalibration, with the rail off: the next frame is a full one.
SetCalibration ==
    /\ display' = [OnError(display) EXCEPT !.shadowValid = FALSE]
    /\ step' = NoPresentation
    /\ UNCHANGED <<panel, ui>>

-----------------------------------------------------------------------------
(* UiEngine: a page draws on the canvas and refreshes what is dirty.       *)

\* UseCanvasMode: in the other geometry every viewport is configured anew.
UseCanvasMode(u, portrait) ==
    IF u.portrait = portrait THEN u
    ELSE [u EXCEPT !.portrait = portrait, !.dirty = Parts, !.quality = FALSE]

\* BeginContent, and the page that is drawn over it.
Drawn(u, portrait, image) ==
    [UseCanvasMode(u, portrait) EXCEPT
        !.sleep = FALSE, !.gray = FALSE, !.dirty = Parts, !.canvas[content] = image]

\* ViewPortScheduler::Compose redraws the status strip when it is dirty, and
\* RefreshPending redraws both under a gray picture.
Composed(u) ==
    IF u.gray THEN [u EXCEPT !.canvas[status] = u.status]
    ELSE IF status \in u.dirty THEN [u EXCEPT !.canvas[status] = u.status] ELSE u

\* ViewPortScheduler::Complete
Complete(u, ok) == IF ok THEN [u EXCEPT !.dirty = {}, !.quality = FALSE] ELSE u

\* RefreshPending of an engine "u".
Refresh(u) ==
    LET c == Composed(u)
        outcomes == IF c.gray THEN Present4Bpp(panel, display)
                    ELSE Present(panel, display, c.canvas, c.portrait, ~c.quality)
    IN IF u.sleep \/ u.dirty = {}
       THEN /\ ui' = u /\ step' = NoPresentation /\ UNCHANGED <<panel, display>>
       ELSE \E o \in outcomes :
                /\ panel' = o.panel /\ display' = o.display /\ step' = o.step
                /\ ui' = Complete(c, o.step.ok)

RefreshPending == Refresh(ui)

UpdateStatus ==
    \E i \in Images \ {ui.status} :
        /\ ui' = [ui EXCEPT !.status = i, !.dirty = @ \cup {status}]
        /\ step' = NoPresentation
        /\ UNCHANGED <<panel, display>>

\* A page, with RefreshFull or RefreshAuto.  A page that can be portrait follows
\* the direction of the display.
ShowContent ==
    \E image \in Images, full \in BOOLEAN, portrait \in BOOLEAN :
        LET u == Drawn(ui, portrait, image)
        IN /\ portrait => display.orientation \in {"portrait", "portraitInverted"}
           /\ Refresh([u EXCEPT !.quality = @ \/ full])

\* ShowImagePatch draws without BeginContent.
ShowImagePatch ==
    /\ ~ui.gray
    /\ \E image \in Images :
        LET u == UseCanvasMode(ui, FALSE)
        IN Refresh([u EXCEPT !.canvas[content] = image, !.dirty = @ \cup {content}])

ShowImage4Bpp ==
    Refresh([UseCanvasMode(ui, FALSE) EXCEPT
                !.gray = TRUE, !.sleep = FALSE, !.dirty = Parts, !.quality = TRUE])

\* The final surface before sleep is presented past the viewports: ClearDisplay
\* and the landscape covers, and the portrait calendar.
ShowSleepCover ==
    \E f \in Canvas, calendar \in BOOLEAN :
        LET u == UseCanvasMode(ui, calendar)
            asleep == [u EXCEPT !.gray = FALSE, !.canvas = f, !.sleep = TRUE]
        IN \E o \in IF calendar THEN PresentLock(panel, display, f)
                     ELSE Present(panel, display, f, FALSE, FALSE) :
                /\ panel' = o.panel /\ display' = o.display /\ step' = o.step
                /\ ui' = UseCanvasMode(asleep, FALSE)

Next ==
    \/ Restart
    \/ SetOrientation
    \/ SetCalibration
    \/ RefreshPending
    \/ UpdateStatus
    \/ ShowContent
    \/ ShowImagePatch
    \/ ShowImage4Bpp
    \/ ShowSleepCover

Spec == Init /\ [][Next]_vars

-----------------------------------------------------------------------------
(* Properties.                                                             *)

\* What the driver and the service remember is what the glass shows: a shadow
\* that a partial refresh may start from, a baseline that allows one only over
\* such a shadow, and a preview that the maintenance CLI reports.
PanelKnown ==
    /\ display.shadowValid => panel = display.shadow
    /\ display.baseline => display.shadowValid
    /\ display.preview # None => display.preview = panel[status]

\* With no viewport dirty, no cover up and the direction unchanged, the reader
\* sees what was drawn last: a refresh that failed stays due.
NothingStale ==
    ui.dirty = {} /\ ~ui.sleep /\ ~display.changed =>
        /\ panel = IF ui.gray THEN AllOf(Gray)
                   ELSE Placed(ui.canvas, LayoutOf(display.orientation, ui.portrait))
        /\ ui.canvas[status] = ui.status

\* A presentation reported as done shows its frame: no part is left torn or
\* with the pixels of an earlier frame.
ShowsPresented ==
    step'.ok /\ step'.kind \in {"equal", "partial", "full"} =>
        panel' = Placed(ui'.canvas, display'.layout)

PresentedIsShown == [][ShowsPresented]_vars

\* A partial refresh never goes from one layout to another.
KeepsLayout == step'.ok /\ step'.kind = "partial" => display'.layout = display.layout

PartialKeepsLayout == [][KeepsLayout]_vars
=============================================================================
