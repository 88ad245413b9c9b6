-------------------------------- MODULE Shell -------------------------------
(***************************************************************************)
(* The frame around the administration pages (apps/web/src/shell): keyboard *)
(* shortcuts and the command palette, the bar that shows navigation, the    *)
(* drawer of narrow windows with its focus loop, the scroll position each   *)
(* route keeps, the pill that polls the gateway. The window's listeners     *)
(* share its keys; timers, view transitions and answers come in between.    *)
(***************************************************************************)
EXTENDS Integers, Sequences, FiniteSets

CONSTANTS
    Frames   \* bounds: the parts used, and how much is done with them

ASSUME FramesAssumption ==
    Frames \subseteq [parts : SUBSET {"keys", "drawer", "scroll", "health"}, acts : Nat]

VARIABLES
    frame,    \* keys, palette, navigation and its bar
    drawer,   \* the drawer and the focus
    scroll,   \* the scrolling element, and sessionStorage
    health,   \* the pill and its pings
    budget    \* what is left of the bounds

shellVars == <<frame, drawer, scroll, health, budget>>

Routes == {"users", "roles"}

\* Entries of the palette for what is typed in it: how many match.
Queries == {"", "r", "zz"}
Matches(query) == CASE query = "" -> 3 [] query = "r" -> 2 [] query = "zz" -> 0

ShellInit ==
    /\ budget \in Frames
    /\ frame = [path |-> "users", pending |-> <<>>, bar |-> FALSE, timer |-> "keys" \in budget.parts, armed |-> "no",
                palette |-> FALSE, query |-> "", active |-> 0, help |-> FALSE, aimed |-> TRUE,
                stayed |-> FALSE, strayed |-> FALSE]
    /\ drawer \in [open : BOOLEAN, focus : {"body"}, back : {"body"}, lost : {FALSE}]
    /\ drawer.open => "drawer" \in budget.parts
    /\ scroll = [top |-> 0, room |-> 2, saved |-> [r \in Routes |-> 0], frame |-> 0, due |-> FALSE,
                 event |-> FALSE, left |-> [r \in Routes |-> 0], short |-> {}]
    /\ health = [state |-> "unknown", up |-> TRUE, pings |-> {}, count |-> 0, last |-> 0,
                 found |-> "unknown", late |-> FALSE]

With(part) == part \in budget.parts
Acts == budget.acts > 0 /\ budget' = [budget EXCEPT !.acts = @ - 1]

-----------------------------------------------------------------------------
(* Navigation and its bar                                                  *)

\* The bar starts, and a view transition goes to the route a moment later.
Starting(f, to) ==
    [f EXCEPT !.bar = TRUE, !.pending = Append(@, to),
              !.stayed = @ \/ to = (IF f.pending = <<>> THEN f.path ELSE f.pending[Len(f.pending)])]

\* Links of the sidebar, of the bar at the bottom and of the session menu, and the browser's
\* back button.
FollowNav(to) ==
    /\ With("keys") /\ Acts
    /\ frame' = Starting(frame, to)
    /\ UNCHANGED <<drawer, scroll, health>>

\* A slip: the effect stops the timer of before and starts none.
NoTimer(f, to) == [f EXCEPT !.timer = FALSE]
Timed(f, to) == IF to = f.path THEN f ELSE [f EXCEPT !.timer = TRUE, !.stayed = FALSE]

Smaller(m, n) == IF m < n THEN m ELSE n
Larger(m, n) == IF m > n THEN m ELSE n

\* A slip: positions are kept under the route that comes.
UnderNext(old, new) == new
UnderOld(old, new) == old

\* Another route renders, with less room while it loads. The effect of the old one saves where
\* the element stands by then, and the new one asks for a frame to restore its own.
Renders(to, room) ==
    LET top == Smaller(scroll.top, room)
    IN scroll' = [scroll EXCEPT !.room = room, !.top = top,
                      !.saved[UnderOld(frame.path, to)] = top,
                      !.frame = scroll.saved[to], !.due = TRUE,
                      !.event = @ \/ top # scroll.top,
                      !.short = @ \cup (IF top # scroll.top \/ scroll.due THEN {frame.path} ELSE {})]

\* The transition's callback runs. The effect that ends the bar depends on the path.
Transition ==
    /\ frame.pending # <<>>
    /\ LET to == Head(frame.pending)
       IN /\ frame' = [Timed(frame, to) EXCEPT !.path = to, !.pending = Tail(@)]
          /\ IF With("scroll") /\ to # frame.path THEN \E room \in 0..2 : Renders(to, room)
             ELSE UNCHANGED scroll
    /\ UNCHANGED <<drawer, health, budget>>

\* A page navigates by itself, without the bar.
Turn(to, room) ==
    /\ With("scroll") /\ to # frame.path /\ Acts
    /\ frame' = [Timed(frame, to) EXCEPT !.path = to]
    /\ Renders(to, room)
    /\ UNCHANGED <<drawer, health>>

EndBar ==
    /\ frame.timer
    /\ frame' = [frame EXCEPT !.timer = FALSE, !.bar = FALSE]
    /\ UNCHANGED <<drawer, scroll, health, budget>>

-----------------------------------------------------------------------------
(* Keys                                                                    *)

Strokes == {"g", "u", "r", "k", "ctrl-k", "?", "esc", "up", "down", "enter"}

\* What the listener that "g" has left does with the next key, wherever that is typed.
Jump(f, key, field) ==
    LET to == CASE key = "u" -> "users" [] key = "r" -> "roles" [] OTHER -> "none"
        rid == [f EXCEPT !.armed = "no", !.strayed = @ \/ (f.armed = "field" /\ field /\ to # "none")]
    IN IF f.armed # "no" /\ to # "none" THEN Starting(rid, to) ELSE rid

\* A slip: a shortcut is one in a field, too.
Everywhere(field) == TRUE
Outside(field) == ~field

\* Shortcuts of the shell.
Shortcut(f, key, field) ==
    IF ~Outside(field) THEN f
    ELSE CASE key = "g" -> [f EXCEPT !.armed = IF field THEN "field" ELSE "page"]
           [] key = "ctrl-k" -> [f EXCEPT !.palette = ~@, !.query = "", !.active = 0]
           [] key = "?" -> [f EXCEPT !.help = TRUE]
           [] OTHER -> f

Below(f) == Smaller(f.active + 1, Matches(f.query) - 1)

Closed(f) == [f EXCEPT !.palette = FALSE]

\* What an entry may do: lead to a route, show the help, or something outside the frame.
Runs(f) == {Starting(Closed(f), to) : to \in Routes} \cup {Closed(f), [Closed(f) EXCEPT !.help = TRUE]}

\* Keys of the palette; Enter runs the entry that is marked.
PaletteKey(f, key) ==
    CASE ~f.palette \/ key \notin {"esc", "up", "down", "enter"} -> {f}
      [] f.palette /\ key = "esc" -> {Closed(f)}
      [] f.palette /\ key = "down" -> {[f EXCEPT !.active = Below(f)]}
      [] f.palette /\ key = "up" -> {[f EXCEPT !.active = Larger(@ - 1, 0)]}
      [] f.palette /\ key = "enter" ->
             IF f.active \notin 0..Matches(f.query) - 1 THEN {[f EXCEPT !.aimed = Matches(f.query) = 0]}
             ELSE Runs(f)

\* One key outside the panels, for every listener there is. What Escape closes, it closes together.
\* A key typed inside the palette or the help is heard by none: their panels stop its propagation
\* at the root of the page and all listeners are the window's.
Press(key, field) ==
    /\ With("keys") /\ Acts
    /\ \E f \in PaletteKey(Jump(frame, key, field), key) :
           frame' = Shortcut(IF key = "esc" THEN [f EXCEPT !.help = FALSE] ELSE f, key, field)
    /\ UNCHANGED <<drawer, scroll, health>>

\* The mouse: an entry, or beside the panel that is on top.
ClickEntry ==
    /\ frame.palette /\ ~frame.help /\ Matches(frame.query) > 0 /\ Acts
    /\ frame' \in Runs(frame)
    /\ UNCHANGED <<drawer, scroll, health>>

\* The button of the bar at the top.
OpenPalette ==
    /\ With("keys") /\ ~frame.palette /\ ~frame.help /\ Acts
    /\ frame' = [frame EXCEPT !.palette = TRUE, !.query = "", !.active = 0]
    /\ UNCHANGED <<drawer, scroll, health>>

ClickAway ==
    /\ frame.palette \/ frame.help
    /\ Acts
    /\ frame' = IF frame.help THEN [frame EXCEPT !.help = FALSE] ELSE Closed(frame)
    /\ UNCHANGED <<drawer, scroll, health>>

\* 800 ms after "g".
Disarm ==
    /\ frame.armed # "no"
    /\ frame' = [frame EXCEPT !.armed = "no"]
    /\ UNCHANGED <<drawer, scroll, health, budget>>

\* A slip: the mark stays where it was.
KeepsMark(f) == f.active
FirstEntry(f) == 0

\* Typing in the palette; an effect marks the first entry again.
TypeQuery(query) ==
    /\ frame.palette /\ query # frame.query
    /\ Acts
    /\ frame' = [frame EXCEPT !.query = query, !.active = FirstEntry(frame)]
    /\ UNCHANGED <<drawer, scroll, health>>

\* The mouse marks entries.
Hover(i) ==
    /\ frame.palette /\ i < Matches(frame.query) /\ i # frame.active
    /\ Acts
    /\ frame' = [frame EXCEPT !.active = i]
    /\ UNCHANGED <<drawer, scroll, health>>

-----------------------------------------------------------------------------
(* The drawer                                                              *)

Inside == {"panel", "first", "last"}

\* The focus goes into the panel, and later back to where it was.
Opened(from) == [open |-> TRUE, focus |-> "panel", back |-> from, lost |-> FALSE]

\* The button at the bottom, which gets the focus; a swipe from the edge leaves it where it is.
PressMenu ==
    /\ With("drawer") /\ ~drawer.open /\ Acts
    /\ drawer' = Opened("button")
    /\ UNCHANGED <<frame, scroll, health>>

Swipe ==
    /\ With("drawer") /\ ~drawer.open /\ Acts
    /\ drawer' = Opened(drawer.focus)
    /\ UNCHANGED <<frame, scroll, health>>

\* A window that loads with the drawer open focuses it, too.
FocusDrawer ==
    /\ drawer.open /\ drawer.focus = "body" /\ ~drawer.lost
    /\ drawer' = [drawer EXCEPT !.focus = "panel", !.back = "body"]
    /\ UNCHANGED <<frame, scroll, health, budget>>

\* Escape, the backdrop, and links in the drawer close it, and the focus goes back.
CloseDrawer ==
    /\ drawer.open /\ drawer.focus # "body" /\ Acts
    /\ drawer' = [drawer EXCEPT !.open = FALSE, !.focus = drawer.back, !.lost = FALSE]
    /\ UNCHANGED <<frame, scroll, health>>

\* A slip: Tab leaves the drawer behind its last control.
Leaves(from) == "page"
Wraps(from) == IF from = "last" THEN "first" ELSE "last"

\* Tab and Shift+Tab. The panel itself is no stop: backwards from it lies the page.
Tab(back) ==
    /\ drawer.open /\ drawer.focus # "body" /\ Acts
    /\ \E next \in Inside \cup {"page"} :
           /\ next \in CASE drawer.focus = "panel" -> IF back THEN {"page"} ELSE {"first"}
                         [] drawer.focus = "first" -> {IF back THEN Wraps("first") ELSE "last"}
                         [] drawer.focus = "last" -> {IF back THEN "first" ELSE Wraps("last")}
                         [] OTHER -> IF back THEN {"page"} ELSE {"page", "first"}
           /\ drawer' = [drawer EXCEPT !.focus = next,
                             !.lost = @ \/ (drawer.focus = "panel" /\ back)]
    /\ UNCHANGED <<frame, scroll, health>>

-----------------------------------------------------------------------------
(* Scroll positions                                                        *)

\* Somebody scrolls; the scroll event comes with the next frame.
Scroll(to) ==
    /\ With("scroll") /\ to \in 0..scroll.room /\ to # scroll.top /\ Acts
    /\ scroll' = [scroll EXCEPT !.top = to, !.event = TRUE,
                                !.left = IF scroll.due THEN @ ELSE [@ EXCEPT ![frame.path] = to],
                                !.short = IF scroll.due THEN @ \cup {frame.path} ELSE @ \ {frame.path}]
    /\ UNCHANGED <<frame, drawer, health>>

\* A frame: scroll events first, then the callback that restores.
NextFrame ==
    /\ scroll.event \/ scroll.due
    /\ LET saved == IF scroll.event THEN [scroll.saved EXCEPT ![frame.path] = scroll.top] ELSE scroll.saved
           top == IF scroll.due THEN Smaller(scroll.frame, scroll.room) ELSE scroll.top
       IN scroll' = [scroll EXCEPT !.saved = saved, !.top = top, !.due = FALSE,
                         !.event = top # scroll.top,
                         !.short = IF scroll.due /\ top # scroll.frame THEN @ \cup {frame.path} ELSE @]
    /\ UNCHANGED <<frame, drawer, health, budget>>

\* The content is there.
Loaded ==
    /\ scroll.room < 2
    /\ scroll' = [scroll EXCEPT !.room = 2]
    /\ UNCHANGED <<frame, drawer, health, budget>>

-----------------------------------------------------------------------------
(* The gateway pill                                                        *)

Flap ==
    /\ With("health") /\ Acts
    /\ health' = [health EXCEPT !.up = ~@]
    /\ UNCHANGED <<frame, drawer, scroll>>

\* Every thirty seconds, whether or not the last ping was answered.
Ping ==
    /\ With("health") /\ Acts
    /\ health' = [health EXCEPT !.count = @ + 1,
                                !.pings = @ \cup {[n |-> health.count + 1, says |-> "none"]}]
    /\ UNCHANGED <<frame, drawer, scroll>>

Pinged(p) ==
    /\ p.says = "none"
    /\ health' = [health EXCEPT !.pings = (@ \ {p}) \cup
                      {[p EXCEPT !.says = IF health.up THEN "ok" ELSE "down"]}]
    /\ UNCHANGED <<frame, drawer, scroll, budget>>

\* A slip: once the gateway was down the pill stays so.
Sticks(old, new) == IF old = "down" THEN old ELSE new
Shows(old, new) == new

PingAnswered(p) ==
    /\ p.says # "none"
    /\ health' = [health EXCEPT !.pings = @ \ {p}, !.state = Shows(@, p.says),
                      !.late = p.n < health.last,
                      !.last = Larger(p.n, @),
                      !.found = IF p.n > health.last THEN p.says ELSE @]
    /\ UNCHANGED <<frame, drawer, scroll, budget>>

-----------------------------------------------------------------------------

KeyStep ==
    \/ \E to \in Routes : FollowNav(to)
    \/ \E key \in Strokes, field \in BOOLEAN : Press(key, field)
    \/ OpenPalette \/ ClickEntry \/ ClickAway
    \/ \E query \in Queries : TypeQuery(query)
    \/ \E i \in 0..2 : Hover(i)
    \/ Transition \/ EndBar \/ Disarm

DrawerStep ==
    \/ PressMenu \/ Swipe \/ FocusDrawer \/ CloseDrawer
    \/ \E back \in BOOLEAN : Tab(back)

ScrollStep ==
    \/ \E to \in 0..2 : Scroll(to)
    \/ \E to \in Routes, room \in 0..2 : Turn(to, room)
    \/ NextFrame \/ Loaded

HealthStep == Flap \/ Ping \/ \E p \in health.pings : Pinged(p) \/ PingAnswered(p)

ShellNext == KeyStep \/ DrawerStep \/ ScrollStep \/ HealthStep

-----------------------------------------------------------------------------
(* What the frame promises                                                 *)

ShellTypeOK ==
    /\ frame.path \in Routes /\ frame.query \in Queries /\ frame.active \in -1..2
    /\ drawer.focus \in Inside \cup {"button", "body", "page"}
    /\ scroll.top \in 0..2 /\ scroll.room \in 0..2
    /\ health.state \in {"unknown", "ok", "down"}

\* The bar shows only while a navigation is on its way or its timer runs, unless one led to the
\* route already shown: the effect that ends the bar depends on the path and does not run.
BarEnds == frame.bar => frame.pending # <<>> \/ frame.timer \/ frame.stayed

\* Enter in the palette never finds its mark outside the list, unless nothing matches.
PaletteAims == frame.aimed

\* Two keys typed in a field are text: they lead nowhere. ("g" on the page and a letter in a
\* field within 800 ms do: the listener that waits for the letter does not look where it is.)
FieldsAreText == ~frame.strayed

\* While the drawer is open the focus stays in it, unless Shift+Tab was pressed on the panel
\* itself, which is no stop of its loop.
FocusStaysIn == drawer.open => drawer.focus \in Inside \/ drawer.focus = "body" \/ drawer.lost

\* A route's position is the one it was left at, unless the route that came had less room, the
\* route itself had less room when it was shown again, or it was left before it was restored.
PlacesAreKept ==
    \A r \in Routes \ {frame.path} :
        scroll.saved[r] = scroll.left[r] \/ r \in scroll.short

\* The pill shows what the newest answered ping found, unless an older one came last.
PillIsNewest == health.late \/ health.state = health.found

\* All of it: the bar goes, keys and the focus go where they belong, routes come back where they
\* were left, the pill tells what was found.
FrameKeeps ==
    BarEnds /\ PaletteAims /\ FieldsAreText /\ FocusStaysIn /\ PlacesAreKept /\ PillIsNewest
=============================================================================
