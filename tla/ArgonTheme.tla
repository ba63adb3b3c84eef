------------------------------ MODULE ArgonTheme ------------------------------
(***************************************************************************)
(* menu-argon.js and argon-config.js: the submenus that slide open and     *)
(* shut, the tabs of nested menus, the sidebar, and the settings page with *)
(* its backgrounds, open in several tabs of the browser.                   *)
(***************************************************************************)
EXTENDS Naturals, Sequences, FiniteSets

CONSTANTS
  Menus,      \* main menu entries with a submenu
  Plain,      \* main menu entries without
  MaxClicks   \* clicks in the menu

VARIABLES
  active,     \* submenus with the class active
  style,      \* the inline style of each submenu
  running,    \* the animation of a submenu: its kind and the style it will restore
  clicks, sidebar

menuVars == <<active, style, running, clicks, sidebar>>

Clean(display) == [display |-> display, sized |-> FALSE]
NoSlide == [kind |-> "none", sized |-> FALSE]

\* The stylesheet shows the submenu that is active when the page is rendered.
MenuInit ==
  /\ active \in {{}} \cup {{m} : m \in Menus}
  /\ style = [m \in Menus |-> Clean("css")]
  /\ running = [m \in Menus |-> NoSlide]
  /\ clicks = 0 /\ sidebar = FALSE

\* What cleanup leaves: height and overflow as they were when the slide began.
Cleaned(s, slide) ==
  CASE slide.kind = "none" -> s
    [] slide.kind = "down" -> [s EXCEPT !.sized = slide.sized]
    [] slide.kind = "up"   -> [display |-> "none", sized |-> slide.sized]

\* As if stop only cleared the timer.
StoppedOnly(s, slide) == s

\* stop: the timer is cleared and its cleanup is done at once.
Stopped(s, slide) == Cleaned(s, slide)

SlideDown(m) ==
  LET s == Stopped(style[m], running[m]) IN
  [style |-> [display |-> "block", sized |-> TRUE], slide |-> [kind |-> "down", sized |-> s.sized]]
SlideUp(m) ==
  LET s == Stopped(style[m], running[m]) IN
  [style |-> [s EXCEPT !.sized = TRUE], slide |-> [kind |-> "up", sized |-> s.sized]]

\* handleMenuExpand: every active submenu slides up and loses its class; the one
\* clicked slides down unless it was among them.  An entry without a submenu is a link.
ClickMenu(e) ==
  /\ clicks < MaxClicks /\ clicks' = clicks + 1
  /\ active' = (IF e \in Menus THEN {e} ELSE {}) \ active
  /\ LET moved == [m \in Menus |->
           CASE m \in active            -> SlideUp(m)
             [] m = e /\ m \notin active -> SlideDown(m)
             [] OTHER                   -> [style |-> style[m], slide |-> running[m]]]
     IN /\ style' = [m \in Menus |-> moved[m].style]
        /\ running' = [m \in Menus |-> moved[m].slide]
  /\ UNCHANGED sidebar

\* The timer of a slide, 200 ms after it began.
SlideEnds(m) ==
  /\ running[m].kind # "none"
  /\ style' = [style EXCEPT ![m] = Cleaned(@, running[m])]
  /\ running' = [running EXCEPT ![m] = NoSlide]
  /\ UNCHANGED <<active, clicks, sidebar>>

\* handleSidebarToggle: the button decides, the sidebar, the page and the mask follow it.
ToggleSidebar ==
  /\ clicks < MaxClicks /\ clicks' = clicks + 1
  /\ sidebar' = ~sidebar
  /\ UNCHANGED <<active, style, running>>

MenuNext ==
  \/ \E e \in Menus \cup Plain : ClickMenu(e)
  \/ \E m \in Menus : SlideEnds(m)
  \/ ToggleSidebar

-----------------------------------------------------------------------------
(* renderTabMenu: the bars of tabs, for a path of nested menus.            *)

VARIABLES depth, tabs   \* how many levels of tabs the open page has; the bars in the order they stand
tabVars == <<depth, tabs>>

\* Appending an element that is already there moves it to the end.
Append1(bars, b) ==
  IF \A i \in DOMAIN bars : bars[i] # b THEN Append(bars, b)
  ELSE LET at == CHOOSE i \in DOMAIN bars : bars[i] = b
       IN  [i \in DOMAIN bars |-> IF i < at THEN bars[i] ELSE IF i = Len(bars) THEN b ELSE bars[i + 1]]

\* Level i appends its bar, renders the level below, and appends that bar again.
TabBars(n) ==
  LET down[i \in 1..n] == IF i = 1 THEN <<1>> ELSE Append1(down[i - 1], i)
      up[i \in 1..n] == IF i = n THEN down[n] ELSE Append1(up[i + 1], i + 1)
  IN up[1]

TabInit == depth = 1 /\ tabs = <<1>>
OpenPage(n) == depth' = n /\ tabs' = TabBars(n)
TabNext == \E n \in 1..3 : OpenPage(n)

-----------------------------------------------------------------------------
(* The settings page.                                                      *)

CONSTANTS Windows, Pictures   \* browser tabs with the page open; pictures to upload

VARIABLES
  step,       \* what each window is doing: its upload's stage and picture
  tmp,        \* external: the picture in /tmp/argon_background.tmp
  shelf       \* external: the pictures stored, by the name they were uploaded as

cfgVars == <<step, tmp, shelf>>
NoPicture == "none"
CfgInit ==
  /\ step = [w \in Windows |-> [at |-> "idle", picture |-> NoPicture]]
  /\ tmp = NoPicture /\ shelf = [p \in Pictures |-> NoPicture]

Upload(w, p) ==
  /\ step[w].at = "idle"
  /\ step' = [step EXCEPT ![w] = [at |-> "rename", picture |-> p]]
  /\ tmp' = p
  /\ UNCHANGED shelf

\* rename moves the temporary file; when it failed the file is removed.
Rename(w, ok) ==
  /\ step[w].at = "rename"
  /\ IF ok /\ tmp # NoPicture
     THEN /\ shelf' = [shelf EXCEPT ![step[w].picture] = tmp] /\ tmp' = NoPicture
          /\ step' = [step EXCEPT ![w] = [at |-> "idle", picture |-> NoPicture]]
     ELSE step' = [step EXCEPT ![w].at = "remove"] /\ UNCHANGED <<shelf, tmp>>

RemoveTmp(w) ==
  /\ step[w].at = "remove"
  /\ tmp' = NoPicture
  /\ step' = [step EXCEPT ![w] = [at |-> "idle", picture |-> NoPicture]]
  /\ UNCHANGED shelf

DeletePicture(p) ==
  /\ shelf[p] # NoPicture
  /\ shelf' = [shelf EXCEPT ![p] = NoPicture]
  /\ UNCHANGED <<step, tmp>>

CfgNext ==
  \/ \E w \in Windows : RemoveTmp(w) \/ (\E p \in Pictures : Upload(w, p)) \/ \E ok \in BOOLEAN : Rename(w, ok)
  \/ \E p \in Pictures : DeletePicture(p)

-----------------------------------------------------------------------------
(* Properties.                                                             *)

\* Clicks may come faster than the slides: when a submenu has come to rest it shows
\* exactly if it is active, and no height or overflow of an interrupted slide is left
\* on it; and no two submenus are active.
MenusSettle ==
  /\ Cardinality(active) <= 1
  /\ \A m \in Menus : running[m].kind = "none" =>
       /\ ~style[m].sized
       /\ style[m].display # "css" => (style[m].display = "block" <=> m \in active)

\* The bars of a page with one or two levels of tabs stand in the order of the levels.
TabsInOrder == depth <= 2 => \A i \in 1..Len(tabs) : tabs[i] = i

\* When all uploads are over the temporary file is gone, stored or removed, also if several
\* windows uploaded at once.
NothingInTmp == (\A w \in Windows : step[w].at = "idle") => tmp = NoPicture

\* However clicks and uploads overlap, what comes to rest is in order.
ThemeSettles == MenusSettle /\ TabsInOrder /\ NothingInTmp
===============================================================================
