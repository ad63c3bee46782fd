-------------------------------- MODULE Theme --------------------------------
(***************************************************************************)
(* The theme of the screens: Theme.current, the switch in the settings,    *)
(* and the applyTheme of each screen.                                      *)
(*                                                                         *)
(* No screen is told that the theme changed, but the one that holds the    *)
(* switch.  The others take it up when they appear, some of them before    *)
(* (viewWillAppear) and some after (viewDidAppear), and draw the bar of    *)
(* their own stack and the one tab bar as well.  The collection keeps the  *)
(* theme of the moment it was made.  The model has no bounds: it is the    *)
(* whole of the navigation as far as themes go.                            *)
(***************************************************************************)
EXTENDS Integers, Sequences

Themes == {"light", "dark"}

(* The root of each tab; LoginViewController may lie on the first and the  *)
(* last, and the collection on the last with a login on it.                *)
Tabs == {"Home", "Map", "Settings"}
Stacks(t) ==
    CASE t = "Home" -> {<<"Home">>, <<"Home", "HomeLogin">>}
      [] t = "Map" -> {<<"Map">>}
      [] t = "Settings" -> {<<"Settings">>, <<"Settings", "SettingsLogin">>,
                            <<"Settings", "MyCollected">>,
                            <<"Settings", "MyCollected", "SettingsLogin">>}
Screens == Tabs \cup {"HomeLogin", "SettingsLogin", "MyCollected"}

VARIABLES
    current,   \* Theme.current.
    isDark,    \* kIsDarkTheme of UserDefaults, by the name of its theme.
    tab,       \* The tab on show.
    stack,     \* stack[t]: the screens of tab t, its root first.
    arriving,  \* viewDidAppear of the screen on show is still to come.
    body,      \* body[s]: the theme screen s is drawn in.
    bar,       \* bar[t]: the theme of the navigation bar of tab t.
    tabBar,    \* The theme of the tab bar.
    theme      \* The theme the collection has kept.

vars == <<current, isDark, tab, stack, arriving, body, bar, tabBar, theme>>

TypeOK ==
    /\ current \in Themes /\ isDark \in Themes
    /\ tab \in Tabs
    /\ stack \in [Tabs -> Seq(Screens)] /\ \A t \in Tabs : stack[t] \in Stacks(t)
    /\ arriving \in BOOLEAN
    /\ body \in [Screens -> Themes] /\ bar \in [Tabs -> Themes]
    /\ tabBar \in Themes /\ theme \in Themes

Top(t) == stack[t][Len(stack[t])]

-----------------------------------------------------------------------------
(***************************************************************************)
(* What a screen draws.                                                    *)
(***************************************************************************)

(* applyTheme of a root: itself, its navigation bar and the tab bar.       *)
ApplyTheme(t, x) ==
    /\ body' = [body EXCEPT ![t] = x]
    /\ bar' = [bar EXCEPT ![t] = x]
    /\ tabBar' = x

(* viewWillAppear of the collection: its bar is in the theme it has kept.  *)
CollectionWillAppear ==
    /\ body' = [body EXCEPT !["MyCollected"] = current]
    /\ bar' = [bar EXCEPT !["Settings"] = theme']
    /\ UNCHANGED tabBar

(* viewWillAppear of screen s: of the others the map applies the theme.    *)
WillAppear(s) ==
    CASE s = "Map" -> ApplyTheme("Map", current)
      [] s = "MyCollected" -> CollectionWillAppear
      [] OTHER -> UNCHANGED <<body, bar, tabBar>>

(* viewDidAppear: the list and the settings apply the theme; a login only  *)
(* draws itself; the map and the collection have done it already.          *)
ViewDidAppear ==
    /\ arriving /\ arriving' = FALSE
    /\ LET s == Top(tab) IN
       \/ s \in {"Home", "Settings"} /\ ApplyTheme(s, current)
       \/ /\ s \in {"HomeLogin", "SettingsLogin"}
          /\ body' = [body EXCEPT ![s] = current]
          /\ UNCHANGED <<bar, tabBar>>
       \/ s \in {"Map", "MyCollected"} /\ UNCHANGED <<body, bar, tabBar>>
    /\ UNCHANGED <<current, isDark, tab, stack, theme>>

(* The list applies the theme 0.3 seconds after an answer, whatever is on  *)
(* show by then, and the map when a city is chosen on it.                  *)
Reload ==
    /\ \/ ApplyTheme("Home", current)
       \/ tab = "Map" /\ ApplyTheme("Map", current)
    /\ UNCHANGED <<current, isDark, tab, stack, arriving, theme>>

-----------------------------------------------------------------------------
(***************************************************************************)
(* The user.  UIKit takes no touches while a screen is on its way.         *)
(***************************************************************************)

SelectTab(t) ==
    /\ ~arriving /\ t # tab
    /\ tab' = t
    /\ arriving' = TRUE
    /\ UNCHANGED <<current, isDark, stack, theme>>
    /\ WillAppear(Top(t))

(* Fault: a collection is kept and shown again.                            *)
Push_Kept(s) ==
    /\ ~arriving
    /\ Append(stack[tab], s) \in Stacks(tab)
    /\ stack' = [stack EXCEPT ![tab] = Append(@, s)]
    /\ arriving' = TRUE
    /\ UNCHANGED <<current, isDark, tab, theme>>
    /\ WillAppear(s)

(* A new screen is pushed: a login, or from the settings the collection,   *)
(* which takes the theme of this moment with it.                           *)
Push(s) ==
    /\ ~arriving
    /\ Append(stack[tab], s) \in Stacks(tab)
    /\ stack' = [stack EXCEPT ![tab] = Append(@, s)]
    /\ arriving' = TRUE
    /\ theme' = IF s = "MyCollected" THEN current ELSE theme
    /\ UNCHANGED <<current, isDark, tab>>
    /\ WillAppear(s)

Pop ==
    /\ ~arriving /\ Len(stack[tab]) > 1
    /\ stack' = [stack EXCEPT ![tab] = SubSeq(@, 1, Len(@) - 1)]
    /\ arriving' = TRUE
    /\ UNCHANGED <<current, isDark, tab, theme>>
    /\ WillAppear(stack'[tab][Len(stack'[tab])])

(* Fault: the theme is stored by no name.                                  *)
ThemeChanged_Nil(x) ==
    /\ ~arriving /\ Top(tab) = "Settings"
    /\ x # isDark
    /\ current' = x /\ isDark' = "nil"
    /\ ApplyTheme("Settings", x)
    /\ UNCHANGED <<tab, stack, arriving, theme>>

(* The switch, which stands where isDark says, is turned over; switchTheme *)
(* has the settings apply the theme.                                       *)
ThemeChanged(x) ==
    /\ ~arriving /\ Top(tab) = "Settings"
    /\ x # isDark
    /\ current' = x /\ isDark' = x
    /\ ApplyTheme("Settings", x)
    /\ UNCHANGED <<tab, stack, arriving, theme>>

-----------------------------------------------------------------------------
(* Fault: the theme that was stored is not taken up.                       *)
Launch_Light(stored) == "light"

(* The app is started: AppDelegate.applyTheme takes the stored theme up,   *)
(* before any screen has appeared.  Where none is stored it stores light.  *)
Launch(stored) == stored

(* The screens that are made are drawn when they load or appear; what they *)
(* are till then does not matter and is called light.                      *)
Init ==
    /\ isDark \in Themes /\ current = Launch(isDark)
    /\ tab = "Home" /\ stack = [t \in Tabs |-> <<t>>] /\ arriving = TRUE
    /\ body = [s \in Screens |-> "light"] /\ bar = [t \in Tabs |-> "light"]
    /\ tabBar = "light" /\ theme = "light"

(* The process dies, whatever it was at, and the app is started again.     *)
Relaunch ==
    /\ current' = Launch(isDark) /\ UNCHANGED isDark
    /\ tab' = "Home" /\ stack' = [t \in Tabs |-> <<t>>] /\ arriving' = TRUE
    /\ body' = [s \in Screens |-> "light"] /\ bar' = [t \in Tabs |-> "light"]
    /\ tabBar' = "light" /\ theme' = "light"

Next ==
    \/ ViewDidAppear \/ Reload \/ Pop \/ Relaunch
    \/ \E t \in Tabs : SelectTab(t)
    \/ \E s \in Screens : Push(s)
    \/ \E x \in Themes : ThemeChanged(x)

Spec == Init /\ [][Next]_vars

-----------------------------------------------------------------------------
(***************************************************************************)
(* Properties.                                                             *)
(***************************************************************************)

(* Once a screen has appeared, it, the navigation bar above it and the tab *)
(* bar below it are in one theme, the current one: though most screens are *)
(* never told of a change, share their bars with others, and the bar of    *)
(* the collection is in a theme it kept.  Only a login on the list of      *)
(* cafes may stand under a bar of the other theme: when the theme is       *)
(* changed in the settings meanwhile, nothing draws that bar again.        *)
OnShowInTheme ==
    ~arriving =>
        /\ body[Top(tab)] = current /\ tabBar = current
        /\ Top(tab) # "HomeLogin" => bar[tab] = current

(* Only the switch changes the theme: it is the same after a relaunch.     *)
OnlySwitchChangesTheme ==
    [][current' # current => Top(tab) = "Settings" /\ stack' = stack]_vars
=============================================================================
