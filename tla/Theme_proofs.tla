---------------------------- MODULE Theme_proofs ----------------------------
(***************************************************************************)
(* Theorems about Theme.  TLC visits all its states; the invariant says    *)
(* why no screen is left behind although so few are told of a change.      *)
(***************************************************************************)
EXTENDS Theme, TLAPS

-----------------------------------------------------------------------------
(***************************************************************************)
(* The stacks.                                                             *)
(***************************************************************************)
Collections == {<<"Settings", "MyCollected">>, <<"Settings", "MyCollected", "SettingsLogin">>}

LEMMA StacksOf ==
    /\ Stacks("Home") = {<<"Home">>, <<"Home", "HomeLogin">>}
    /\ Stacks("Map") = {<<"Map">>}
    /\ Stacks("Settings") = {<<"Settings">>, <<"Settings", "SettingsLogin">>} \cup Collections
    /\ \A t \in Tabs : <<t>> \in Stacks(t) /\ \A q \in Stacks(t) : q \in Seq(Screens)
<1>1. /\ Stacks("Home") = {<<"Home">>, <<"Home", "HomeLogin">>}
      /\ Stacks("Map") = {<<"Map">>}
      /\ Stacks("Settings") = {<<"Settings">>, <<"Settings", "SettingsLogin">>} \cup Collections
    BY DEF Stacks, Collections
<1>2. /\ <<"Home">> \in Seq(Screens) /\ <<"Home", "HomeLogin">> \in Seq(Screens)
      /\ <<"Map">> \in Seq(Screens)
      /\ <<"Settings">> \in Seq(Screens) /\ <<"Settings", "SettingsLogin">> \in Seq(Screens)
      /\ <<"Settings", "MyCollected">> \in Seq(Screens)
      /\ <<"Settings", "MyCollected", "SettingsLogin">> \in Seq(Screens)
    BY DEF Screens, Tabs
<1>3. \A t \in Tabs : t = "Home" \/ t = "Map" \/ t = "Settings"
    BY DEF Tabs
<1> QED
    BY <1>1, <1>2, <1>3 DEF Collections

LEMMA OneMore ==
    ASSUME NEW n \in Nat, NEW m, m = n + 1
    PROVE  /\ m = 2 => n = 1
           /\ m = 3 => n = 2
OBVIOUS

(* A screen is pushed.                                                     *)
LEMMA Pushed ==
    ASSUME NEW t \in Tabs, NEW q \in Stacks(t), NEW s \in Screens, Append(q, s) \in Stacks(t)
    PROVE  /\ Append(q, s)[Len(Append(q, s))] = s
           /\ t # "Map" /\ s \in {"HomeLogin", "SettingsLogin", "MyCollected"}
           /\ s = "HomeLogin" <=> t = "Home"
           /\ s = "MyCollected" => q = <<"Settings">>
           /\ Append(q, s) \in Collections => s = "MyCollected" \/ q \in Collections
<1> DEFINE p == Append(q, s)
<1>1. q \in Seq(Screens) /\ p \in Stacks(t)
    BY StacksOf
<1>2. /\ p[Len(p)] = s
      /\ \A i \in 1 .. Len(q) : p[i] = q[i]
      /\ q # <<>> => Len(q) > 0
    BY <1>1
<1>12. /\ Len(q) \in Nat /\ Len(p) = Len(q) + 1
       /\ Len(p) = 2 => Len(q) = 1
       /\ Len(p) = 3 => Len(q) = 2
    <2>1. Len(q) \in Nat /\ Len(p) = Len(q) + 1
        BY <1>1
    <2> HIDE DEF p
    <2> QED
        BY <2>1, OneMore
<1> HIDE DEF p
<1>3. t = "Home" \/ t = "Map" \/ t = "Settings"
    BY DEF Tabs
<1>4. Len(q) > 0
    BY <1>1, <1>2, <1>3, StacksOf DEF Collections
<1>5. Len(p) > 1
    BY <1>4, <1>12
<1>6. CASE p = <<"Home", "HomeLogin">> /\ t = "Home"
    <2>1. s = "HomeLogin"
        BY <1>2, <1>6
    <2> QED
        BY <1>2, <1>6, <2>1 DEF p, Collections
<1>7. CASE p = <<"Settings", "SettingsLogin">> /\ t = "Settings"
    <2>1. s = "SettingsLogin" /\ p \notin Collections
        BY <1>2, <1>7 DEF Collections
    <2> QED
        BY <1>2, <1>7, <2>1 DEF p
<1>8. CASE p = <<"Settings", "MyCollected">> /\ t = "Settings"
    <2>1. Len(q) = 1
        BY <1>8, <1>12
    <2>4. s = "MyCollected"
        BY <1>2, <1>8
    <2>3. q[1] = p[1]
        BY <1>2, <2>1
    <2>2. q = <<"Settings">>
        BY <1>1, <1>8, <2>1, <2>3
    <2> QED
        BY <1>2, <1>8, <2>2, <2>4 DEF p
<1>9. CASE p = <<"Settings", "MyCollected", "SettingsLogin">> /\ t = "Settings"
    <2>1. Len(q) = 2
        BY <1>9, <1>12
    <2>4. s = "SettingsLogin"
        BY <1>2, <1>9
    <2>3. q[1] = p[1] /\ q[2] = p[2]
        BY <1>2, <2>1
    <2>2. q = <<"Settings", "MyCollected">>
        BY <1>1, <1>9, <2>1, <2>3
    <2> QED
        BY <1>2, <1>9, <2>2, <2>4 DEF p, Collections
<1>10. p # <<"Home">> /\ p # <<"Map">> /\ p # <<"Settings">>
    BY <1>5
<1>11. \/ p = <<"Home", "HomeLogin">> /\ t = "Home"
       \/ p = <<"Settings", "SettingsLogin">> /\ t = "Settings"
       \/ p = <<"Settings", "MyCollected">> /\ t = "Settings"
       \/ p = <<"Settings", "MyCollected", "SettingsLogin">> /\ t = "Settings"
    BY <1>1, <1>3, <1>10, StacksOf DEF Collections
<1> QED
    BY <1>6, <1>7, <1>8, <1>9, <1>11

(* The screen on top is popped.                                            *)
LEMMA Popped ==
    ASSUME NEW t \in Tabs, NEW q \in Stacks(t), Len(q) > 1
    PROVE  LET rest == SubSeq(q, 1, Len(q) - 1) IN
           \/ rest = <<t>>
           \/ rest = <<"Settings", "MyCollected">> /\ t = "Settings" /\ q \in Collections
<1> DEFINE rest == SubSeq(q, 1, Len(q) - 1)
<1>1. q \in Seq(Screens)
    BY StacksOf
<1>2. /\ rest \in Seq(Screens) /\ Len(rest) = Len(q) - 1
      /\ \A i \in 1 .. Len(q) - 1 : rest[i] = q[i]
    BY <1>1
<1> HIDE DEF rest
<1>3. t = "Home" \/ t = "Map" \/ t = "Settings"
    BY DEF Tabs
<1>4. CASE Len(q) = 2 /\ q[1] = t
    <2>1. Len(rest) = 1 /\ rest[1] = t
        BY <1>2, <1>4
    <2>2. rest = <<t>>
        BY <1>2, <2>1
    <2> QED
        BY <2>2 DEF rest
<1>5. CASE q = <<"Settings", "MyCollected", "SettingsLogin">> /\ t = "Settings"
    <2>1. Len(rest) = 2 /\ rest[1] = "Settings" /\ rest[2] = "MyCollected"
        BY <1>2, <1>5
    <2>2. rest = <<"Settings", "MyCollected">>
        BY <1>2, <2>1
    <2> QED
        BY <1>5, <2>2 DEF rest, Collections
<1> QED
    BY <1>3, <1>4, <1>5, StacksOf DEF Collections

(* The screen on top tells the tab, and which stacks may lie below it.     *)
LEMMA TopOf ==
    ASSUME NEW t \in Tabs, NEW q \in Stacks(t)
    PROVE  LET s == q[Len(q)] IN
           /\ s \in Screens
           /\ s \in Tabs => s = t /\ q = <<t>>
           /\ s = "HomeLogin" => t = "Home"
           /\ s = "SettingsLogin" => t = "Settings" /\ q # <<"Settings">>
           /\ s = "MyCollected" => t = "Settings" /\ q # <<"Settings">> /\ q \in Collections
<1>1. t = "Home" \/ t = "Map" \/ t = "Settings"
    BY DEF Tabs
<1>2. CASE q = <<t>>
    BY <1>1, <1>2 DEF Tabs, Screens
<1>3. CASE q = <<"Home", "HomeLogin">> /\ t = "Home"
    BY <1>3 DEF Tabs, Screens
<1>4. CASE q = <<"Settings", "SettingsLogin">> /\ t = "Settings"
    BY <1>4 DEF Tabs, Screens
<1>5. CASE q = <<"Settings", "MyCollected">> /\ t = "Settings"
    BY <1>5 DEF Tabs, Screens, Collections
<1>6. CASE q = <<"Settings", "MyCollected", "SettingsLogin">> /\ t = "Settings"
    BY <1>6 DEF Tabs, Screens, Collections
<1> QED
    BY <1>1, <1>2, <1>3, <1>4, <1>5, <1>6, StacksOf DEF Collections

LEMMA TopOfTab ==
    ASSUME TypeOK, NEW t \in Tabs
    PROVE  /\ stack[t] \in Stacks(t)
           /\ Top(t) \in Screens
           /\ Top(t) \in Tabs => Top(t) = t /\ stack[t] = <<t>>
           /\ Top(t) = "HomeLogin" => t = "Home"
           /\ Top(t) = "SettingsLogin" => t = "Settings" /\ stack[t] # <<"Settings">>
           /\ Top(t) = "MyCollected" =>
                  t = "Settings" /\ stack[t] # <<"Settings">> /\ stack[t] \in Collections
<1> DEFINE q == stack[t]
<1>1. q \in Stacks(t) /\ Top(t) = q[Len(q)]
    BY DEF TypeOK, Top
<1> HIDE DEF q
<1>2. LET s == q[Len(q)] IN
      /\ s \in Screens
      /\ s \in Tabs => s = t /\ q = <<t>>
      /\ s = "HomeLogin" => t = "Home"
      /\ s = "SettingsLogin" => t = "Settings" /\ q # <<"Settings">>
      /\ s = "MyCollected" => t = "Settings" /\ q # <<"Settings">> /\ q \in Collections
    BY <1>1, TopOf
<1> QED
    BY <1>1, <1>2 DEF q

-----------------------------------------------------------------------------
(***************************************************************************)
(* What is drawn.                                                          *)
(***************************************************************************)
Drawn ==
    /\ body \in [Screens -> Themes] /\ bar \in [Tabs -> Themes] /\ tabBar \in Themes

LEMMA ThemeApplied ==
    ASSUME Drawn, NEW t \in Tabs, NEW x \in Themes, ApplyTheme(t, x)
    PROVE  /\ Drawn'
           /\ tabBar' = x
           /\ body'[t] = x /\ \A s \in Screens : s # t => body'[s] = body[s]
           /\ bar'[t] = x /\ \A s \in Tabs : s # t => bar'[s] = bar[s]
<1>1. t \in Screens
    BY DEF Screens
<1> QED
    BY <1>1 DEF Drawn, ApplyTheme

(* The bars are touched for the map, and for the collection with the theme *)
(* it has kept.                                                            *)
LEMMA Appearing ==
    ASSUME Drawn, current \in Themes, theme' \in Themes, NEW s \in Screens, WillAppear(s)
    PROVE  /\ Drawn'
           /\ s = "Map" => /\ body'["Map"] = current
                           /\ bar'["Map"] = current
                           /\ tabBar' = current
           /\ s = "MyCollected" => body'["MyCollected"] = current
           /\ s # "Map" => tabBar' = tabBar
           /\ bar'["Settings"] = IF s = "MyCollected" THEN theme' ELSE bar["Settings"]
<1>1. "Map" \in Tabs /\ "Settings" \in Tabs /\ "MyCollected" \in Screens
    BY DEF Tabs, Screens
<1>2. CASE s = "Map"
    <2>1. ApplyTheme("Map", current)
        BY <1>2 DEF WillAppear
    <2> QED
        BY <1>1, <1>2, <2>1, ThemeApplied
<1>3. CASE s = "MyCollected"
    BY <1>1, <1>3 DEF WillAppear, CollectionWillAppear, Drawn
<1>4. CASE s # "Map" /\ s # "MyCollected"
    BY <1>4 DEF WillAppear, Drawn
<1> QED
    BY <1>2, <1>3, <1>4

LEMMA DrawnType == TypeOK => Drawn
BY DEF TypeOK, Drawn

-----------------------------------------------------------------------------
(***************************************************************************)
(* The invariant.                                                          *)
(***************************************************************************)
(* While something lies on the settings, where alone the theme is changed, *)
(* their bar stays in the theme that was set there, and so does the one a  *)
(* collection on them has kept.                                            *)
SettingsInTheme ==
    /\ stack["Settings"] # <<"Settings">> => bar["Settings"] = current
    /\ stack["Settings"] \in Collections => theme = current

(* The tab bar is out of the theme after a launch only, till the list of   *)
(* cafes has appeared.                                                     *)
TabBarInTheme == tabBar = current \/ (arriving /\ Top(tab) = "Home")

(* What the map and the collection draw is drawn before they appear.       *)
AppearsInTheme ==
    /\ Top(tab) = "MyCollected" => body["MyCollected"] = current
    /\ Top(tab) = "Map" => /\ body["Map"] = current
                           /\ bar["Map"] = current
                           /\ tabBar = current

ThemeInv ==
    /\ TypeOK
    /\ OnShowInTheme
    /\ SettingsInTheme
    /\ TabBarInTheme
    /\ AppearsInTheme

(* What is type-correct, in the parts a step changes.                      *)
LEMMA TypeParts ==
    TypeOK <=>
        /\ current \in Themes /\ isDark \in Themes
        /\ tab \in Tabs
        /\ stack \in [Tabs -> Seq(Screens)] /\ \A t \in Tabs : stack[t] \in Stacks(t)
        /\ arriving \in BOOLEAN
        /\ Drawn /\ theme \in Themes
BY DEF TypeOK, Drawn

LEMMA RootsOnly ==
    ASSUME NEW roots, roots = [t \in Tabs |-> <<t>>]
    PROVE  /\ roots \in [Tabs -> Seq(Screens)] /\ \A t \in Tabs : roots[t] \in Stacks(t)
           /\ roots["Home"] = <<"Home">> /\ roots["Settings"] = <<"Settings">>
           /\ <<"Settings">> \notin Collections
<1>1. \A t \in Tabs : <<t>> \in Stacks(t) /\ <<t>> \in Seq(Screens)
    BY StacksOf
<1>2. "Home" \in Tabs /\ "Settings" \in Tabs
    BY DEF Tabs
<1>3. <<"Settings">> \notin Collections
    BY DEF Collections
<1> QED
    BY <1>1, <1>2, <1>3

LEMMA InitInTheme == Init => ThemeInv
<1> SUFFICES ASSUME Init PROVE ThemeInv
    OBVIOUS
<1>1. /\ stack \in [Tabs -> Seq(Screens)] /\ \A t \in Tabs : stack[t] \in Stacks(t)
      /\ stack["Home"] = <<"Home">> /\ stack["Settings"] = <<"Settings">>
      /\ <<"Settings">> \notin Collections
    BY RootsOnly DEF Init
<1>2. TypeOK
    BY <1>1 DEF Init, TypeOK, Launch, Themes, Tabs
<1>3. Top(tab) = "Home" /\ arriving
    <2>1. tab = "Home" /\ arriving
        BY DEF Init
    <2>2. <<"Home">>[Len(<<"Home">>)] = "Home"
        OBVIOUS
    <2> QED
        BY <1>1, <2>1, <2>2 DEF Top
<1> QED
    BY <1>1, <1>2, <1>3 DEF ThemeInv, OnShowInTheme, SettingsInTheme, TabBarInTheme, AppearsInTheme

LEMMA RelaunchInTheme == ThemeInv /\ Relaunch => ThemeInv'
<1> SUFFICES ASSUME ThemeInv, Relaunch PROVE ThemeInv'
    OBVIOUS
<1>1. /\ stack' \in [Tabs -> Seq(Screens)] /\ \A t \in Tabs : stack'[t] \in Stacks(t)
      /\ stack'["Home"] = <<"Home">> /\ stack'["Settings"] = <<"Settings">>
      /\ <<"Settings">> \notin Collections
    BY RootsOnly DEF Relaunch
<1>2. TypeOK'
    BY <1>1 DEF Relaunch, ThemeInv, TypeOK, Launch, Themes, Tabs
<1>3. Top(tab)' = "Home" /\ arriving'
    <2>1. tab' = "Home" /\ arriving'
        BY DEF Relaunch
    <2>2. <<"Home">>[Len(<<"Home">>)] = "Home"
        OBVIOUS
    <2> QED
        BY <1>1, <2>1, <2>2 DEF Top
<1> QED
    BY <1>1, <1>2, <1>3 DEF ThemeInv, OnShowInTheme, SettingsInTheme, TabBarInTheme, AppearsInTheme

LEMMA ViewDidAppearInTheme == ThemeInv /\ ViewDidAppear => ThemeInv'
<1> SUFFICES ASSUME ThemeInv, ViewDidAppear PROVE ThemeInv'
    OBVIOUS
<1>1. /\ arriving /\ arriving' = FALSE
      /\ UNCHANGED <<current, isDark, tab, stack, theme>>
      /\ Top(tab)' = Top(tab)
    BY DEF ViewDidAppear, Top
<1>2. TypeOK /\ Drawn /\ tab \in Tabs /\ current \in Themes /\ "Settings" \in Tabs
    BY DrawnType DEF ThemeInv, TypeOK, Tabs
<1>3. /\ Top(tab) \in Screens
      /\ Top(tab) \in Tabs => Top(tab) = tab
      /\ Top(tab) = "SettingsLogin" => tab = "Settings" /\ stack[tab] # <<"Settings">>
      /\ Top(tab) = "MyCollected" => tab = "Settings" /\ stack[tab] # <<"Settings">>
    BY <1>2, TopOfTab
<1>4. TypeOK <=> Drawn
    BY <1>2 DEF TypeOK, Drawn
<1>5. TypeOK' <=> Drawn'
    BY <1>1, <1>2 DEF TypeOK, Drawn
<1>6. CASE Top(tab) \in {"Home", "Settings"} /\ ApplyTheme(Top(tab), current)
    <2>1. Top(tab) = tab
        BY <1>3, <1>6 DEF Tabs
    <2>2. /\ Drawn' /\ tabBar' = current /\ body'[tab] = current /\ bar'[tab] = current
          /\ \A s \in Tabs : s # tab => bar'[s] = bar[s]
        BY <1>2, <1>6, <2>1, ThemeApplied
    <2> QED
        BY <1>1, <1>2, <1>5, <1>6, <2>1, <2>2
        DEF ThemeInv, OnShowInTheme, SettingsInTheme, TabBarInTheme, AppearsInTheme
<1>7. CASE /\ Top(tab) \in {"HomeLogin", "SettingsLogin"}
           /\ body' = [body EXCEPT ![Top(tab)] = current]
           /\ UNCHANGED <<bar, tabBar>>
    <2>1. Drawn' /\ body'[Top(tab)] = current
        BY <1>2, <1>3, <1>7 DEF Drawn
    <2>2. tabBar = current
        BY <1>7 DEF ThemeInv, TabBarInTheme
    <2>3. Top(tab) # "HomeLogin" => bar[tab] = current
        BY <1>3, <1>7 DEF ThemeInv, SettingsInTheme
    <2> QED
        BY <1>1, <1>5, <1>7, <2>1, <2>2, <2>3
        DEF ThemeInv, OnShowInTheme, SettingsInTheme, TabBarInTheme, AppearsInTheme
<1>8. CASE Top(tab) \in {"Map", "MyCollected"} /\ UNCHANGED <<body, bar, tabBar>>
    <2>1. body[Top(tab)] = current /\ tabBar = current
        BY <1>8 DEF ThemeInv, TabBarInTheme, AppearsInTheme
    <2>2. bar[tab] = current
        BY <1>3, <1>8 DEF ThemeInv, SettingsInTheme, AppearsInTheme, Tabs
    <2> QED
        BY <1>1, <1>2, <1>5, <1>8, <2>1, <2>2
        DEF ThemeInv, Drawn, OnShowInTheme, SettingsInTheme, TabBarInTheme, AppearsInTheme
<1> QED
    BY <1>6, <1>7, <1>8 DEF ViewDidAppear

LEMMA ReloadInTheme == ThemeInv /\ Reload => ThemeInv'
<1> SUFFICES ASSUME ThemeInv, Reload PROVE ThemeInv'
    OBVIOUS
<1>1. UNCHANGED <<current, isDark, tab, stack, arriving, theme>> /\ Top(tab)' = Top(tab)
    BY DEF Reload, Top
<1>2. TypeOK /\ Drawn /\ current \in Themes
    BY DrawnType DEF ThemeInv, TypeOK
<1>3. PICK t \in {"Home", "Map"} : ApplyTheme(t, current)
    BY DEF Reload
<1>4. /\ t \in Tabs /\ t # "Settings" /\ "Settings" \in Tabs /\ "Map" \in Tabs
      /\ "Map" \in Screens /\ "MyCollected" \in Screens
    BY DEF Tabs, Screens
<1>5. /\ Drawn' /\ tabBar' = current
      /\ body'[t] = current /\ \A s \in Screens : s # t => body'[s] = body[s]
      /\ bar'[t] = current /\ \A s \in Tabs : s # t => bar'[s] = bar[s]
    BY <1>2, <1>3, <1>4, ThemeApplied
<1>6. tab \in Tabs /\ Top(tab) \in Screens
    BY <1>2, TopOfTab DEF TypeOK
<1>7. TypeOK'
    BY <1>1, <1>2, <1>5 DEF TypeOK, Drawn
<1>8. /\ body[Top(tab)] = current => body'[Top(tab)] = current
      /\ bar[tab] = current => bar'[tab] = current
      /\ bar[tab] = current /\ tab = "Map" => bar'["Map"] = current
      /\ body["MyCollected"] = current => body'["MyCollected"] = current
      /\ body["Map"] = current => body'["Map"] = current
      /\ bar["Map"] = current => bar'["Map"] = current
      /\ bar'["Settings"] = bar["Settings"]
    BY <1>4, <1>5, <1>6
<1> QED
    BY <1>1, <1>5, <1>7, <1>8
    DEF ThemeInv, OnShowInTheme, SettingsInTheme, TabBarInTheme, AppearsInTheme

LEMMA SelectTabInTheme ==
    ASSUME ThemeInv, NEW t \in Tabs, SelectTab(t)
    PROVE  ThemeInv'
<1>1. /\ ~arriving /\ arriving' /\ arriving' \in BOOLEAN /\ tab' = t
      /\ UNCHANGED <<current, isDark, stack, theme>>
      /\ WillAppear(Top(t)) /\ Top(tab)' = Top(t)
    BY DEF SelectTab, Top
<1>2. /\ TypeOK /\ Drawn /\ current \in Themes /\ theme' \in Themes
      /\ tabBar = current
    BY <1>1, DrawnType DEF ThemeInv, TypeOK, OnShowInTheme
<1>3. Top(t) \in Screens /\ (Top(t) = "MyCollected" => stack["Settings"] \in Collections)
    BY <1>2, TopOfTab
<1>4. /\ Drawn'
      /\ Top(t) = "Map" => /\ body'["Map"] = current
                           /\ bar'["Map"] = current
                           /\ tabBar' = current
      /\ Top(t) = "MyCollected" => body'["MyCollected"] = current
      /\ Top(t) # "Map" => tabBar' = tabBar
      /\ bar'["Settings"] = IF Top(t) = "MyCollected" THEN theme' ELSE bar["Settings"]
    BY <1>1, <1>2, <1>3, Appearing
<1>5. TypeOK'
    BY <1>1, <1>2, <1>4 DEF TypeOK, Drawn
<1>6. SettingsInTheme'
    BY <1>1, <1>3, <1>4 DEF ThemeInv, SettingsInTheme
<1> QED
    BY <1>1, <1>2, <1>4, <1>5, <1>6
    DEF ThemeInv, OnShowInTheme, TabBarInTheme, AppearsInTheme

LEMMA PushInTheme ==
    ASSUME ThemeInv, NEW s \in Screens, Push(s)
    PROVE  ThemeInv'
<1> DEFINE q == stack[tab]
           p == Append(q, s)
<1>1. /\ ~arriving /\ arriving' /\ arriving' \in BOOLEAN
      /\ UNCHANGED <<current, isDark, tab>>
      /\ p \in Stacks(tab) /\ stack' = [stack EXCEPT ![tab] = p]
      /\ theme' = IF s = "MyCollected" THEN current ELSE theme
      /\ WillAppear(s)
    BY DEF Push
<1>2. /\ TypeOK /\ Drawn /\ tab \in Tabs /\ current \in Themes /\ theme' \in Themes
      /\ tabBar = current /\ (Top(tab) # "HomeLogin" => bar[tab] = current)
      /\ q \in Stacks(tab) /\ "Settings" \in Tabs
    BY <1>1, DrawnType DEF ThemeInv, TypeOK, OnShowInTheme, Tabs
<1>3. p \in Seq(Screens)
    BY <1>1, <1>2, StacksOf
<1> HIDE DEF q
<1>4. /\ p[Len(p)] = s
      /\ tab # "Map" /\ s \in {"HomeLogin", "SettingsLogin", "MyCollected"}
      /\ s = "HomeLogin" <=> tab = "Home"
      /\ p \in Collections => s = "MyCollected" \/ q \in Collections
    BY <1>1, <1>2, Pushed
<1> HIDE DEF p
<1>5. /\ stack' \in [Tabs -> Seq(Screens)] /\ \A t \in Tabs : stack'[t] \in Stacks(t)
      /\ stack'[tab] = p /\ (tab # "Settings" => stack'["Settings"] = stack["Settings"])
      /\ Top(tab)' = s
    BY <1>1, <1>2, <1>3, <1>4 DEF TypeOK, Top
<1>6. /\ Drawn'
      /\ s = "MyCollected" => body'["MyCollected"] = current
      /\ tabBar' = tabBar
      /\ bar'["Settings"] = IF s = "MyCollected" THEN theme' ELSE bar["Settings"]
    BY <1>1, <1>2, <1>4, Appearing
<1>7. TypeOK'
    BY <1>1, <1>2, <1>5, <1>6 DEF TypeOK, Drawn
<1>8. SettingsInTheme'
    <2>1. CASE tab = "Settings"
        <3>1. Top(tab) # "HomeLogin" /\ bar["Settings"] = current
            BY <1>2, <2>1, TopOfTab
        <3>2. bar'["Settings"] = current'
            BY <1>1, <1>6, <3>1
        <3>3. p \in Collections => theme' = current'
            BY <1>1, <1>4, <2>1 DEF ThemeInv, SettingsInTheme, q
        <3> QED
            BY <1>5, <2>1, <3>2, <3>3 DEF SettingsInTheme
    <2>2. CASE tab # "Settings"
        <3>1. s = "HomeLogin"
            BY <1>2, <1>4, <2>2 DEF Tabs
        <3> QED
            BY <1>1, <1>5, <1>6, <2>2, <3>1 DEF ThemeInv, SettingsInTheme
    <2> QED
        BY <2>1, <2>2
<1> QED
    BY <1>1, <1>2, <1>4, <1>5, <1>6, <1>7, <1>8
    DEF ThemeInv, OnShowInTheme, TabBarInTheme, AppearsInTheme

LEMMA PopInTheme == ThemeInv /\ Pop => ThemeInv'
<1> SUFFICES ASSUME ThemeInv, Pop PROVE ThemeInv'
    OBVIOUS
<1> DEFINE q == stack[tab]
           rest == SubSeq(q, 1, Len(q) - 1)
           s == rest[Len(rest)]
<1>1. /\ ~arriving /\ arriving' /\ arriving' \in BOOLEAN
      /\ UNCHANGED <<current, isDark, tab, theme>>
      /\ Len(q) > 1 /\ stack' = [stack EXCEPT ![tab] = rest]
    BY DEF Pop
<1>2. /\ TypeOK /\ Drawn /\ tab \in Tabs /\ current \in Themes /\ theme' \in Themes
      /\ tabBar = current
      /\ q \in Stacks(tab) /\ "Settings" \in Tabs
    BY <1>1, DrawnType DEF ThemeInv, TypeOK, OnShowInTheme, Tabs
<1>3. stack'[tab] = rest /\ (tab # "Settings" => stack'["Settings"] = stack["Settings"])
    BY <1>1, <1>2 DEF TypeOK
<1>4. WillAppear(s) /\ Top(tab)' = s
    BY <1>1, <1>3 DEF Pop, Top
<1> HIDE DEF q
<1>5. \/ rest = <<tab>>
      \/ rest = <<"Settings", "MyCollected">> /\ tab = "Settings" /\ q \in Collections
    BY <1>1, <1>2, Popped
<1> HIDE DEF rest
<1>6. rest \in Stacks(tab) /\ rest \in Seq(Screens)
    <2>1. <<tab>> \in Stacks(tab) /\ <<"Settings", "MyCollected">> \in Stacks("Settings")
        BY <1>2, StacksOf DEF Collections
    <2> QED
        BY <1>2, <1>5, <2>1, StacksOf
<1>7. /\ s \in Screens
      /\ s = "MyCollected" => tab = "Settings" /\ q \in Collections
      /\ rest = <<"Settings">> \/ q \in Collections \/ tab # "Settings"
    <2>1. CASE rest = <<tab>>
        <3>1. s = tab /\ tab \in Screens /\ tab # "MyCollected"
            BY <1>2, <2>1 DEF Tabs, Screens
        <3> QED
            BY <2>1, <3>1
    <2>2. CASE rest = <<"Settings", "MyCollected">> /\ tab = "Settings" /\ q \in Collections
        <3>1. s = "MyCollected" /\ s \in Screens
            BY <2>2 DEF Screens
        <3> QED
            BY <2>2, <3>1
    <2> QED
        BY <1>5, <2>1, <2>2
<1> HIDE DEF s
<1>8. /\ Drawn'
      /\ s = "Map" => /\ body'["Map"] = current
                      /\ bar'["Map"] = current
                      /\ tabBar' = current
      /\ s = "MyCollected" => body'["MyCollected"] = current
      /\ s # "Map" => tabBar' = tabBar
      /\ bar'["Settings"] = IF s = "MyCollected" THEN theme' ELSE bar["Settings"]
    BY <1>1, <1>2, <1>4, <1>7, Appearing
<1>9. stack' \in [Tabs -> Seq(Screens)] /\ \A t \in Tabs : stack'[t] \in Stacks(t)
    BY <1>1, <1>2, <1>6 DEF TypeOK
<1>10. TypeOK'
    BY <1>1, <1>2, <1>8, <1>9 DEF TypeOK, Drawn
<1>11. SettingsInTheme'
    <2>1. CASE tab = "Settings" /\ q \in Collections
        <3>1. q # <<"Settings">>
            BY <2>1 DEF Collections
        <3>2. bar["Settings"] = current /\ theme = current
            BY <2>1, <3>1 DEF ThemeInv, SettingsInTheme, q
        <3> QED
            BY <1>1, <1>8, <3>2 DEF SettingsInTheme
    <2>2. CASE tab = "Settings" /\ rest = <<"Settings">>
        BY <1>3, <2>2 DEF SettingsInTheme, Collections
    <2>3. CASE tab # "Settings"
        BY <1>1, <1>3, <1>7, <1>8, <2>3 DEF ThemeInv, SettingsInTheme
    <2> QED
        BY <1>7, <2>1, <2>2, <2>3
<1> QED
    BY <1>1, <1>2, <1>4, <1>8, <1>10, <1>11
    DEF ThemeInv, OnShowInTheme, TabBarInTheme, AppearsInTheme

LEMMA ThemeChangedInTheme ==
    ASSUME ThemeInv, NEW x \in Themes, ThemeChanged(x)
    PROVE  ThemeInv'
<1>1. /\ ~arriving /\ Top(tab) = "Settings"
      /\ current' = x /\ isDark' = x /\ ApplyTheme("Settings", x)
      /\ UNCHANGED <<tab, stack, arriving, theme>> /\ Top(tab)' = Top(tab)
    BY DEF ThemeChanged, Top
<1>2. TypeOK /\ Drawn /\ tab \in Tabs /\ "Settings" \in Tabs
    BY DrawnType DEF ThemeInv, TypeOK, Tabs
<1>3. tab = "Settings" /\ stack["Settings"] = <<"Settings">>
    BY <1>1, <1>2, TopOfTab
<1>4. Drawn' /\ tabBar' = x /\ body'["Settings"] = x /\ bar'["Settings"] = x
    BY <1>1, <1>2, ThemeApplied
<1>5. TypeOK'
    BY <1>1, <1>2, <1>4 DEF TypeOK, Drawn
<1>6. <<"Settings">> \notin Collections
    BY DEF Collections
<1> QED
    BY <1>1, <1>3, <1>4, <1>5, <1>6
    DEF ThemeInv, OnShowInTheme, SettingsInTheme, TabBarInTheme, AppearsInTheme

LEMMA NextInTheme == ThemeInv /\ [Next]_vars => ThemeInv'
<1> SUFFICES ASSUME ThemeInv, [Next]_vars PROVE ThemeInv'
    OBVIOUS
<1>1. CASE UNCHANGED vars
    BY <1>1 DEF vars, ThemeInv, TypeOK, OnShowInTheme, SettingsInTheme, TabBarInTheme,
                AppearsInTheme, Top
<1> QED
    BY <1>1, ViewDidAppearInTheme, ReloadInTheme, PopInTheme, RelaunchInTheme,
       SelectTabInTheme, PushInTheme, ThemeChangedInTheme DEF Next

-----------------------------------------------------------------------------
(***************************************************************************)
(* The theorems.                                                           *)
(***************************************************************************)
LEMMA AlwaysInTheme == Spec => []ThemeInv
BY InitInTheme, NextInTheme, PTL DEF Spec

(* The stacks are those of the navigation and all that is drawn is in one  *)
(* of the two themes.                                                      *)
THEOREM ThemeTypeCorrect == Spec => []TypeOK
<1>1. ThemeInv => TypeOK
    BY DEF ThemeInv
<1> QED
    BY <1>1, AlwaysInTheme, PTL

(* What is on show has been drawn in the current theme, the screen as well *)
(* as the bars it shares with screens that were there before it.           *)
THEOREM ShownInTheme == Spec => []OnShowInTheme
<1>1. ThemeInv => OnShowInTheme
    BY DEF ThemeInv
<1> QED
    BY <1>1, AlwaysInTheme, PTL

(* The theme that is stored is the current one: what a launch takes up.    *)
StoredTheme == isDark = current

LEMMA AlwaysStored == Spec => []StoredTheme
<1>1. Init => StoredTheme
    BY DEF Init, Launch, StoredTheme
<1>2. StoredTheme /\ [Next]_vars => StoredTheme'
    BY DEF StoredTheme, Next, vars, ViewDidAppear, Reload, Pop, Relaunch, Launch,
           SelectTab, Push, ThemeChanged
<1> QED
    BY <1>1, <1>2, PTL DEF Spec

(* Nothing changes the theme but the switch, while the settings are on top *)
(* and stay there; a relaunch takes up the theme there was.                *)
THEOREM SwitchAloneChangesTheme == Spec => OnlySwitchChangesTheme
<1> DEFINE Switched == current' # current => Top(tab) = "Settings" /\ stack' = stack
<1>1. StoredTheme /\ [Next]_vars => [Switched]_vars
    BY DEF StoredTheme, Next, vars, ViewDidAppear, Reload, Pop, Relaunch, Launch,
           SelectTab, Push, ThemeChanged
<1> QED
    BY <1>1, AlwaysStored, PTL DEF Spec, OnlySwitchChangesTheme
=============================================================================
