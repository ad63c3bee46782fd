# WorkingCafe in TLA+

Models, checks and proofs about WorkingCafe, an iOS app that lists the cafes of a
Taiwanese city (from cafenomad.tw), shows them on a map, and lets a user who is
logged in collect them in Firestore. The app is `src/WorkingCafe/WorkingCafe/`
(Swift, about 3250 lines); the rest of the tree is vendored pods, of which only the
Firestore client and FirebaseAuth matter here, and only where the app depends on the
order in which they do things.

Everything in the app runs on the main queue, one callback or touch at a time,
with one exception (the map). Its hard behaviour lies *between* those callbacks:
a read is asked for one user and answered for another, an answer replaces an array
0.3 seconds before the table hears of it, a flag follows the user through a
notification, a write waits in a queue through relaunches and is sent again when its
response is lost.

## Inventory

| Component (source) | State | Operations | Meets | Hard | Correct when | Here |
|---|---|---|---|---|---|---|
| Favourites (`FavoriteManager`, collect buttons of `HomeViewController` and `MyCollectedViewController`) | documents of `FavoriteCafes`, reads and callbacks under way, the button, the list of the collection | `addFavoriteCafe`, `removeFavoriteCafe`, `isCafeCollected`, `getCafes`, `didClickCollectButton` | Firestore, FirebaseAuth, `isLogin` | read-then-write across callbacks, two devices, change of user, no connection, relaunch | a tap asks for the opposite of what its user wanted and changes one favourite of that user; nobody is listed twice; the button tells the truth; nothing is lost without a word | `Favorites`, `FavoriteStore` |
| Firestore client (pod) | cached documents, queue of writes per user, the stream of writes and the responses on it | write, send, get, query, acknowledge, reject, change of user | the server | latency compensation, precondition of updates, writes sent again | as above; a write joins the queue of its user | part of `Favorites` |
| List of a city (`HomeViewController`, `RequestManager`, `SVProgressHUD`) | `city`, `cafes`, `searchResult`, the rows drawn, requests, timers, refresh control, HUD | choose a city, refresh, search, sort, scroll, tap | cafenomad.tw | requests overlap, rows and arrays part for 0.3 s, timed dismissal of the HUD | rows show what a touch acts on; the list is of one city; HUD and refresh control go away | `CafeList` |
| Login (`LoginManager`, `AppDelegate`, `LoginViewController`, the login row of `SettingsViewController`, `MainTabBarController`) | `isLogin`, `delegate`, `presentingViewController`, `signInSilently`, the provider kept, the tabs and their stacks, the row | log in by mail, Google, Apple; sign up; log out; relaunch | FirebaseAuth, GIDSignIn | late answers, a weak delegate, notification of the user, relaunch | `isLogin` follows the user; an answer finds a screen; the row does not lie | `Session`, `AuthState` |
| Map (`MapViewController`) | `annotations`, `cafes` | `getCafes`, `showCafes` | cafenomad.tw, the global queue | unsynchronised arrays on two queues | the map ends up with the annotations of one list, that of the city chosen | `CafeMap` |
| Cell (`CafeTableViewCell`) | `cafe`, `collectButton.isSelected` | `cafe.didSet`, reuse | `FavoriteManager` | a reused cell and answers of its former cafe | the button is the one of the cafe shown; a tap reaches the cafe it was made on (not within 0.3 s of an answer) | `CafeCell` |
| Theme (`Theme/*`, `SwitchTableViewCell`, `applyTheme` of each screen) | `Theme.current`, `kIsDarkTheme` | switch | every screen | a screen below another one keeps old colours | a screen on show is in the theme chosen | `Theme` |
| Models (`Cafe`, `TaiwanCity`, `User`) | data | `init?(dictionary:)` | | | every document parses | question `whole` of `Favorites` |
| `LocalCollection` | | | | | | dead code, not modelled |
| Extensions, helpers, generated and vendored code, empty test templates | | | | | | not modelled |

`PROJECT.json` lists under `hazards` the lines at which this goes wrong most easily,
each with the property that covers it or the reason why none does.

## Modules

```
FavoriteStore   what the collection promises          AuthState   what isLogin promises
      ^ refined by                                          ^ refined by
Favorites  --- MCFavorites, Favorites_proofs          Session --- MCSession, Session_proofs
      |        --- MCFavorites_proofs (refines AuthState, per device)
      |        --- FavoritesStore_proofs (refines FavoriteStore; buttons and store)
CafeCell   --- MCCafeCell, CafeCell_proofs            the buttons a tap of Favorites comes from
CafeList   --- MCCafeList, CafeList_proofs
CafeMap    --- MCCafeMap, CafeMap_proofs
Theme      --- Theme_proofs
```

`MCFavorites_proofs` and `FavoritesStore_proofs` extend `Favorites_proofs`, which holds the lemmas about documents, queues,
responses and views and the theorems that need no abstract specification.

### Favorites

One device runs one copy of the app. `mainQueue[d]` is what was posted to its main
queue: answers of `getDocument`, and notifications that the user changed. They share
a queue because their order matters.

| Module | Code |
|---|---|
| `TapInHome`, `TapInMyCollected` | `didClickCollectButton` up to `isCafeCollected`, which captures `currentUser` |
| `CheckReply` | its completion: `removeFavoriteCafe` or `addFavoriteCafe` for the user *of this moment*, and the button turned over |
| `AddReply`, `AddWrite` | the closure of `addFavoriteCafe`: `updateData(arrayUnion)`, or `setData` of the tapped cafe with the uid appended |
| `GetCafes`, `GetCafesReply` | `MyCollectedViewController` is pushed; its list comes |
| `AnswerReads`, `CafeCellRead`, `Seen`, `View`, `Replay` | `DocumentReference::GetDocument` and the local view: the server's document, or the cached one without a connection, under the writes still queued |
| `Enqueue`, `Accepts`, `Apply` | the queue of writes of the user Firestore works for, the precondition of an update, a write applied to a document |
| `Commit` | the server performs the next write of the stream, or rejects it, and responds |
| `Acknowledge` | the response arrives: the client drops the write, and applies it to a cached document that is older |
| `Notice` | the client is sent a document: the writes the server has taken are in it |
| `EndStream` | the stream of writes ends (no connection, process death, change of user): the responses on it are lost, their writes are sent again |
| `SignIn`, `SignOut`, `AuthStateDidChange` | `currentUser` changes at once, `fsUser` and `isLogin` when the notification is taken up |
| `Relaunch`, `Disconnect`, `Reconnect` | process death, network |

`users` of a document is an array in the code. Nothing in the app looks at its order,
so it is the number of copies of each uid. The client's `arrayRemove` takes one copy
away (`ArrayTransform::Rep::Apply`) and the server's all of them, and the model keeps
that difference. `View` is the replay of a queue of writes on a document in closed form, as the last `setData`, the number of
removes and the place of the last union decide it. Reads of one document share one Firestore
target, so they are answered together and in order.

`results[d]` holds the server's responses to the oldest writes of the queue, in order, on the present stream of writes. `Commit`
and `Acknowledge` are two steps, and anything may happen in between: other writes are made, documents are read, another device
writes, or the stream ends. Nothing tells the server that it has performed a write before (the client resumes no stream), so a
write whose response was lost is performed again: delivery is *at least once*, in order. A response is `"taken"`, `"seen"` when the
client was sent the document after the write (its version is then not older than the write's, and the write is not
applied to the cache once more), or `"rejected"`, after which the stream answers nothing else until the write is dropped. The client
sends ten writes ahead at most; the model has no such limit, which only allows more.

### CafeList

`cafes`, `searchResult` and `searching` decide `Data`, what the table's data source
would return now; `shown` is what was last drawn. `Answer` is the success branch of
`baseRequest` with the completion of `getCafes`: it replaces `cafes`, stops the refresh
control, and starts two timers (`Reload` after 0.3 s, `HudDismiss` after 0.5 s; showing the HUD again does not stop a dismissal). `Fail` is the
other branch, which calls no completion; its dismissal of the HUD has no delay but goes through the main queue too. A row out of range, and `scrollToRow` of an empty
table, set `crashed`, after which nothing happens: these runs therefore do not check for
deadlock. `Filtered` is the filter of a search in closed form, since the library's `SelectSeq` is recursive and nothing
could be proved about it; the assumption `FilteredSelects` of `MCCafeList` has TLC compare the two for every
short sequence and every set. `SortCafes` allows any order of equal ratings. The alert after a failure would block touches
for a while; leaving it out only allows more behaviours.

### Session

`attempts[k]` counts the attempts of each kind under way: at FirebaseAuth
(`Requests`) or as a Google or Apple sheet over the app (`Sheets`). `mainQueue` holds answers and
notifications. A tab's stack is its root with a `LoginViewController` on it or not. `delegate` is
weak: `PopLogin` makes it `"nobody"` when no stack and no `presentingViewController` holds the
screen it refers to. `LogoutRow` is `forceLogout` with `clearAccountValue` and the alert of
`logoutSuccess`; a token taken back (`Revoke`) signs out without any screen being told. An alert is on screen
only after the main queue has run what was posted before it, so it is dismissed when no notification waits.

### CafeCell

A user is logged in. `Draw(k, c)` gives cell k the cafe c: `cafe.didSet` asks `isCafeCollected`, whose
answer (`DrawReply`) sets the button of the cell, whatever that shows by then; `prepareForReuse` resets
nothing. `Tap` and `TapReply` are `didClickCollectButton`, which keeps the cafe and the button of the tap, and `AddReply`
is the closure of `addFavoriteCafe`. The cafe of a tap is not the one the cell shows but the one the array holds at its row,
`data[k]`: the two differ between the answer of a list (`NewList`) and the reload that draws it 0.3 s later, and the tap then
acts on a cafe that may not be on screen. (A row that is gone from the array traps; that is in `CafeList`.) Cells of the list and of the collection are cells alike, so
two of them may show one cafe. What `Favorites` models at length (documents, accounts,
connections) is reduced here to the set `collected` that this user's device sees. `Answer` posts the
answers of one document together and in order, those of two documents in any order. `taps`, `crowded` and `settled` are history
variables: they remember what the properties are about and no guard but the bound on taps reads them.

### CafeMap

`ChooseCity`, `Answer` and `Fail` are the filter and `getCafes`; an answer replaces `cafes` and posts a block of `showCafes`
to the global queue, which is concurrent. Each block is a process whose steps are its accesses of shared arrays: `Take`
(`tempAnno = annotations`), `Clear` (`removeAll`), `Snapshot` (the loop copies `cafes`),
`AppendAnnotation` (a turn of it), `HandOver` (`DispatchQueue.main.async`); `Show` is the block of the
main queue that removes `tempAnno` from the map and adds `annotations`. `annotations` and `cafes` are Swift arrays that nothing guards.
Where two accesses may meet and one of them writes (`ConflictOnAnnotations`, `ConflictOnCafes`), `Collide`
chooses an outcome: a trap, an element lost, or an element back from a buffer that was being replaced.
`overlap`, `overtaken` and `piled` are history variables: they remember what the properties are conditional on and
no guard reads them.

### Theme

`current` is `Theme.current`, `isDark` what `UserDefaults` keeps, `body[s]` and `bar[t]` the theme each screen and each
navigation bar was last drawn in. `WillAppear` and `ViewDidAppear` are `viewWillAppear` and `viewDidAppear` of the
screen that is shown: the list and the settings draw after, the map before, a login only itself, and the collection
draws its bar in the theme it kept when it was made. `Reload` draws the list 0.3 s after an answer, also when
another tab is on show. `ThemeChanged` is the switch with `switchTheme`, `Launch` is `AppDelegate.applyTheme`.

### Abstract specifications

`FavoriteStore`: at each writer a user is signed in, who asks for the opposite of what he last wanted of a cafe (by his own
last request for it, or else by the store); requests are performed in the order they were made, each changing one favourite of
that user, and all that are not confirmed may be sent, and performed, once more. Nobody is signed in while requests wait.
`AuthState`: the user changes, each change is announced later, and the flag is set
from the user of the moment an announcement is taken up.

## Runs

| Run | Instance | Shows |
|---|---|---|
| `Favorites_switching` | 1 device, 2 accounts, 3 taps, 3 sign-ins or -outs, connection and process may fail | `TypeOK`, `DocumentsParse`, `WritesJoinTheirQueue`, `RefinesAuthState` |
| `Favorites_devices` | 2 devices of 1 or 2 accounts, 3 taps, no document yet, connections may fail | `UpdatesFindTheirDocument`, `NoDuplicates` |
| `Favorites_store` | 2 devices with an account each, 4 taps, document there, connections hold, relaunches | `RefinesStore`, `ButtonMatchesStore` |
| `Favorites_alone` | 1 device with an account, 4 taps, 2 cafes of which one has a document, connection and process may fail | `RefinesStore` |
| `Favorites_button` | 1 device, 2 taps that may overlap, 2 cafes of which one has a document, fairness | `ButtonMatchesStore`, `TapsAreAnswered`, `WritesReachTheServer` |
| `CafeList_rows` | 3 cities with 2, 1 and 0 cafes, 4 requests and timers under way, any order, failures, fairness | `TypeOK`, `RowsCatchUp`, `TrapsOnlyBeforeReload`, `OneCityAtATime`, `HudIsHidden`, `SearchKeepsList`, `HudEnds` |
| `CafeList_settles` | the same, answered in order, no failure | `SettlesOnCity`, `RefreshEnds` |
| `Session_revoked` | 2 accounts, 2 tabs, 3 attempts, 3 changes of user, a token may be taken back, fairness | `TypeOK`, `AnswersFindADelegate`, `RefinesAuthState`, `UserIsNoticed` |
| `Session_settings` | the same, 4 changes, no token taken back | `RowNeverOffersLogoutInVain` |
| `CafeCell_reuse` | 2 cells, 2 cafes, 2 reads under way and 2 taps per cafe, lists that change before they are drawn, cells and cafes symmetric | `TypeOK`, `SettledCellsAreRight`, `TapsToggle` |
| `CafeMap_blocks` | 3 cities of 2, 1 and 1 cafe (one without a place), 2 answers, 2 requests at once, any order, failures, races, fairness | `TypeOK`, `MapIsLastAnswer`, `MapIsOfCity`, `AllIsShown`, `RacesArePiled`, `AnswersAreShown` |
| `Theme_screens` | everything: 2 themes, 3 tabs, their 7 stacks | `TypeOK`, `OnShowInTheme`, `OnlySwitchChangesTheme` |

Each property has a fault in `PROJECT.json` (`mutants`) that makes its run fail: an operator
`X_Fault` next to `X` in the module.

**What the conditions of the runs say.** Some properties hold only where a run says so, and
that is the information:

- `RefinesStore` needs taps that wait for one another, one user on each device, and either a device that is alone or documents that exist and connections that hold.
  Two devices that both find no document both `setData`, and the second wipes out the favourite of the first; so does one
  that takes a failed read for a missing document. A tap answered after another sign-in writes for the new user what the former
  one had collected. And two devices of one account each know only what they read: the second may ask for what the first already has.
- `WritesJoinTheirQueue` leaves out a write made while the change of the user is still to be taken up by Firestore: it
  joins the queue of the user before, is sent only when that user is back, and shows in nobody else's view.
- `WritesReachTheServer` needs a device that stays connected and an app that is not killed over and over: each relaunch
  ends the stream before the response comes.
- `UpdatesFindTheirDocument` is checked with one change of the user per device. If the user is replaced between the
  `getDocument` of `addFavoriteCafe` and its answer, the update can join a queue whose `setData` is in
  another, and the server drops it with NOT_FOUND.
- `ButtonMatchesStore` holds for two overlapping taps on one device. At the third, the read of an
  `addFavoriteCafe` can be answered behind a `removeFavoriteCafe` that was asked for later.
- `SettlesOnCity` needs answers in order and no failure. Nothing in `getCafes` ensures either:
  requests are neither cancelled nor compared with the city.
- `OneCityAtATime` says at every moment that the list, and what a search found in it, is of one city; of the rows only when no answer waits
  for its reload. In the 0.3 s before it a scroll draws rows of the new city among those of the former.
- `RefreshEnds` needs requests that do not fail; `HudEnds` does not.
- `RowNeverOffersLogoutInVain` needs that nobody takes a token back, and its converse does not hold: a
  sign-in that is answered while the settings are on screen leaves a row that says "login" and logs out.
- `MapIsLastAnswer` and `MapIsOfCity` need that no two blocks of `showCafes` were ever at work at once. Two that overlap take the
  same `tempAnno` or none, and then annotations of an earlier city stay on the map for ever; two
  that write at once may also trap. `RacesArePiled` says when this can begin: a second answer
  before the first is on the map. `MapIsOfCity` needs answers in order and no failure too, as `SettlesOnCity` does.
- `SettledCellsAreRight` is about cells drawn while nothing else was under way for the cell or its cafe, until
  their cafe is tapped in another cell, or a tap on them finds another cafe in the array. A cell that was reused too early may show the answer of its former cafe until it is drawn
  again. `TapsToggle` is about cafes that were not tapped again before the tap was through (two taps that both
  read "not collected" both collect), and not in the 0.3 s in which the array holds another cafe at the row: the tap then
  turns that one over, and neither of the two cafes is what its taps say.
- `OnShowInTheme` leaves out a login on the list of cafes: when the theme is changed in the settings
  meanwhile, its navigation bar keeps the old one.

The repository states none of these as facts, so they are no findings; they are the limits
within which the code does what it appears to promise.

**Bounds.** `MaxTaps`, `MaxUnanswered`, `MaxSwitches` (Favorites), `MaxOutstanding` (CafeList), `MaxAttempts`,
`MaxSwitches` (Session), `MaxUnderWay`, `MaxTaps` (CafeCell), `MaxShows`, `MaxRequests` (CafeMap); Theme has none. They bound the inputs, in guards, and nothing
else. Two devices and one document suffice for every
interference between devices, since documents are independent of each other and
mutations name one document; `Favorites_alone` and `Favorites_button` have two, so that responses on one stream are for different documents. Three taps give a tap in each of the three phases
check, add, write. Three sign-ins and -outs give the replaced user, the one who signs out, and the one who comes back.
Four requests and timers give two requests with the timers of both under way. Two lists of different length are the least for
a row that is out of range. Two cells and two cafes give every reuse: the
former cafe and the one shown now, the cell tapped and another one of the same cafe. Two answers give
two blocks, and a collision needs no more than two.

**Fairness.** `FairSpec` of Favorites: the main queue runs what is posted; Firestore answers every
get and query, from the cache when the server stays away; a device that stays connected sends its
writes (`Commit`) and takes their responses (`Acknowledge`). CafeList: Alamofire calls back for every request, as sessions time out, and timers fire. Session: the
main queue runs. CafeMap: both queues run what is posted, each block of the global one on a thread. No user action, sign-in, answer of an identity provider or reconnection is fair.

## Proofs

Each theorem holds for every value of the constants that the named assumptions allow.

| Theorem | Along |
|---|---|
| `Favorites_proofs!TypeCorrect` | `TypeOK` is inductive by itself; the work is in `Apply`, `Replay` and `View`, which must stay within `Document` |
| `Favorites_proofs!DocumentsAlwaysParse` | `WholeInv`: every document of the server *and of every cache* is whole. The caches are needed because a read, and the cache itself, may take a document from there; an update is accepted only where a document is; and a view starts from a whole document or from a `setData` |
| `CafeList_proofs!RowsAlwaysCatchUp`, `TrapsAreConfined`, `HudIsAlwaysHidden` | `ListInv`: the three properties and the types of the counters. Each is inductive given those; no more is needed because each says itself what is still to come (a reload, a request, a dismissal) |
| `Session_proofs!SessionTypeCorrect` | `TypeOK` is inductive by itself |
| `Session_proofs!SessionRefinesAuthState` | each action maps to a step of `AuthState` or a stutter; the lemmas on `Auths`, the positions of the notifications in a queue, say how appending and taking away change their number |
| `Session_proofs!LoginFlagSettles` | `FlagSettles` of `AuthState` under the refinement: the last notification is taken up with the user of that moment |
| `Session_proofs!RowIsNeverInVain` | assumes `~Revocable`; `RowInv` adds that a flag still up after the user has gone is only seen under the alert that follows the logout, and the alert is dismissed when `FlagSettles` applies |
| `Session_proofs!AnswersAlwaysFindADelegate` | `DelegateInv` adds that a delegate on a stack is the `presentingViewController` too, so that popping it does not free it |
| `CafeList_proofs!ListTypeCorrect` | `TypeOK` is inductive by itself; the lemmas on `Filtered` say that it is a sequence of what it was given |
| `CafeList_proofs!ArraysAreOfOneCity` | `CityInv`: `TypeOK`, and `cafes` and what a search has found are each of one city, though not always of the same, as an answer replaces the one and leaves the other; filtering and sorting add no cafe. When no answer waits for its reload the rows are the data of the table (`RowsCatchUp`) |
| `CafeList_proofs!SearchAlwaysKeepsList` | with the counters of `ListInv`: only an answer replaces the list, and it uses up a request; a sort during a search sorts the result |
| `CafeList_proofs!ListSettlesOnCity` | assumes answers in order and no failure; `SettleInv`: the last request is of the city on the label, and with none left `cafes` is a permutation of its list (each cafe once, which is why a list must not repeat one) |
| `MCFavorites_proofs!FavoritesRefinesAuthState` | for an arbitrary device `d1`: its own steps map to steps of `AuthState`, a relaunch to its restart, those of other devices to stutters; with `TypeCorrect` |
| `Favorites_proofs!WritesAlwaysJoinTheirQueue` | `NotesInv`: Firestore works for the user there is, or the last notification of the main queue announces this user. A write is only made by a callback, and a callback is not a notification, so what it says of the queue holds at the write |
| `Favorites_proofs!UpdatesAlwaysFindTheirDocument`, `NobodyIsListedTwice` | assume `MaxSwitches <= 1`, the condition of `Favorites_devices`; `UpdatesInv`: before the sign-in a device asks and writes nothing, and after it only its user writes, once Firestore has taken the user up (`UserInv`); a cached document is on the server (`CacheInv`); what each response under way says of the documents of the server and of the cache is true (`ResultsInv`), so that a write that is dropped leaves its document behind; a row, and a read that keeps users, is of a cafe whose document the device holds in its cache or in its own queue, so its answer is not "absent"; an answer that is not "absent" is of a document that is on the server or in that queue (`QueuesInv`). Then an update is never queued without a document, and a `setData` sets one user once |
| `FavoritesStore_proofs!ButtonsMatchTheStore` | assumes `MaxSwitches <= 1`, `MaxUnanswered <= 1` and of any two devices that every cafe has its document, connections hold and they share no account (the condition of `Favorites_store`; nothing of the kind for one device). `ButtonsInv`, with `UpdatesInv`: only the device writes for its accounts (`Apart`), so its cache and the server list them alike where no write waits, and where the last write on a cafe was performed both are what it says (`AgreedOn`; `AnswersInv`: nothing is rejected, and a document that holds a write holds those before it); its view of its user then changes with the writes it makes and with nothing else, a stream that ends and writes that are performed again included (`ListedInv`); and per cafe (`TapInv`) at most one read is under way or answered, it stems from the one tap that waits, its answer is still true of the view when it is taken up, and where there is none the button is what the view says |
| `FavoritesStore_proofs!FavoritesRefineStore` | assumes the same. `RefiningInv` is `ButtonsInv` with `LonelyInv` (where a device is the only one, the server lists nobody but its user, so a `setData` loses nothing). `WantedIsListed`: what the user last wanted, by the queue or else by the server, is what the view lists, and the view is what the answer of a tap still says when it is taken up; so the write asks for the opposite (`AskRefines`). `Commit` performs the next request (`CommitRefines`, by what a `setData`, a union and a remove make of each user), `Acknowledge` confirms one, the end of a stream sends again, and every other step leaves favourites and requests alone |
| `CafeMap_proofs!MapTypeCorrect` | `TypeOK` is inductive by itself, `Collide` included |
| `CafeMap_proofs!MapSettlesOnLastAnswer`, `EverythingIsShown` | `MapInv`: what every block has taken, still has to append and has handed over, and that without overlap at most one block is at work and each phase of it accounts for the annotations, the map and `cafes` |
| `CafeMap_proofs!MapSettlesOnCity` | `CityInv` adds that the last request, or with none left `cafes`, is of `city`; with `MapIsLastAnswer` |
| `CafeMap_proofs!NoRaceUnlessPiled` | `RaceInv`: without `piled` at most one block is posted or handed over |
| `CafeCell_proofs!CellTypeCorrect` | `TypeOK` is inductive by itself |
| `CafeCell_proofs!TapsAlwaysToggle` | `OwnDocument` (every read waits under its own cafe) and `TapInv`: a cafe that is not crowded has at most one read that decides, and the kind of that read with the parity of the taps says what `collected` is. A tap that finds another cafe than the cell shows makes both crowded |
| `CafeCell_proofs!SettledCellsAreAlwaysRight` | `SettledInv`: all reads of a settled cell are for its cafe, nobody else decides about that cafe, a read that decides is the last one (a tap that finds another cafe in the array unsettles the cell), and the last one, once answered, knows what is collected |
| `Theme_proofs!ThemeTypeCorrect` | with `ThemeInv`; the lemmas on stacks say what a push and a pop make of each |
| `Theme_proofs!ShownInTheme` | `ThemeInv` adds why a screen may be shown without being told of a change: while anything lies on the settings, their bar, and the theme a collection has kept, are the current one (`SettingsInTheme`), as the switch is only reached with nothing on them; the tab bar is behind only after a launch (`TabBarInTheme`); the map and the collection are drawn before they appear (`AppearsInTheme`) |
| `Theme_proofs!SwitchAloneChangesTheme` | `StoredTheme`: what is stored is the current theme, so a relaunch takes up what there was |

`ListInv`, `UpdatesInv`, `RefiningInv` and `ThemeInv` were checked with TLC before they were proved; `ThemeInv` also from every
type-correct state that satisfies it, which shows it inductive.

Every safety invariant, action property and refinement that a run checks is proved. Only model-checked:

- Liveness (`TapsAreAnswered`, `WritesReachTheServer`, `RefreshEnds`, `HudEnds`, `UserIsNoticed`, `AnswersAreShown`): fairness and
  `ENABLED` are out of the prover's reach.
- `ButtonMatchesStore` for two taps that overlap and for a user who signs out again, as `Favorites_button` checks it on one
  device: the theorem is about taps that are answered one at a time and at most one change of the user. With two taps
  the invariant must follow a pair of reads through the orders in which their answers and writes may come; after a sign-out
  reads and writes of the former user are still under way, which `UserInv` excludes.
- For devices that share an account, or two that set documents, `ButtonMatchesStore` and `RefinesStore` are not claimed: no run checks it.

## Not modelled

The nonce of Apple requests (a refused attempt is a possible outcome of any), account
values in `UserDefaults` other than the provider, the alert for an empty address, colours,
fonts, links, mail and sharing; the parsing of JSON and its values (a rating outside 0..5
or a coordinate that is no number ends the app); names of cafes that are no names of documents;
queries that fail; and the parts
of three screens that are coloured in `viewDidLoad` only.

What remains of the repository beyond that is vendored, generated or data.

## Plan

1. `ButtonMatchesStore` for `MaxUnanswered <= 2` and `MaxTaps <= 2`: `TapInv` extended by the second tap of a cafe,
   and `UserInv` by the sign-out.
2. `TapsToggle` and `ButtonMatchesStore` meet at the button: a theorem that `CafeCell` with one cell and one tap at a
   time is what one device of `Favorites` does.
