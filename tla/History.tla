------------------------------ MODULE History ------------------------------
(***************************************************************************)
(* The page around the client, first part: history/history.js, which keeps *)
(* the fragment of the address bar and the state of the Flex application   *)
(* the same.  The user moves through the history of the browser, or edits  *)
(* the address; the application moves by itself; each learns of the other  *)
(* through an event, a poll or the load of a hidden frame, whichever the   *)
(* browser has, and these come late and race with the next move.           *)
(*                                                                         *)
(* JavaScript runs one handler at a time: a handler is one action.         *)
(*                                                                         *)
(* External, as history.js and historyFrame.html use them: the browser's   *)
(* session history, its events, and the BrowserManager of the application. *)
(***************************************************************************)
EXTENDS Naturals, Sequences, SequencesExt

CONSTANTS Fragment,  \* what may follow the '#'
          Empty,     \* the fragment of no characters
          Bare,      \* the address without a '#'
          Default,   \* the default fragment of the application
          Opened,    \* addresses the page may be opened at
          Blank,     \* what the hidden frame shows before its first load
          None,      \* the absence of a value
          Undefined, \* what an array gives where nothing was stored
          MaxMove    \* bound: moves of the user and of the application

ASSUME HistoryAssumption ==
  /\ {Empty, Default} \subseteq Fragment
  /\ {Bare, Blank, None, Undefined} \cap Fragment = {}
  /\ Opened \subseteq Fragment \cup {Bare}
  /\ Bare # Blank /\ None \notin {Bare, Blank, Undefined}
  /\ None \notin [to : Fragment, new : BOOLEAN]
  /\ MaxMove \in Nat

VARIABLES
  kind,                       \* the browser, as the useragent tells it
  session,                    \* the entries of the session history, and the current one
  href,                       \* document.location.href
  event,                      \* a hashchange event is queued
  frame, loading,             \* what the history frame shows, and is to show
  phase,                      \* the page: "loading", or "ready" once initialized
  retry,                      \* the argument of the delayed func of setDefaultURL
  polls,                      \* setInterval(checkForUrlChange, 50) has been called
  firstload,                  \* window._ie_firstload
  initialHref, currentHref,
  backStack, forwardStack,
  historyHash, remembered,    \* the table for Safari, and its copy in the form field
  currentHistoryLength,
  app,                        \* the fragment of the application, None before it starts
  mine,                       \* history: its last move that changed the address,
                              \* None once the user has moved
  blind,                      \* history: a move in the blind spots, see InSync
  lost,                       \* history: backStack was not followed to where the page is
  moves

pageVars == <<phase, retry, polls, firstload, initialHref, currentHref, backStack,
              forwardStack, historyHash, currentHistoryLength>>
browserVars == <<kind, session, href, event, frame, loading, remembered>>
vars == <<pageVars, browserVars, app, mine, blind, lost, moves>>

-----------------------------------------------------------------------------
(* What the browser is.                                                    *)

\* The branches of the user agent detection and of "onhashchange": Firefox and
\* Opera with the event; Chrome and later Safari with it; Internet Explorer 8
\* with it; Firefox before it; Safari before 4; Internet Explorer 6, 7 and 9.
Kinds == {"hash", "webkit", "ie8", "firefox", "safari3", "ie6", "ie7", "ie9"}

IE     == kind \in {"ie6", "ie7", "ie9"}
Safari == kind \in {"webkit", "safari3"}

\* The page learns in _initialize whether there is the event, and listens.
BrowserHasHashChange == phase = "ready" /\ kind \in {"hash", "webkit", "ie8", "ie9"}

\* So until then all of Safari maintains the history by hand.
ByHand == Safari /\ ~BrowserHasHashChange

HashOf(url) == IF url = Bare THEN Empty ELSE url

\* getHash, and getIframeHash: the document the frame still shows.
GetHash       == HashOf(href)
GetIframeHash == IF frame = Blank THEN Empty ELSE frame

\* The session history of the browser.  An entry holds the address of the
\* page and the document of the frame.  untold is a history: Safari before 4
\* has entries its table does not tell of, see InSync.  There history.length
\* goes back with the user.
Entry(url, f)    == [url |-> url, frame |-> f]
Current(s)       == s.entries[s.at]
HistoryLength(s) == IF kind = "safari3" THEN s.at ELSE Len(s.entries)
Visit(s, e)      == [s EXCEPT !.at = @ + 1, !.entries = Append(SubSeq(@, 1, s.at), e)]
Amend(s, e)      == [s EXCEPT !.entries[s.at] = e]
Untell(s, now)   == [s EXCEPT !.untold = @ \/ now]

\* The address changes from a script, or by the user.  Only later browsers
\* make an event of it, when the page listens.
Notify(url) == event' = (event \/ (BrowserHasHashChange /\ url # href))

\* document.location.hash = f.  Internet Explorer up to 7 makes no entry of
\* it: that is what the frame is for.
SetHash(s, f) ==
  LET e == [Current(s) EXCEPT !.url = f] IN
  /\ href' = f
  /\ Notify(f)
  /\ session' = IF href = f THEN s
                ELSE IF kind \in {"ie6", "ie7"} THEN Amend(s, e) ELSE Visit(s, e)

\* Safari before 4 has a table from before the reload, and has not read it yet.
TableToCome == kind = "safari3" /\ phase = "loading" /\ remembered # <<>>

\* window.location.replace("#" + f).
Replace(f) ==
  LET e == Current(session) IN
  /\ href' = f
  /\ Notify(f)
  /\ session' = Untell(Amend(session, [e EXCEPT !.url = f]),
                       TableToCome /\ HashOf(e.url) # f)

-----------------------------------------------------------------------------
InitWith(url) ==
  /\ session = [at |-> 1, entries |-> <<Entry(url, Blank)>>, untold |-> FALSE]
  /\ href = url /\ initialHref = url /\ currentHref = url
  /\ event = FALSE
  /\ frame = None /\ loading = None
  /\ phase = "loading" /\ retry = None /\ polls = FALSE /\ firstload = FALSE
  /\ backStack = <<>> /\ forwardStack = <<>>
  /\ historyHash = <<>> /\ remembered = <<>>
  /\ currentHistoryLength = 0

Init ==
  /\ kind \in Kinds
  /\ \E url \in Opened : InitWith(url)
  /\ app = None /\ mine = None
  /\ blind = FALSE /\ lost = FALSE
  /\ moves = 0

-----------------------------------------------------------------------------
(* Helpers of history.js.                                                  *)

\* getPlayer().browserURLChange(f), or a TypeError without a player; the
\* application takes the fragment over.
Tell(f) == app' = IF app = None THEN None ELSE f

\* browserURLChange, which the frame calls: without a player the error is
\* swallowed.
BrowserURLChange(f) == app' = IF app = None THEN None ELSE f

\* table[n] = f.
Stored(table, n, f) == [i \in DOMAIN table \cup {n} |-> IF i = n THEN f ELSE table[i]]

\* _storeStates: join and split give every hole the empty string.
Joined(table) ==
  [n \in 1 .. Max(DOMAIN table) |-> IF n \in DOMAIN table THEN table[n] ELSE Empty]

\* Mutant of LookUp: off by one.
LookUpBefore(n) == IF n - 1 \in DOMAIN historyHash THEN historyHash[n - 1] ELSE Undefined

LookUp(n) == IF n \in DOMAIN historyHash THEN historyHash[n] ELSE Undefined

\* The Safari part of addHistoryEntry, after the move.  Before _initialize there
\* is no form field to put the table in.
Record(n, f) ==
  IF ByHand
  THEN /\ historyHash' = Stored(historyHash, n, f)
       /\ remembered' = IF phase = "ready" THEN Joined(historyHash') ELSE remembered
  ELSE UNCHANGED <<historyHash, remembered>>

\* Mutant of AddFrameEntry: the frame is left to what it is loading.
AddFrameEntryLate(s, l, f) ==
  /\ currentHref' = f
  /\ SetHash(s, f)
  /\ loading' = IF l = None THEN [to |-> f, new |-> TRUE] ELSE l
  /\ UNCHANGED <<historyHash, remembered>>

\* While the first load is out, a move to the default state is taken for its
\* echo.
Echo(f) == f \in {Empty, Default} /\ firstload

\* addHistoryEntry, for a browser with the history frame; a TypeError when there
\* is no frame yet.
AddFrameEntry(s, l, f) ==
  /\ currentHref' = IF Echo(f) /\ f = Default /\ href = initialHref THEN initialHref ELSE f
  /\ IF Echo(f)
     THEN /\ IF f = Default /\ href = initialHref
             THEN session' = s /\ UNCHANGED <<href, event>>
             ELSE SetHash(s, Default)
          /\ loading' = l
     ELSE IF frame = None
     THEN session' = s /\ loading' = l /\ UNCHANGED <<href, event>>
     ELSE SetHash(s, f) /\ loading' = [to |-> f, new |-> TRUE]
  /\ UNCHANGED <<historyHash, remembered>>

\* addHistoryEntry ends in a TypeError: there is no frame, or no form field.
Thrown(f) == IF IE THEN frame = None /\ ~Echo(f) ELSE ByHand /\ phase = "loading"

\* addHistoryEntry, for the others.
AddEntry(s, f) ==
  /\ currentHref' = f
  /\ SetHash(s, f)
  /\ Record(HistoryLength(session'), f)

\* Mutant of Says: the address is always set.
SaysNothing(url, f) == FALSE

\* The address already says f.
Says(url, f) == url = f \/ (url = Bare /\ f = Empty)

\* setBrowserURL, called in the session s with l on its way into the frame.
SetBrowserURL(s, l, f) ==
  IF Says(href, f)
  THEN /\ session' = s /\ loading' = l
       /\ UNCHANGED <<href, event, currentHref, backStack, forwardStack,
                      historyHash, remembered, currentHistoryLength>>
  ELSE /\ IF IE THEN AddFrameEntry(s, l, f) ELSE AddEntry(s, f) /\ loading' = l
       /\ IF kind = "firefox"
          THEN backStack' = Append(backStack, f) /\ forwardStack' = <<>>
          ELSE UNCHANGED <<backStack, forwardStack>>
       /\ currentHistoryLength' = IF Thrown(f) THEN currentHistoryLength
                                  ELSE HistoryLength(session')

-----------------------------------------------------------------------------
(* The page.                                                               *)

\* What checkForUrlChange compares, in each browser that polls.
AddressLeft  == polls /\ href # currentHref /\ ~Says(currentHref, href)
SeenByReload == kind = "ie6" /\ AddressLeft
SeenByFrame  == kind \in {"ie7", "ie9"} /\ AddressLeft /\ GetHash # GetIframeHash
SeenByLength == ByHand /\ polls /\ HistoryLength(session) # currentHistoryLength
SeenByHref   == kind = "firefox" /\ polls /\ href # currentHref

\* _initialize, when the DOM is ready: the frame is appended at once, or in
\* a timeout when the body cannot take it yet.  A table in the form field takes
\* the place of one begun before.
Initialize ==
  /\ phase = "loading"
  /\ phase' = "ready"
  /\ IF IE THEN frame' \in {Blank, None} ELSE frame' = frame
  /\ historyHash' = IF kind = "safari3" /\ remembered # <<>> THEN remembered ELSE historyHash
  /\ UNCHANGED <<retry, polls, firstload, initialHref, currentHref, backStack, forwardStack,
                 currentHistoryLength, kind, session, href, event, loading, remembered,
                 app, mine, blind, lost, moves>>

AppendFrame ==
  /\ IE /\ phase = "ready" /\ frame = None
  /\ frame' = Blank
  /\ UNCHANGED <<pageVars, kind, session, href, event, loading, remembered,
                 app, mine, blind, lost, moves>>

\* func of setDefaultURL: the first load of the frame, or a TypeError before
\* anything is done.
LoadDefault(def) ==
  IF frame = None
  THEN UNCHANGED <<loading, session, href, event, polls>>
  ELSE /\ loading' = [to |-> def, new |-> TRUE]
       /\ Replace(def)
       /\ polls' = TRUE

\* The application starts: it takes the fragment of the address, and calls
\* setDefaultURL.
StartIE ==
  /\ firstload' = TRUE
  /\ LoadDefault(GetHash)
  /\ retry' = IF frame = None THEN GetHash ELSE None
  /\ UNCHANGED <<historyHash, currentHistoryLength>>

StartSafari ==
  /\ currentHistoryLength' = HistoryLength(session)
  /\ IF historyHash = <<>>
     THEN /\ historyHash' = Stored(historyHash, HistoryLength(session), GetHash)
          /\ Replace(GetHash)
     ELSE UNCHANGED <<historyHash, session, href, event>>
  /\ polls' = TRUE
  /\ UNCHANGED <<loading, retry, firstload>>

StartOther ==
  /\ IF kind = "ie8" \/ href # Bare
     THEN UNCHANGED <<session, href, event>>
     ELSE Replace(GetHash)
  /\ polls' = (kind # "ie8")
  /\ UNCHANGED <<loading, retry, firstload, historyHash, currentHistoryLength>>

\* Nothing makes the application wait for _initialize.  In Firefox and Opera it
\* does: _initialize and swfobject.js, which embeds it, listen to the same event
\* of the document.
SetDefaultURL ==
  /\ app = None
  /\ kind \in {"hash", "firefox"} => phase = "ready"
  /\ app' = GetHash
  /\ IF IE THEN StartIE ELSE IF Safari THEN StartSafari ELSE StartOther
  /\ lost' = (GetHash # HashOf(initialHref))
  /\ UNCHANGED <<phase, initialHref, currentHref, backStack, forwardStack, kind, frame,
                 remembered, mine, blind, moves>>

\* The timeout of setDefaultURL tries once more, whether the frame is there or not.
RetryDefault ==
  /\ retry # None
  /\ LoadDefault(retry)
  /\ retry' = None
  /\ UNCHANGED <<phase, firstload, initialHref, currentHref, backStack, forwardStack,
                 historyHash, currentHistoryLength, kind, frame, remembered,
                 app, mine, blind, lost, moves>>

\* The application moves.  When the address says f already, setBrowserURL
\* does nothing; Safari before 4 may not be there all the same.
Move(f) ==
  /\ app \notin {None, f} /\ moves < MaxMove
  /\ app' = f
  /\ mine' = IF Says(href, f) THEN None ELSE f
  /\ SetBrowserURL(Untell(session, TableToCome), loading, f)
  /\ blind' = (blind \/ firstload \/ TableToCome \/ (kind = "safari3" /\ Says(href, f)))
  /\ lost' = (lost /\ Says(href, f))
  /\ moves' = moves + 1
  /\ UNCHANGED <<phase, retry, polls, firstload, initialHref, kind, frame>>

-----------------------------------------------------------------------------
(* The user.                                                               *)

\* What the poll compares the address with.
Remembered == {HashOf(currentHref)} \cup (IF IE THEN {GetIframeHash} ELSE {})

\* The poll takes the place the user moves to for the one it saw last.
Overlooked(url) ==
  IF kind = "safari3" THEN HistoryLength(session') = currentHistoryLength
  ELSE (IE \/ kind = "firefox") /\ HashOf(url) \in Remembered

\* Neither event nor poll tells of the user's moves before _initialize; that of
\* Safari before 4 does, when it has no table to read first.
Unwatched ==
  /\ app # None /\ phase = "loading"
  /\ kind \in {"webkit", "ie8"} \/ TableToCome

\* A move of the user to url, when it is not a reload.  The poll overlooks a
\* move to what it remembers, and the application need not be there: when the
\* address says already what it should, setDefaultURL and setBrowserURL leave
\* currentHref and the frame behind.
UserMove(url) ==
  /\ moves < MaxMove /\ moves' = moves + 1
  /\ mine' = None
  /\ blind' = \/ blind \/ firstload \/ Unwatched
              \/ kind = "safari3" /\ app = None
              \/ Overlooked(url) /\ app \notin {None, HashOf(url)}
  /\ UNCHANGED <<pageVars, kind, frame, remembered, app, lost>>

\* Editing the fragment of the address.
Type(f) ==
  /\ f # href
  /\ href' = f
  /\ Notify(f)
  /\ session' = Untell(Visit(session, Entry(f, Current(session).frame)), kind = "safari3")
  /\ UNCHANGED loading
  /\ UserMove(f)

\* Back, forward, or a jump in the list of the history.  The frame is loaded
\* again when the entry names another document for it.  Safari before 4 leaves
\* the location as it is.
Go(i) ==
  LET e == session.entries[i] IN
  /\ i # session.at
  /\ session' = [session EXCEPT !.at = i]
  /\ href' = IF kind = "safari3" THEN href ELSE e.url
  /\ Notify(href')
  /\ loading' = IF e.frame \in {Blank, frame} \/ frame = None THEN loading
                ELSE [to |-> e.frame, new |-> FALSE]
  /\ UserMove(e.url)

\* The page starts anew.  The entries of Safari that are in no form field are
\* forgotten.
Restart ==
  LET url == Current(session).url IN
  /\ phase' = "loading" /\ retry' = None /\ polls' = FALSE /\ firstload' = FALSE
  /\ href' = url /\ initialHref' = url /\ currentHref' = url
  /\ backStack' = <<>> /\ forwardStack' = <<>>
  /\ historyHash' = <<>> /\ currentHistoryLength' = 0
  /\ event' = FALSE /\ frame' = None /\ loading' = None
  /\ app' = None /\ mine' = None /\ blind' = FALSE /\ lost' = FALSE
  /\ session' = Untell(session, kind = "safari3" /\ remembered = <<>>
                                 /\ Len(session.entries) > 1)
  /\ UNCHANGED <<kind, remembered>>

Reload == moves < MaxMove /\ moves' = moves + 1 /\ Restart

-----------------------------------------------------------------------------
(* How the page notices.                                                   *)

HashChangeHandler ==
  /\ event
  /\ event' = FALSE
  /\ currentHref' = href
  /\ Tell(GetHash)
  /\ UNCHANGED <<phase, retry, polls, firstload, initialHref, backStack, forwardStack,
                 historyHash, currentHistoryLength, kind, session, href, frame, loading,
                 remembered, mine, blind, lost, moves>>

\* The load of historyFrame.html ends: processUrl.  A document other than the
\* one shown is a new entry, unless it is the first or the user went there.
FrameLoad ==
  LET f == loading.to
      s == IF loading.new /\ frame \notin {Blank, f}
           THEN Visit(session, Entry(Current(session).url, f))
           ELSE Amend(session, [Current(session) EXCEPT !.frame = f])
  IN
  /\ loading # None /\ frame # None
  /\ frame' = f
  /\ firstload' = FALSE
  /\ IF firstload
     THEN /\ session' = s /\ loading' = None
          /\ UNCHANGED <<href, event, currentHref, backStack, forwardStack, historyHash,
                         remembered, currentHistoryLength, app>>
     ELSE SetBrowserURL(s, None, f) /\ BrowserURLChange(f)
  /\ UNCHANGED <<phase, retry, polls, initialHref, kind, mine, blind, lost, moves>>

CheckReload ==
  /\ SeenByReload
  /\ Restart
  /\ moves' = moves

CheckFrame ==
  /\ SeenByFrame
  /\ loading' = [to |-> GetHash, new |-> TRUE]
  /\ currentHref' = href
  /\ UNCHANGED <<phase, retry, polls, firstload, initialHref, backStack, forwardStack,
                 historyHash, currentHistoryLength, kind, session, href, event, frame,
                 remembered, app, mine, blind, lost, moves>>

\* Safari before 4 looks the fragment up in its table.
CheckSafari ==
  /\ SeenByLength
  /\ IF kind = "safari3"
     THEN /\ currentHistoryLength' = HistoryLength(session)
          /\ Tell(LookUp(currentHistoryLength'))
     ELSE Tell(GetHash) /\ UNCHANGED currentHistoryLength
  /\ remembered' = IF phase = "ready" THEN Joined(historyHash) ELSE remembered
  /\ UNCHANGED <<phase, retry, polls, firstload, initialHref, currentHref, backStack,
                 forwardStack, historyHash, kind, session, href, event, frame, loading,
                 mine, blind, lost, moves>>

\* handleBackButton and handleForwardButton, on a pair of stacks.
HandleBackButton(p) ==
  IF p.back = <<>> THEN p
  ELSE [back |-> Front(p.back), forward |-> Append(p.forward, Last(p.back))]

\* Mutant of HandleForwardButton: the entry is not pushed back.
ForwardDropped(p) ==
  IF p.forward = <<>> THEN p ELSE [p EXCEPT !.forward = Front(@)]

HandleForwardButton(p) ==
  IF p.forward = <<>> THEN p
  ELSE [back |-> Append(p.back, Last(p.forward)), forward |-> Front(p.forward)]

\* The Firefox part: the home page, then forward, then back, each test on the
\* stacks the tests before left, but for the length of backStack.
CheckFirefox ==
  LET bsl   == Len(backStack)
      p0    == [back |-> backStack, forward |-> forwardStack]
      home  == GetHash = HashOf(initialHref) /\ bsl = 1
      p1    == IF home THEN HandleBackButton(p0) ELSE p0
      ahead == p1.forward # <<>> /\ Last(p1.forward) = GetHash
      p2    == IF ahead THEN HandleForwardButton(p1) ELSE p1
      back  == bsl >= 2 /\ p2.back[bsl - 1] = GetHash
      p3    == IF back THEN HandleBackButton(p2) ELSE p2
  IN
  /\ SeenByHref
  /\ backStack' = p3.back
  /\ forwardStack' = IF home \/ ahead \/ back THEN p3.forward ELSE <<>>
  /\ currentHref' = href
  /\ Tell(GetHash)
  /\ lost' = IF GetHash = HashOf(currentHref) THEN lost ELSE (home \/ back) <=> ahead
  /\ UNCHANGED <<phase, retry, polls, firstload, initialHref, historyHash, currentHistoryLength,
                 kind, session, href, event, frame, loading, remembered,
                 mine, blind, moves>>

CheckForUrlChange == CheckReload \/ CheckFrame \/ CheckSafari \/ CheckFirefox

-----------------------------------------------------------------------------
\* What happens by itself.
Proceed ==
  \/ Initialize \/ AppendFrame \/ RetryDefault
  \/ HashChangeHandler \/ FrameLoad \/ CheckForUrlChange

Next ==
  \/ SetDefaultURL
  \/ \E f \in Fragment : Move(f) \/ Type(f)
  \/ \E i \in DOMAIN session.entries : Go(i)
  \/ Reload
  \/ Proceed

Spec == Init /\ [][Next]_vars

\* Timers expire, queued events are dispatched and the frame loads.  The
\* application and the user do as they like.
FairSpec == Spec /\ WF_vars(Proceed)

-----------------------------------------------------------------------------
\* Nothing is on its way.
Settled ==
  /\ app # None /\ ~event /\ loading = None /\ retry = None
  /\ ~SeenByReload /\ ~SeenByFrame /\ ~SeenByLength /\ ~SeenByHref

\* The fragment of the address the user sees.
Shown == HashOf(IF kind = "safari3" THEN Current(session).url ELSE href)

\* When everything has been noticed, the application and the address bar are
\* at the same place, whatever was noticed late, twice or out of order, and
\* however early the application started; except after a move in a blind spot:
\* before the first load of the frame, which never comes when func of
\* setDefaultURL fails twice; of the user, before the page listens; to what the
\* poll still remembers (see UserMove); and, in Safari before 4, where the
\* location is not that of the entry, and once its table has nothing for an
\* entry, or something old, even when the application has moved over it or the
\* page was loaded again: the user edited the address, the application moved,
\* or overwrote an entry, before the table was read, or the page was loaded before
\* it was stored.
InSync == Settled /\ ~blind /\ ~session.untold => app = Shown

\* A late event, poll or frame never takes back a move of the application
\* that changed the address: it stays there until the user moves.
OwnMoveStands == mine # None /\ ~blind => app = mine

\* "The current page is always at the top of the history stack", once the
\* poll has looked; except when it could not tell back from forward.
CurrentOnTop ==
  kind = "firefox" /\ app # None /\ href = currentHref /\ ~lost =>
    GetHash = (IF backStack = <<>> THEN HashOf(initialHref) ELSE Last(backStack))

\* Frame, poll and event do not chase each other for ever.
Settles == <>[](app # None => Settled)
=============================================================================
