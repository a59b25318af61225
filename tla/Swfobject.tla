----------------------------- MODULE Swfobject -----------------------------
(***************************************************************************)
(* The page around the client, second part: swfobject.js, which puts the   *)
(* Flash movie into the page.  A request names an element and the version  *)
(* of the player it needs: a static one is an object element that the page *)
(* registers, a dynamic one is a div that embedSWF replaces.  Requests are *)
(* answered once the DOM is loaded, of which several events tell, and the  *)
(* static ones once a probe object has told the version of the player; the *)
(* Adobe installer may stand in for one movie in between.                  *)
(*                                                                         *)
(* JavaScript runs one handler at a time.  A handler that calls a list of  *)
(* functions is a sequence of steps here: todo holds the functions it has  *)
(* still to call, and nothing else happens until it is empty.              *)
(*                                                                         *)
(* External, as swfobject.js uses them: the DOM and its events, the player *)
(* and the installer, and the page that makes the requests.                *)
(***************************************************************************)
EXTENDS Naturals, Sequences, FiniteSets

CONSTANTS Static, Dynamic, \* the requests
          SameId,          \* dynamic ones whose movie gets the id of the div
          Version,         \* versions of the player, <<major, minor, release>>
          Required,        \* the version a request needs
          Browsers,        \* the browsers considered, some of UA
          Layouts,         \* the pages considered, see Layout
          Tries,           \* the tries of the probe, 10 in the code
          None

\* The outcomes of the feature detection.  Internet Explorer asks the player
\* itself for its version; the description of a plug-in may be wrong.
UA == {b \in [ie : BOOLEAN, wk : BOOLEAN, plugin : BOOLEAN, xiPlatform : BOOLEAN] :
         b.ie => ~b.wk /\ ~b.plugin /\ b.xiPlatform}

\* Requests whose element is in the page, and those that name an installer.
Layout == [present : SUBSET (Static \cup Dynamic), withXi : SUBSET (Static \cup Dynamic)]

ASSUME SwfobjectAssumption ==
  /\ Static \cap Dynamic = {} /\ SameId \subseteq Dynamic
  /\ Version \cup {Required} \subseteq Nat \X Nat \X Nat
  /\ \A v \in Version : v[1] > 0
  /\ Browsers \subseteq UA /\ Layouts \subseteq Layout
  /\ Tries \in Nat
  /\ None \notin Static \cup Dynamic

Request == Static \cup Dynamic
Zero    == <<0, 0, 0>>

VARIABLES
  ua,            \* the browser
  installed,     \* the version of the player, Zero without one
  layout,        \* the page
  dom,           \* the state of the document: "head", "interactive", "complete"
  events,        \* events that have still to come and call callDomLoadFunctions
  isDomLoaded, domLoadFnArr, regObjArr,
  pv,            \* ua.pv: the version as far as it is known
  probe,         \* the version of the player: "off", "asked" for, "done"
  counter,       \* the tries of the probe made so far
  todo,          \* functions the current handler has still to call
  elem,          \* what stands at the place of each request
  style, css,    \* visibility of the element by its style, of its id by a rule
  leaving,       \* replaced elements, hidden, asked again and again if they are loaded
  isExpressInstallActive,
  stored,        \* storedCallbackFn and storedAltContent, by their requests
  autoHideShow,
  asked,         \* history: requests made
  late,          \* history: static ones registered after matchVersions
  told           \* history: the results each request was called back with

envVars  == <<ua, installed, layout>>
loadVars == <<dom, events, isDomLoaded, domLoadFnArr>>
viewVars == <<style, css, autoHideShow>>
installVars == <<isExpressInstallActive, stored>>
vars == <<envVars, loadVars, regObjArr, pv, probe, counter, todo, elem, viewVars, leaving,
          installVars, asked, late, told>>

Main     == [fn |-> "main", of |-> None]
Probe    == [fn |-> "probe", of |-> None]
Match(r) == [fn |-> "match", of |-> r]
Embed(r) == [fn |-> "embed", of |-> r]

-----------------------------------------------------------------------------
DetectVersion ==
  \/ ua.ie /\ installed \in Version \cup {Zero} /\ pv = installed
  \/ ~ua.ie /\ ua.plugin /\ installed \in Version /\ pv \in Version
  \/ ~ua.ie /\ ~ua.plugin /\ installed = Zero /\ pv = Zero

\* Mutant of OnDomLoad: no load event to fall back on.
OnDomLoadOnce ==
  events = IF dom = "complete" THEN {"direct"}
           ELSE IF ua.ie THEN {"doScroll"} ELSE {"DOMContentLoaded"}

\* onDomLoad: where it listens, depending on how far the document is when the
\* script runs.
OnDomLoad ==
  events = IF dom = "complete" THEN {"direct"}
           ELSE {"load"} \cup (IF ua.ie THEN {"readystatechange", "doScroll"} ELSE {})
                \cup (IF ua.wk THEN {"webkit"} ELSE {})
                \cup (IF ~ua.ie /\ dom = "head" THEN {"DOMContentLoaded"} ELSE {})

Init ==
  /\ ua \in Browsers /\ DetectVersion
  /\ layout \in Layouts
  /\ dom \in {"head", "interactive", "complete"} /\ OnDomLoad
  /\ isDomLoaded = FALSE /\ domLoadFnArr = <<Main>>
  /\ regObjArr = <<>> /\ probe = "off" /\ counter = 0 /\ todo = <<>>
  /\ elem = [r \in Request |-> IF r \notin layout.present THEN "missing"
                               ELSE IF r \in Static THEN "object" ELSE "div"]
  /\ style = [r \in Request |-> "unset"] /\ css = [r \in Request |-> "unset"]
  /\ leaving = {}
  /\ isExpressInstallActive = FALSE /\ stored = [callback |-> None, content |-> None]
  /\ autoHideShow = TRUE
  /\ asked = {} /\ late = {}
  /\ told = [r \in Request |-> <<>>]

Idle == todo = <<>>

-----------------------------------------------------------------------------
(* Helpers of swfobject.js.                                                *)

\* Lexicographic order.
HasPlayerVersion(v) ==
  \/ pv[1] > v[1]
  \/ pv[1] = v[1] /\ pv[2] > v[2]
  \/ pv[1] = v[1] /\ pv[2] = v[2] /\ pv[3] >= v[3]

\* Mutant of CanExpressInstall: an active installer is not noticed.
CanInstallTwice == HasPlayerVersion(<<6, 0, 65>>) /\ ua.xiPlatform

CanExpressInstall ==
  ~isExpressInstallActive /\ HasPlayerVersion(<<6, 0, 65>>) /\ ua.xiPlatform

\* getElementById finds an element for the request.
Found(r) == elem[r] \in {"div", "object"} \/ (elem[r] = "movie" /\ r \in SameId)

\* setVisibility: by the style of the element, or by a rule for its id while
\* it cannot be reached (createCSS).
SetVisibility(r, v) ==
  IF ~autoHideShow THEN UNCHANGED <<style, css>>
  ELSE IF isDomLoaded /\ Found(r)
  THEN style' = [style EXCEPT ![r] = v] /\ css' = css
  ELSE css' = [css EXCEPT ![r] = v] /\ style' = style

CallBack(r, success) == told' = [told EXCEPT ![r] = Append(@, success)]

\* Internet Explorer keeps what is not loaded yet, hidden, beside what
\* replaces it: an object that is still loading, and a div in any case.
Replace(r, what) ==
  /\ elem' = [elem EXCEPT ![r] = what]
  /\ \/ leaving' = leaving /\ ~(ua.ie /\ elem[r] = "div")
     \/ leaving' = leaving \cup {r} /\ ua.ie

\* showExpressInstall.  Without the element nothing is put into the page.
ShowExpressInstall(r) ==
  /\ isExpressInstallActive' = TRUE
  /\ IF Found(r)
     THEN stored' = [callback |-> r, content |-> r] /\ Replace(r, "installer")
     ELSE stored' = [stored EXCEPT !.callback = r] /\ UNCHANGED <<elem, leaving>>
  /\ UNCHANGED <<style, css, told>>

\* displayAltContent.
DisplayAltContent(r) ==
  /\ Replace(r, "content")
  /\ UNCHANGED <<style, css>>

-----------------------------------------------------------------------------
(* Loading of the document.                                                *)

Parse ==
  /\ Idle
  /\ \/ dom = "head" /\ dom' = "interactive"
     \/ dom = "interactive" /\ dom' = "complete"
  /\ UNCHANGED <<envVars, events, isDomLoaded, domLoadFnArr, regObjArr, pv, probe, counter, todo, elem,
                 viewVars, leaving, installVars, asked, late, told>>

\* An event comes, or a poll finds the document ready.
Due(e) == \/ e \in {"direct", "load", "readystatechange"} /\ dom = "complete"
          \/ e \in {"DOMContentLoaded", "doScroll", "webkit"} /\ dom # "head"

\* Mutant of CallDomLoadFunctions: isDomLoaded is not looked at.
CallDomLoadAgain ==
  \/ dom # "complete" /\ UNCHANGED <<isDomLoaded, todo>>
  \/ isDomLoaded' = TRUE /\ todo' = domLoadFnArr

\* callDomLoadFunctions: the body may not take elements before the document
\* is complete.
CallDomLoadFunctions ==
  \/ /\ isDomLoaded \/ dom # "complete"
     /\ UNCHANGED <<isDomLoaded, todo>>
  \/ /\ ~isDomLoaded
     /\ isDomLoaded' = TRUE
     /\ todo' = domLoadFnArr

DomEvent(e) ==
  /\ Idle /\ e \in events /\ Due(e)
  /\ events' = events \ {e}
  /\ CallDomLoadFunctions
  /\ UNCHANGED <<envVars, dom, domLoadFnArr, regObjArr, pv, probe, counter, elem, viewVars, leaving,
                 installVars, asked, late, told>>

-----------------------------------------------------------------------------
(* The functions called when the DOM is loaded.                            *)

Calls(fn) == todo # <<>> /\ Head(todo).fn = fn
Rest      == Tail(todo)

\* matchVersions goes through the objects registered by now.
MatchVersions ==
  /\ probe' = "done"
  /\ todo' = [i \in DOMAIN regObjArr |-> Match(regObjArr[i])] \o Rest

\* Mutant of RunMain: the versions are matched before the probe answers.
RunMainAtOnce ==
  /\ Calls("main")
  /\ probe' = IF ua.plugin THEN "asked" ELSE "done"
  /\ todo' = [i \in DOMAIN regObjArr |-> Match(regObjArr[i])] \o Rest
  /\ UNCHANGED <<envVars, loadVars, regObjArr, pv, counter, elem, viewVars, leaving, installVars,
                 asked, late, told>>

RunMain ==
  /\ Calls("main")
  /\ IF ua.plugin THEN probe' = "asked" /\ todo' = <<Probe>> \o Rest ELSE MatchVersions
  /\ UNCHANGED <<envVars, loadVars, regObjArr, pv, counter, elem, viewVars, leaving, installVars,
                 asked, late, told>>

\* testPlayerVersion: the probe answers, or will be asked again in 10 ms, or
\* has been asked often enough.
RunProbe ==
  /\ Calls("probe")
  /\ \/ pv' \in {pv, installed} /\ MatchVersions /\ UNCHANGED counter
     \/ counter < Tries /\ counter' = counter + 1 /\ todo' = Rest /\ UNCHANGED <<pv, probe>>
     \/ counter = Tries /\ MatchVersions /\ UNCHANGED <<pv, counter>>
  /\ UNCHANGED <<envVars, loadVars, regObjArr, elem, viewVars, leaving, installVars,
                 asked, late, told>>

ProbeTimer ==
  /\ Idle /\ probe = "asked"
  /\ todo' = <<Probe>>
  /\ UNCHANGED <<envVars, loadVars, regObjArr, pv, probe, counter, elem, viewVars, leaving,
                 installVars, asked, late, told>>

\* The body of the loop of matchVersions.  Without a player the object
\* element is left to itself.
MatchObject(r) ==
  \/ /\ pv[1] = 0
     /\ SetVisibility(r, "visible")
     /\ \E success \in {FALSE, Found(r)} : CallBack(r, success)
     /\ UNCHANGED <<elem, leaving, installVars>>
  \/ /\ pv[1] > 0 /\ Found(r) /\ HasPlayerVersion(Required)
     /\ SetVisibility(r, "visible")
     /\ CallBack(r, TRUE)
     /\ UNCHANGED <<elem, leaving, installVars>>
  \/ /\ pv[1] > 0 /\ Found(r) /\ ~HasPlayerVersion(Required)
     /\ IF r \in layout.withXi /\ CanExpressInstall THEN ShowExpressInstall(r)
        ELSE DisplayAltContent(r) /\ CallBack(r, FALSE) /\ UNCHANGED installVars
  \/ /\ pv[1] > 0 /\ ~Found(r)
     /\ UNCHANGED <<style, css, elem, leaving, installVars, told>>

RunMatch ==
  /\ Calls("match")
  /\ MatchObject(Head(todo).of)
  /\ todo' = Rest
  /\ UNCHANGED <<envVars, loadVars, regObjArr, pv, probe, counter, autoHideShow, asked, late>>

\* Mutant of CreateSWF: the rule that hides the id is left in force.
CreateSWFHidden(r) ==
  IF ~Found(r) THEN UNCHANGED <<elem, style, css, leaving>>
  ELSE /\ elem' = [elem EXCEPT ![r] = "movie"]
       /\ style' = [style EXCEPT ![r] = "unset"]
       /\ UNCHANGED <<css, leaving>>

\* createSWF, and the visibility of the id when the movie gets the old one,
\* also when there is nothing to replace.
CreateSWF(r) ==
  IF ~Found(r)
  THEN /\ IF r \in SameId THEN SetVisibility(r, "visible") ELSE UNCHANGED <<style, css>>
       /\ UNCHANGED <<elem, leaving>>
  ELSE /\ elem' = [elem EXCEPT ![r] = "movie"]
       /\ style' = [style EXCEPT ![r] = IF r \in SameId /\ autoHideShow THEN "visible" ELSE "unset"]
       /\ UNCHANGED <<css, leaving>>

\* The function embedSWF adds.
EmbedObject(r) ==
  \/ /\ HasPlayerVersion(Required)
     /\ CreateSWF(r)
     /\ CallBack(r, TRUE)
     /\ UNCHANGED installVars
  \/ /\ ~HasPlayerVersion(Required)
     /\ IF r \in layout.withXi /\ CanExpressInstall THEN ShowExpressInstall(r)
        ELSE /\ SetVisibility(r, "visible")
             /\ CallBack(r, FALSE)
             /\ UNCHANGED <<elem, leaving, installVars>>

RunEmbed ==
  /\ Calls("embed")
  /\ EmbedObject(Head(todo).of)
  /\ todo' = Rest
  /\ UNCHANGED <<envVars, loadVars, regObjArr, pv, probe, counter, autoHideShow, asked, late>>

Run == RunMain \/ RunProbe \/ RunMatch \/ RunEmbed

-----------------------------------------------------------------------------
(* The page.                                                               *)

RegisterObject(r) ==
  /\ Idle /\ r \in Static \ asked
  /\ asked' = asked \cup {r}
  /\ late' = IF probe = "done" THEN late \cup {r} ELSE late
  /\ regObjArr' = Append(regObjArr, r)
  /\ SetVisibility(r, "hidden")
  /\ UNCHANGED <<envVars, loadVars, pv, probe, counter, todo, elem, autoHideShow, leaving,
                 installVars, told>>

\* embedSWF, with addDomLoadEvent.
EmbedSWF(r) ==
  /\ Idle /\ r \in Dynamic \ asked
  /\ asked' = asked \cup {r}
  /\ SetVisibility(r, "hidden")
  /\ IF isDomLoaded THEN todo' = <<Embed(r)>> /\ domLoadFnArr' = domLoadFnArr
     ELSE domLoadFnArr' = Append(domLoadFnArr, Embed(r)) /\ todo' = todo
  /\ UNCHANGED <<envVars, dom, events, isDomLoaded, regObjArr, pv, probe, counter, elem, autoHideShow,
                 leaving, installVars, late, told>>

SwitchOffAutoHideShow ==
  /\ Idle /\ autoHideShow
  /\ autoHideShow' = FALSE
  /\ UNCHANGED <<envVars, loadVars, regObjArr, pv, probe, counter, todo, elem, style, css, leaving,
                 installVars, asked, late, told>>

-----------------------------------------------------------------------------
(* The installer and the objects that leave.                               *)

\* expressInstallCallback, called by the installer, which stands in the page.
\* A div is moved to its place.
ExpressInstallCallback ==
  LET r == stored.content IN
  /\ Idle /\ isExpressInstallActive
  /\ \E x \in Request : elem[x] = "installer"
  /\ elem' = [elem EXCEPT ![r] = IF r \in Static THEN "content" ELSE "div"]
  /\ style' = IF r \in Dynamic /\ autoHideShow THEN [style EXCEPT ![r] = "visible"] ELSE style
  /\ CallBack(stored.callback, FALSE)
  /\ leaving' = leaving \ ({r} \cap Dynamic)
  /\ isExpressInstallActive' = FALSE
  /\ UNCHANGED <<envVars, loadVars, regObjArr, pv, probe, counter, todo, css, autoHideShow,
                 stored, asked, late>>

\* The object has been loaded, and is removed.  A div never is: it has no
\* readyState, and is asked for ever.
Leave(r) ==
  /\ Idle /\ r \in leaving \cap Static
  /\ leaving' = leaving \ {r}
  /\ UNCHANGED <<envVars, loadVars, regObjArr, pv, probe, counter, todo, elem, viewVars,
                 installVars, asked, late, told>>

-----------------------------------------------------------------------------
Next ==
  \/ Parse
  \/ \E e \in events : DomEvent(e)
  \/ Run \/ ProbeTimer
  \/ \E r \in Request : RegisterObject(r) \/ EmbedSWF(r) \/ Leave(r)
  \/ SwitchOffAutoHideShow
  \/ ExpressInstallCallback

Spec == Init /\ [][Next]_vars

\* The document loads, events are dispatched, timers expire and handlers run
\* to their end.  The user may never answer the installer.
FairSpec ==
  /\ Spec
  /\ WF_vars(Parse) /\ WF_vars(Run) /\ WF_vars(ProbeTimer)
  /\ \A e \in {"direct", "load", "readystatechange"} : WF_vars(DomEvent(e))

-----------------------------------------------------------------------------
Installing(r) == isExpressInstallActive /\ stored.callback = r

\* Each request is called back once at most, and with the truth: after success
\* its movie is in the page, after failure its alternative content, although
\* events come twice, versions change and the installer puts things back.
\* (A request without an element is told anything.)
ToldTheTruth ==
  \A r \in Request :
    /\ Len(told[r]) <= 1
    /\ r \in layout.present /\ told[r] # <<>> =>
         elem[r] \in IF told[r][1] THEN {"movie", "object"}
                     ELSE IF pv = Zero THEN {"object", "div"} ELSE {"content", "div"}

Visible(r) ==
  \/ elem[r] \in {"installer", "content"}
  \/ elem[r] = "movie" /\ r \notin SameId
  \/ style[r] = "visible"
  \/ style[r] = "unset" /\ css[r] # "hidden"

\* What was hidden when the request was made is shown again when it has been
\* answered, by whatever stands there now, unless the page switched the hiding
\* off in between.
NothingLeftHidden ==
  \A r \in layout.present : (told[r] # <<>> \/ Installing(r)) /\ autoHideShow => Visible(r)

\* One installer at most, and what it will put back is what it stands for.
OneInstaller ==
  \A r \in Request : elem[r] = "installer" =>
    /\ isExpressInstallActive
    /\ stored = [callback |-> r, content |-> r]

\* "More precise" is what static requests wait for: none is decided on a
\* version that the probe corrects later.
DecidedOnPrecise ==
  \A r \in Static : told[r] # <<>> /\ r \in layout.present /\ pv # Zero =>
    (told[r][1] <=> HasPlayerVersion(Required))

\* The requests nothing answers: no element where one is needed, or too late.
Unanswered(r) == r \notin layout.present \/ r \in late

\* Every other request is answered, or the installer stands for it.
RequestsAnswered ==
  \A r \in Request :
    r \in asked ~> (told[r] # <<>> \/ Installing(r) \/ Unanswered(r))
=============================================================================
