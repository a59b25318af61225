-------------------------- MODULE Swfobject_proofs --------------------------
(***************************************************************************)
(* Proofs about Swfobject, for any requests, versions, browsers and pages: *)
(* whatever order the document, the probe, the requests and the installer  *)
(* come in, a request is answered once at most and with the truth, shows   *)
(* what it hid, and shares one installer with the others.                  *)
(***************************************************************************)
EXTENDS Swfobject, SequenceTheorems, TLAPS

-----------------------------------------------------------------------------
(* The inductive invariant.                                                *)

Function == {Main, Probe} \cup {Match(r) : r \in Static} \cup {Embed(r) : r \in Dynamic}
Content  == {"missing", "object", "div", "movie", "content", "installer"}

Types ==
  /\ layout.present \subseteq Request
  /\ pv \in Version \cup {Zero} /\ installed \in Version \cup {Zero}
  /\ isDomLoaded \in BOOLEAN /\ isExpressInstallActive \in BOOLEAN /\ autoHideShow \in BOOLEAN
  /\ probe \in {"off", "asked", "done"}
  /\ domLoadFnArr \in Seq(Function) /\ todo \in Seq(Function) /\ regObjArr \in Seq(Static)
  /\ elem \in [Request -> Content]
  /\ stored \in [callback : Request \cup {None}, content : Request \cup {None}]
  /\ told \in [Request -> Seq(BOOLEAN)]
  /\ style \in [Request -> {"unset", "hidden", "visible"}]
  /\ css \in [Request -> {"unset", "hidden", "visible"}]

\* The functions still to be called fit the state of the document and of the
\* probe, and main or the probe comes first.
InOrder ==
  /\ ~isDomLoaded => todo = <<>> /\ probe = "off"
  /\ 1 \in DOMAIN domLoadFnArr
  /\ \A i \in DOMAIN domLoadFnArr : domLoadFnArr[i].fn = IF i = 1 THEN "main" ELSE "embed"
  /\ \A i \in DOMAIN todo :
       /\ todo[i].fn = "main" => i = 1 /\ probe = "off"
       /\ todo[i].fn = "probe" => i = 1 /\ probe = "asked"
       /\ todo[i].fn = "match" => probe = "done"

\* Nothing is called twice for a request.
Distinct ==
  /\ \A i, j \in DOMAIN domLoadFnArr : domLoadFnArr[i].of = domLoadFnArr[j].of => i = j
  /\ \A i, j \in DOMAIN todo : todo[i].of = todo[j].of => i = j
  /\ \A i, j \in DOMAIN regObjArr : regObjArr[i] = regObjArr[j] => i = j

\* What stands at the place of a request before it is looked at.
First(r) == IF r \notin layout.present THEN "missing" ELSE IF r \in Static THEN "object" ELSE "div"

Untouched(r) == told[r] = <<>> /\ ~Installing(r) /\ elem[r] = First(r)

\* A function has still to be called for a request.
Waiting(r) == \E i \in DOMAIN todo : todo[i].of = r

\* A request is not touched before its turn.
BeforeItsTurn ==
  /\ ~isDomLoaded => \A r \in Request : Untouched(r)
  /\ probe # "done" => \A r \in Static : Untouched(r)
  /\ \A r \in Request \ asked : Untouched(r)
  /\ \A i \in DOMAIN domLoadFnArr : i # 1 => domLoadFnArr[i].of \in asked
  /\ \A i \in DOMAIN regObjArr : regObjArr[i] \in asked
  /\ \A r \in Request : Waiting(r) => r \in asked /\ Untouched(r)

\* What a request that has been answered left behind.
Answered(r) ==
  /\ Len(told[r]) = 1
  /\ r \in layout.present =>
       /\ told[r][1] => elem[r] \in {"movie", "object"}
       /\ ~told[r][1] /\ r \in Dynamic => elem[r] = "div"
       /\ ~told[r][1] /\ r \in Static => elem[r] = IF pv = Zero THEN "object" ELSE "content"
       /\ r \in Static /\ pv # Zero => (told[r][1] <=> HasPlayerVersion(Required))

\* What is known while the installer stands for a request.
BeingInstalled(r) ==
  /\ told[r] = <<>>
  /\ r \in layout.present => elem[r] = "installer"
  /\ r \in Static => r \in layout.present /\ pv # Zero /\ ~HasPlayerVersion(Required)

AfterItsTurn ==
  \A r \in Request :
    /\ told[r] # <<>> => Answered(r)
    /\ Installing(r) => BeingInstalled(r)
    /\ r \notin layout.present => elem[r] = "missing"

SwfInv ==
  /\ Types /\ InOrder /\ Distinct /\ BeforeItsTurn /\ AfterItsTurn
  /\ OneInstaller /\ NothingLeftHidden

-----------------------------------------------------------------------------
(* Facts about the functions to be called.                                 *)

LEMMA FunctionFields ==
  ASSUME NEW f \in Function
  PROVE  /\ f.fn \in {"main", "probe", "match", "embed"}
         /\ f.fn \in {"main", "probe"} => f.of = None
         /\ f.fn = "match" => f.of \in Static /\ f.of \in Request
         /\ f.fn = "embed" => f.of \in Dynamic /\ f.of \in Request
BY DEF Function, Main, Probe, Match, Embed, Request

LEMMA Made ==
  /\ Main \in Function /\ Main.fn = "main" /\ Main.of = None
  /\ Probe \in Function /\ Probe.fn = "probe" /\ Probe.of = None
  /\ \A r \in Static : Match(r) \in Function /\ Match(r).fn = "match" /\ Match(r).of = r
  /\ \A r \in Dynamic : Embed(r) \in Function /\ Embed(r).fn = "embed" /\ Embed(r).of = r
BY DEF Function, Main, Probe, Match, Embed

LEMMA RestEntries ==
  ASSUME NEW S, NEW q \in Seq(S), q # <<>>
  PROVE  /\ 1 \in DOMAIN q /\ Head(q) = q[1] /\ Head(q) \in S
         /\ Tail(q) \in Seq(S)
         /\ \A i \in DOMAIN Tail(q) : i \in Nat /\ i + 1 \in DOMAIN q /\ i + 1 # 1 /\ Tail(q)[i] = q[i + 1]
BY HeadTailProperties

LEMMA ConcatEntries ==
  ASSUME NEW S, NEW p \in Seq(S), NEW q \in Seq(S)
  PROVE  /\ p \o q \in Seq(S)
         /\ \A i \in DOMAIN p : (p \o q)[i] = p[i]
         /\ \A i \in DOMAIN (p \o q) :
              \/ i \in DOMAIN p /\ (p \o q)[i] = p[i]
              \/ i - Len(p) \in DOMAIN q /\ i \notin DOMAIN p /\ (p \o q)[i] = q[i - Len(p)]
         /\ \A i \in DOMAIN (p \o q) : i \in Nat
         /\ Len(p) \in Nat
BY ConcatProperties

LEMMA AppendEntries ==
  ASSUME NEW S, NEW q \in Seq(S), NEW e \in S
  PROVE  /\ Append(q, e) \in Seq(S)
         /\ \A i \in DOMAIN Append(q, e) :
              \/ i \in DOMAIN q /\ Append(q, e)[i] = q[i]
              \/ i = Len(q) + 1 /\ i \notin DOMAIN q /\ Append(q, e)[i] = e
         /\ Len(q) \in Nat
BY AppendProperties

LEMMA OneEntry ==
  ASSUME NEW S, NEW e \in S
  PROVE  <<e>> \in Seq(S) /\ DOMAIN <<e>> = {1} /\ <<e>>[1] = e
OBVIOUS

LEMMA NoEntry ==
  ASSUME NEW S
  PROVE  <<>> \in Seq(S) /\ DOMAIN <<>> = {}
OBVIOUS

-----------------------------------------------------------------------------
(* What a handler does to the request it is called for.                    *)

Same(x) ==
  /\ elem'[x] = elem[x] /\ told'[x] = told[x]
  /\ style'[x] = style[x] /\ css'[x] = css[x]
  /\ Installing(x)' <=> Installing(x)

\* The outcome for the request, when the others stay as they are.
Outcome(r) ==
  /\ told'[r] # <<>> => Answered(r)'
  /\ Installing(r)' => BeingInstalled(r)'
  /\ r \notin layout.present => elem'[r] = "missing"
  /\ r \in layout.present /\ (told'[r] # <<>> \/ Installing(r)') /\ autoHideShow => Visible(r)'

HandlerTypes ==
  /\ isExpressInstallActive' \in BOOLEAN
  /\ elem' \in [Request -> Content]
  /\ stored' \in [callback : Request \cup {None}, content : Request \cup {None}]
  /\ told' \in [Request -> Seq(BOOLEAN)]
  /\ style' \in [Request -> {"unset", "hidden", "visible"}]
  /\ css' \in [Request -> {"unset", "hidden", "visible"}]

Handled(r) ==
  /\ HandlerTypes
  /\ \A x \in Request \ {r} : Same(x)
  /\ Outcome(r)
  /\ OneInstaller'

\* What does not change when a handler is called for a request.
Fixed == UNCHANGED <<ua, installed, layout, isDomLoaded, pv, probe, autoHideShow>>

LEMMA ZeroVersion ==
  ASSUME SwfInv
  PROVE  /\ pv[1] \in Nat /\ pv[2] \in Nat /\ pv[3] \in Nat
         /\ pv[1] = 0 <=> pv = Zero
         /\ pv # Zero <=> pv[1] > 0
BY SwfobjectAssumption DEF SwfInv, Types, Zero

\* The installer needs a player, and that no other one is at work.
LEMMA InstallerFree ==
  ASSUME SwfInv, CanExpressInstall
  PROVE  /\ ~isExpressInstallActive /\ pv # Zero
         /\ \A x \in Request : elem[x] # "installer" /\ ~Installing(x)
<1>1. ~isExpressInstallActive /\ HasPlayerVersion(<<6, 0, 65>>)
  BY DEF CanExpressInstall
<1>2. pv # Zero
  BY <1>1 DEF HasPlayerVersion, Zero
<1>3. QED
  BY <1>1, <1>2 DEF SwfInv, OneInstaller, Installing

\* An untouched request in the page has an element, the others have none.
LEMMA FoundUntouched ==
  ASSUME NEW r \in Request, Untouched(r)
  PROVE  /\ Found(r) <=> r \in layout.present
         /\ r \in layout.present => elem[r] = IF r \in Static THEN "object" ELSE "div"
         /\ r \notin layout.present => elem[r] = "missing"
BY DEF Untouched, First, Found

LEMMA Kinds ==
  \A r \in Request : (r \in Static /\ r \notin Dynamic) \/ (r \notin Static /\ r \in Dynamic)
BY SwfobjectAssumption DEF Request

LEMMA CallBackResult ==
  ASSUME Types, NEW r \in Request, NEW success \in BOOLEAN, told[r] = <<>>, CallBack(r, success)
  PROVE  /\ told' \in [Request -> Seq(BOOLEAN)]
         /\ told'[r] = <<success>> /\ told'[r] # <<>> /\ Len(told'[r]) = 1 /\ told'[r][1] = success
         /\ \A x \in Request \ {r} : told'[x] = told[x]
<1>1. told'[r] = Append(<<>>, success) /\ told' = [told EXCEPT ![r] = Append(@, success)]
  BY DEF CallBack, Types
<1>2. Append(<<>>, success) = <<success>>
  OBVIOUS
<1>3. <<success>> \in Seq(BOOLEAN) /\ <<success>> # <<>> /\ Len(<<success>>) = 1 /\ <<success>>[1] = success
  OBVIOUS
<1>4. told' \in [Request -> Seq(BOOLEAN)] /\ \A x \in Request \ {r} : told'[x] = told[x]
  BY <1>1, <1>2, <1>3 DEF Types
<1>5. QED
  BY <1>1, <1>2, <1>3, <1>4

\* An element that can be reached is shown by its style.
LEMMA Shown ==
  ASSUME Types, NEW r \in Request, isDomLoaded, SetVisibility(r, "visible")
  PROVE  /\ style' \in [Request -> {"unset", "hidden", "visible"}]
         /\ css' \in [Request -> {"unset", "hidden", "visible"}]
         /\ \A x \in Request \ {r} : style'[x] = style[x] /\ css'[x] = css[x]
         /\ autoHideShow /\ Found(r) => style'[r] = "visible"
BY DEF Types, SetVisibility

\* The installer takes the place of a request.
LEMMA InstallerHandled ==
  ASSUME SwfInv, NEW r \in Request, Untouched(r), Fixed, CanExpressInstall,
         r \in Static => r \in layout.present /\ ~HasPlayerVersion(Required),
         ShowExpressInstall(r)
  PROVE  Handled(r)
<1>1. ~isExpressInstallActive /\ pv # Zero /\ \A x \in Request : elem[x] # "installer"
  BY InstallerFree
<1>2. told[r] = <<>> /\ (Found(r) <=> r \in layout.present)
  BY FoundUntouched DEF Untouched
<1>3. isExpressInstallActive' = TRUE /\ UNCHANGED <<style, css, told>> /\ stored'.callback = r
  BY DEF ShowExpressInstall, SwfInv, Types
<1>4. \A x \in Request \ {r} : Same(x)
  <2>1. \A x \in Request \ {r} : elem'[x] = elem[x]
    BY DEF ShowExpressInstall, Replace, SwfInv, Types
  <2>2. \A x \in Request \ {r} : ~Installing(x) /\ ~Installing(x)'
    BY <1>1, <1>3 DEF Installing
  <2>3. QED
    BY <1>3, <2>1, <2>2 DEF Same
<1>5. CASE r \in layout.present
  <2>1. stored' = [callback |-> r, content |-> r] /\ elem' = [elem EXCEPT ![r] = "installer"]
    BY <1>2, <1>5 DEF ShowExpressInstall, Replace
  <2>2. HandlerTypes
    BY <1>3, <2>1 DEF HandlerTypes, SwfInv, Types, Content
  <2>3. Outcome(r)
    <3>1. elem'[r] = "installer" /\ told'[r] = <<>>
      BY <1>2, <1>3, <2>1 DEF SwfInv, Types
    <3>2. BeingInstalled(r)'
      BY <1>1, <3>1, <1>5 DEF BeingInstalled, Fixed, HasPlayerVersion
    <3>3. Visible(r)'
      BY <3>1 DEF Visible
    <3>4. QED
      BY <1>5, <3>1, <3>2, <3>3 DEF Outcome
  <2>4. OneInstaller'
    BY <1>1, <1>3, <2>1 DEF OneInstaller, SwfInv, Types
  <2>5. QED
    BY <1>4, <2>2, <2>3, <2>4 DEF Handled
<1>6. CASE r \notin layout.present
  <2>1. stored' = [stored EXCEPT !.callback = r] /\ elem' = elem
    BY <1>2, <1>6 DEF ShowExpressInstall
  <2>2. HandlerTypes
    BY <1>3, <2>1 DEF HandlerTypes, SwfInv, Types
  <2>3. Outcome(r)
    BY <1>2, <1>3, <1>6, <2>1, FoundUntouched DEF Outcome, BeingInstalled, Fixed
  <2>4. OneInstaller'
    BY <1>1, <2>1 DEF OneInstaller
  <2>5. QED
    BY <1>4, <2>2, <2>3, <2>4 DEF Handled
<1>7. QED
  BY <1>5, <1>6

\* matchVersions, for one object.
LEMMA MatchHandled ==
  ASSUME SwfInv, isDomLoaded, NEW r \in Static, Untouched(r), Fixed, MatchObject(r)
  PROVE  Handled(r)
<1>1. r \in Request /\ r \notin Dynamic
  BY Kinds DEF Request
<1>2. /\ Found(r) <=> r \in layout.present
      /\ r \in layout.present => elem[r] = "object"
      /\ r \notin layout.present => elem[r] = "missing"
      /\ told[r] = <<>> /\ ~Installing(r)
      /\ Types
  BY <1>1, FoundUntouched DEF Untouched, SwfInv
<1>3. CASE pv[1] = 0 /\ SetVisibility(r, "visible") /\ (\E success \in {FALSE, Found(r)} : CallBack(r, success))
           /\ UNCHANGED <<elem, leaving, installVars>>
  <2>1. PICK success \in {FALSE, Found(r)} : CallBack(r, success)
    BY <1>3
  <2>2. success \in BOOLEAN
    BY DEF Found
  <2>3. QED
    <3>1. /\ told' \in [Request -> Seq(BOOLEAN)]
          /\ told'[r] = <<success>> /\ told'[r] # <<>> /\ Len(told'[r]) = 1 /\ told'[r][1] = success
          /\ \A x \in Request \ {r} : told'[x] = told[x]
      BY <1>1, <1>2, <2>1, <2>2, CallBackResult
    <3>2. /\ style' \in [Request -> {"unset", "hidden", "visible"}]
          /\ css' \in [Request -> {"unset", "hidden", "visible"}]
          /\ \A x \in Request \ {r} : style'[x] = style[x] /\ css'[x] = css[x]
          /\ autoHideShow /\ Found(r) => style'[r] = "visible"
      BY <1>1, <1>2, <1>3, Shown
    <3>3. elem' = elem /\ isExpressInstallActive' = isExpressInstallActive /\ stored' = stored
      BY <1>3 DEF installVars
    <3>4. HandlerTypes
      BY <1>2, <3>1, <3>2, <3>3 DEF HandlerTypes, Types
    <3>5. \A x \in Request \ {r} : Same(x)
      BY <3>1, <3>2, <3>3 DEF Same, Installing
    <3>6. Outcome(r)
      <4>1. pv = Zero /\ pv' = pv /\ layout' = layout
        BY <1>3, ZeroVersion DEF Fixed
      <4>2. Answered(r)'
        BY <1>1, <1>2, <3>1, <3>3, <4>1 DEF Answered
      <4>3. ~Installing(r)'
        BY <1>2, <3>3 DEF Installing
      <4>4. r \in layout.present /\ autoHideShow => Visible(r)'
        BY <1>2, <3>2 DEF Visible
      <4>5. QED
        BY <1>2, <3>3, <4>2, <4>3, <4>4 DEF Outcome
    <3>7. OneInstaller'
      BY <3>3 DEF OneInstaller, SwfInv
    <3>8. QED
      BY <3>4, <3>5, <3>6, <3>7 DEF Handled
<1>4. CASE pv[1] > 0 /\ Found(r) /\ HasPlayerVersion(Required) /\ SetVisibility(r, "visible")
           /\ CallBack(r, TRUE) /\ UNCHANGED <<elem, leaving, installVars>>
  <2>1. /\ told' \in [Request -> Seq(BOOLEAN)]
        /\ told'[r] = <<TRUE>> /\ told'[r] # <<>> /\ Len(told'[r]) = 1 /\ told'[r][1] = TRUE
        /\ \A x \in Request \ {r} : told'[x] = told[x]
    BY <1>1, <1>2, <1>4, CallBackResult
  <2>2. /\ style' \in [Request -> {"unset", "hidden", "visible"}]
        /\ css' \in [Request -> {"unset", "hidden", "visible"}]
        /\ \A x \in Request \ {r} : style'[x] = style[x] /\ css'[x] = css[x]
        /\ autoHideShow => style'[r] = "visible"
    BY <1>1, <1>2, <1>4, Shown
  <2>3. elem' = elem /\ isExpressInstallActive' = isExpressInstallActive /\ stored' = stored
    BY <1>4 DEF installVars
  <2>4. HandlerTypes
    BY <1>2, <2>1, <2>2, <2>3 DEF HandlerTypes, Types
  <2>5. \A x \in Request \ {r} : Same(x)
    BY <2>1, <2>2, <2>3 DEF Same, Installing
  <2>6. Outcome(r)
    <3>1. Answered(r)'
      BY <1>1, <1>2, <1>4, <2>1, <2>3 DEF Answered, Fixed, HasPlayerVersion
    <3>2. ~Installing(r)'
      BY <1>2, <2>3 DEF Installing
    <3>3. autoHideShow => Visible(r)'
      BY <2>2 DEF Visible
    <3>4. QED
      BY <1>2, <2>3, <3>1, <3>2, <3>3 DEF Outcome
  <2>7. OneInstaller'
    BY <2>3 DEF OneInstaller, SwfInv
  <2>8. QED
    BY <2>4, <2>5, <2>6, <2>7 DEF Handled
<1>5. CASE pv[1] > 0 /\ Found(r) /\ ~HasPlayerVersion(Required)
           /\ r \in layout.withXi /\ CanExpressInstall /\ ShowExpressInstall(r)
  BY <1>1, <1>2, <1>5, InstallerHandled
<1>6. CASE pv[1] > 0 /\ Found(r) /\ ~HasPlayerVersion(Required)
           /\ DisplayAltContent(r) /\ CallBack(r, FALSE) /\ UNCHANGED installVars
  <2>1. /\ told' \in [Request -> Seq(BOOLEAN)]
        /\ told'[r] = <<FALSE>> /\ told'[r] # <<>> /\ Len(told'[r]) = 1 /\ told'[r][1] = FALSE
        /\ \A x \in Request \ {r} : told'[x] = told[x]
    BY <1>1, <1>2, <1>6, CallBackResult
  <2>2. elem' = [elem EXCEPT ![r] = "content"] /\ UNCHANGED <<style, css, isExpressInstallActive, stored>>
    BY <1>6 DEF DisplayAltContent, Replace, installVars
  <2>3. HandlerTypes
    BY <1>2, <2>1, <2>2 DEF HandlerTypes, Types, Content
  <2>4. \A x \in Request \ {r} : Same(x)
    BY <1>2, <2>1, <2>2 DEF Same, Installing, Types
  <2>5. elem'[r] = "content"
    BY <1>1, <1>2, <2>2 DEF Types
  <2>6. Outcome(r)
    <3>1. pv # Zero
      BY <1>6, ZeroVersion
    <3>2. Answered(r)'
      BY <1>1, <1>6, <2>1, <2>5, <3>1 DEF Answered, Fixed, HasPlayerVersion
    <3>3. ~Installing(r)'
      BY <1>2, <2>2 DEF Installing
    <3>4. Visible(r)'
      BY <2>5 DEF Visible
    <3>5. QED
      BY <1>2, <1>6, <3>2, <3>3, <3>4 DEF Outcome
  <2>7. OneInstaller'
    BY <1>2, <2>2 DEF OneInstaller, SwfInv, Types
  <2>8. QED
    BY <2>3, <2>4, <2>6, <2>7 DEF Handled
<1>7. CASE ~Found(r) /\ UNCHANGED <<style, css, elem, leaving, installVars, told>>
  <2>1. UNCHANGED <<style, css, elem, isExpressInstallActive, stored, told>>
    BY <1>7 DEF installVars
  <2>2. HandlerTypes
    BY <1>2, <2>1 DEF HandlerTypes, Types
  <2>3. \A x \in Request : Same(x)
    BY <2>1 DEF Same, Installing
  <2>4. Outcome(r)
    BY <1>2, <1>7, <2>1 DEF Outcome, Installing
  <2>5. OneInstaller'
    BY <2>1 DEF OneInstaller, SwfInv
  <2>6. QED
    BY <2>2, <2>3, <2>4, <2>5 DEF Handled
<1>8. QED
  BY <1>3, <1>4, <1>5, <1>6, <1>7 DEF MatchObject

\* The function embedSWF adds, for its request.
LEMMA EmbedHandled ==
  ASSUME SwfInv, isDomLoaded, NEW r \in Dynamic, Untouched(r), Fixed, EmbedObject(r)
  PROVE  Handled(r)
<1>1. r \in Request /\ r \notin Static
  BY Kinds DEF Request
<1>2. /\ Found(r) <=> r \in layout.present
      /\ r \in layout.present => elem[r] = "div"
      /\ r \notin layout.present => elem[r] = "missing"
      /\ told[r] = <<>> /\ ~Installing(r)
      /\ Types
  BY <1>1, FoundUntouched DEF Untouched, SwfInv
<1>3. CASE HasPlayerVersion(Required) /\ CreateSWF(r) /\ CallBack(r, TRUE) /\ UNCHANGED installVars
  <2>1. /\ told' \in [Request -> Seq(BOOLEAN)]
        /\ told'[r] = <<TRUE>> /\ told'[r] # <<>> /\ Len(told'[r]) = 1 /\ told'[r][1] = TRUE
        /\ \A x \in Request \ {r} : told'[x] = told[x]
    BY <1>1, <1>2, <1>3, CallBackResult
  <2>2. isExpressInstallActive' = isExpressInstallActive /\ stored' = stored
    BY <1>3 DEF installVars
  <2>3. /\ elem' \in [Request -> Content]
        /\ style' \in [Request -> {"unset", "hidden", "visible"}]
        /\ css' \in [Request -> {"unset", "hidden", "visible"}]
        /\ \A x \in Request \ {r} : elem'[x] = elem[x] /\ style'[x] = style[x] /\ css'[x] = css[x]
        /\ r \in layout.present =>
             elem'[r] = "movie" /\ (r \in SameId /\ autoHideShow => style'[r] = "visible")
        /\ r \notin layout.present => elem'[r] = "missing"
    <3>1. CASE Found(r)
      BY <1>1, <1>2, <1>3, <3>1 DEF CreateSWF, Types, Content
    <3>2. CASE ~Found(r)
      <4>1. elem' = elem /\ (r \in SameId \/ UNCHANGED <<style, css>>)
        BY <1>3, <3>2 DEF CreateSWF
      <4>2. r \in SameId => SetVisibility(r, "visible")
        BY <1>3, <3>2 DEF CreateSWF
      <4>3. r \in SameId =>
              /\ style' \in [Request -> {"unset", "hidden", "visible"}]
              /\ css' \in [Request -> {"unset", "hidden", "visible"}]
              /\ \A x \in Request \ {r} : style'[x] = style[x] /\ css'[x] = css[x]
        BY <1>1, <1>2, <4>2, Shown
      <4>4. QED
        BY <1>2, <3>2, <4>1, <4>3 DEF Types
    <3>3. QED
      BY <3>1, <3>2
  <2>4. HandlerTypes
    BY <1>2, <2>1, <2>2, <2>3 DEF HandlerTypes, Types
  <2>5. \A x \in Request \ {r} : Same(x)
    BY <2>1, <2>2, <2>3 DEF Same, Installing
  <2>6. Outcome(r)
    <3>1. Answered(r)'
      BY <1>1, <2>1, <2>3 DEF Answered, Fixed
    <3>2. ~Installing(r)'
      BY <1>2, <2>2 DEF Installing
    <3>3. r \in layout.present /\ autoHideShow => Visible(r)'
      BY <2>3 DEF Visible
    <3>4. QED
      BY <2>3, <3>1, <3>2, <3>3 DEF Outcome
  <2>7. OneInstaller'
    BY <2>2, <2>3 DEF OneInstaller, SwfInv
  <2>8. QED
    BY <2>4, <2>5, <2>6, <2>7 DEF Handled
<1>4. CASE r \in layout.withXi /\ CanExpressInstall /\ ShowExpressInstall(r)
  BY <1>1, <1>4, InstallerHandled
<1>5. CASE SetVisibility(r, "visible") /\ CallBack(r, FALSE) /\ UNCHANGED <<elem, leaving, installVars>>
  <2>1. /\ told' \in [Request -> Seq(BOOLEAN)]
        /\ told'[r] = <<FALSE>> /\ told'[r] # <<>> /\ Len(told'[r]) = 1 /\ told'[r][1] = FALSE
        /\ \A x \in Request \ {r} : told'[x] = told[x]
    BY <1>1, <1>2, <1>5, CallBackResult
  <2>2. /\ style' \in [Request -> {"unset", "hidden", "visible"}]
        /\ css' \in [Request -> {"unset", "hidden", "visible"}]
        /\ \A x \in Request \ {r} : style'[x] = style[x] /\ css'[x] = css[x]
        /\ autoHideShow /\ Found(r) => style'[r] = "visible"
    BY <1>1, <1>2, <1>5, Shown
  <2>3. elem' = elem /\ isExpressInstallActive' = isExpressInstallActive /\ stored' = stored
    BY <1>5 DEF installVars
  <2>4. HandlerTypes
    BY <1>2, <2>1, <2>2, <2>3 DEF HandlerTypes, Types
  <2>5. \A x \in Request \ {r} : Same(x)
    BY <2>1, <2>2, <2>3 DEF Same, Installing
  <2>6. Outcome(r)
    <3>1. Answered(r)'
      BY <1>1, <1>2, <2>1, <2>3 DEF Answered, Fixed
    <3>2. ~Installing(r)'
      BY <1>2, <2>3 DEF Installing
    <3>3. r \in layout.present /\ autoHideShow => Visible(r)'
      BY <1>2, <2>2 DEF Visible
    <3>4. QED
      BY <1>2, <2>3, <3>1, <3>2, <3>3 DEF Outcome
  <2>7. OneInstaller'
    BY <2>3 DEF OneInstaller, SwfInv
  <2>8. QED
    BY <2>4, <2>5, <2>6, <2>7 DEF Handled
<1>6. QED
  BY <1>3, <1>4, <1>5 DEF EmbedObject

-----------------------------------------------------------------------------
(* The steps.                                                              *)

\* A handler called for the first function of the list leaves the rest of the
\* list, and everybody else, as it was.
LEMMA HandledKeepsInv ==
  ASSUME SwfInv, todo # <<>>, NEW r \in Request, r = todo[1].of, todo[1].fn \in {"match", "embed"},
         Fixed, Handled(r), todo' = Tail(todo), UNCHANGED <<domLoadFnArr, regObjArr, asked>>
  PROVE  SwfInv'
<1>1. /\ 1 \in DOMAIN todo
      /\ Tail(todo) \in Seq(Function)
      /\ \A i \in DOMAIN Tail(todo) : i \in Nat /\ i + 1 \in DOMAIN todo /\ i + 1 # 1 /\ Tail(todo)[i] = todo[i + 1]
  BY RestEntries DEF SwfInv, Types
<1>2. r \in asked /\ Untouched(r) /\ isDomLoaded /\ (r \in Static => probe = "done")
  <2>1. todo[1] \in Function
    BY <1>1 DEF SwfInv, Types
  <2>2. r \in Static => todo[1].fn = "match"
    BY <2>1, FunctionFields, Kinds
  <2>3. Waiting(r)
    BY <1>1 DEF Waiting
  <2>4. QED
    BY <1>1, <2>2, <2>3 DEF SwfInv, InOrder, BeforeItsTurn
<1>3. Types'
  BY <1>1 DEF SwfInv, Types, Handled, HandlerTypes, Fixed
<1>4. InOrder'
  <2>1. \A i \in DOMAIN todo' :
          /\ todo'[i].fn \notin {"main", "probe"}
          /\ todo'[i].fn = "match" => probe' = "done"
    BY <1>1 DEF SwfInv, InOrder, Fixed
  <2>2. QED
    BY <1>2, <2>1 DEF SwfInv, InOrder, Fixed
<1>5. Distinct'
  <2>1. ASSUME NEW i \in DOMAIN todo', NEW j \in DOMAIN todo', todo'[i].of = todo'[j].of
        PROVE  i = j
    <3>1. i + 1 = j + 1
      BY <1>1, <2>1 DEF SwfInv, Distinct
    <3>2. QED
      BY <1>1, <3>1
  <2>2. QED
    BY <2>1 DEF SwfInv, Distinct
<1>6. \A x \in Request \ {r} : Untouched(x) => Untouched(x)'
  BY DEF Handled, Same, Untouched, First, Fixed
<1>7. BeforeItsTurn'
  <2>1. ASSUME NEW x \in Request, Waiting(x)'
        PROVE  x \in asked /\ Untouched(x)'
    <3>1. PICK i \in DOMAIN todo' : todo'[i].of = x
      BY <2>1 DEF Waiting
    <3>2. i + 1 \in DOMAIN todo /\ i + 1 # 1 /\ todo[i + 1].of = x
      BY <1>1, <3>1
    <3>3. x # r
      BY <1>1, <3>2 DEF SwfInv, Distinct
    <3>4. Waiting(x)
      BY <3>2 DEF Waiting
    <3>5. QED
      BY <1>6, <3>3, <3>4 DEF SwfInv, BeforeItsTurn
  <2>2. \A x \in Request \ asked : Untouched(x)'
    BY <1>2, <1>6 DEF SwfInv, BeforeItsTurn
  <2>3. probe # "done" => \A x \in Static : Untouched(x)'
    BY <1>2, <1>6 DEF SwfInv, BeforeItsTurn, Request
  <2>4. QED
    BY <1>2, <2>1, <2>2, <2>3 DEF SwfInv, BeforeItsTurn, Fixed
<1>8. AfterItsTurn'
  <2>1. ASSUME NEW x \in Request
        PROVE  /\ told'[x] # <<>> => Answered(x)'
               /\ Installing(x)' => BeingInstalled(x)'
               /\ x \notin layout'.present => elem'[x] = "missing"
    <3>1. CASE x = r
      BY <3>1 DEF Handled, Outcome, Fixed
    <3>2. CASE x # r
      <4>1. Same(x)
        BY <3>2 DEF Handled
      <4>2. /\ told[x] # <<>> => Answered(x)
            /\ Installing(x) => BeingInstalled(x)
            /\ x \notin layout.present => elem[x] = "missing"
        BY DEF SwfInv, AfterItsTurn
      <4>3. QED
        BY <4>1, <4>2 DEF Same, Fixed, Answered, BeingInstalled, HasPlayerVersion
    <3>3. QED
      BY <3>1, <3>2
  <2>2. QED
    BY <2>1 DEF AfterItsTurn
<1>9. NothingLeftHidden'
  <2>1. ASSUME NEW x \in layout.present, told'[x] # <<>> \/ Installing(x)', autoHideShow
        PROVE  Visible(x)'
    <3>1. CASE x = r
      BY <2>1, <3>1 DEF Handled, Outcome
    <3>2. CASE x # r
      <4>1. Same(x)
        BY <3>2 DEF Handled, SwfInv, Types
      <4>2. Visible(x)
        BY <2>1, <4>1 DEF Same, SwfInv, NothingLeftHidden
      <4>3. QED
        BY <4>1, <4>2 DEF Same, Visible
    <3>3. QED
      BY <3>1, <3>2
  <2>2. QED
    BY <2>1 DEF NothingLeftHidden, Fixed
<1>10. QED
  BY <1>3, <1>4, <1>5, <1>7, <1>8, <1>9 DEF SwfInv, Handled

LEMMA RunMatchKeepsInv ==
  ASSUME SwfInv, RunMatch
  PROVE  SwfInv'
<1>1. /\ todo # <<>> /\ todo' = Tail(todo)
      /\ 1 \in DOMAIN todo /\ Head(todo) = todo[1] /\ todo[1] \in Function
  BY RestEntries DEF SwfInv, Types, RunMatch, Calls, Rest
<1>2. todo[1].fn = "match" /\ MatchObject(todo[1].of)
  BY <1>1 DEF RunMatch, Calls
<1>3. todo[1].of \in Static /\ todo[1].of \in Request
  BY <1>1, <1>2, FunctionFields
<1>4. Waiting(todo[1].of) /\ isDomLoaded
  BY <1>1 DEF Waiting, SwfInv, InOrder
<1>5. Untouched(todo[1].of)
  BY <1>3, <1>4 DEF SwfInv, BeforeItsTurn
<1>6. Fixed /\ UNCHANGED <<domLoadFnArr, regObjArr, asked>>
  BY DEF RunMatch, Fixed, envVars, loadVars
<1>7. PICK x \in Static : x = todo[1].of
  BY <1>3
<1>8. MatchObject(x) /\ Untouched(x) /\ x \in Request
  BY <1>2, <1>3, <1>5, <1>7
<1>9. Handled(x)
  BY <1>4, <1>6, <1>8, MatchHandled
<1>10. QED
  BY <1>1, <1>2, <1>6, <1>7, <1>8, <1>9, HandledKeepsInv

LEMMA RunEmbedKeepsInv ==
  ASSUME SwfInv, RunEmbed
  PROVE  SwfInv'
<1>1. /\ todo # <<>> /\ todo' = Tail(todo)
      /\ 1 \in DOMAIN todo /\ Head(todo) = todo[1] /\ todo[1] \in Function
  BY RestEntries DEF SwfInv, Types, RunEmbed, Calls, Rest
<1>2. todo[1].fn = "embed" /\ EmbedObject(todo[1].of)
  BY <1>1 DEF RunEmbed, Calls
<1>3. todo[1].of \in Dynamic /\ todo[1].of \in Request
  BY <1>1, <1>2, FunctionFields
<1>4. Waiting(todo[1].of) /\ isDomLoaded
  BY <1>1 DEF Waiting, SwfInv, InOrder
<1>5. Untouched(todo[1].of)
  BY <1>3, <1>4 DEF SwfInv, BeforeItsTurn
<1>6. Fixed /\ UNCHANGED <<domLoadFnArr, regObjArr, asked>>
  BY DEF RunEmbed, Fixed, envVars, loadVars
<1>7. PICK x \in Dynamic : x = todo[1].of
  BY <1>3
<1>8. EmbedObject(x) /\ Untouched(x) /\ x \in Request
  BY <1>2, <1>3, <1>5, <1>7
<1>9. Handled(x)
  BY <1>4, <1>6, <1>8, EmbedHandled
<1>10. QED
  BY <1>1, <1>2, <1>6, <1>7, <1>8, <1>9, HandledKeepsInv

\* A step that puts nothing into the page keeps what is said of the requests:
\* the version may become more precise while no static request has been looked
\* at, and what is hidden belongs to a request that has not been either.
LEMMA RequestsKept ==
  ASSUME SwfInv, UNCHANGED <<layout, elem, told, isExpressInstallActive, stored>>,
         pv' = pv \/ \A r \in Static : Untouched(r),
         autoHideShow' => autoHideShow,
         \A r \in Request : Untouched(r) \/ (style'[r] = style[r] /\ css'[r] = css[r])
  PROVE  /\ AfterItsTurn' /\ OneInstaller' /\ NothingLeftHidden'
         /\ \A r \in Request : Untouched(r)' <=> Untouched(r)
<1>1. \A r \in Request : Untouched(r)' <=> Untouched(r)
  BY DEF Untouched, Installing, First
<1>2. AfterItsTurn'
  <2>1. ASSUME NEW r \in Request
        PROVE  /\ told'[r] # <<>> => Answered(r)'
               /\ Installing(r)' => BeingInstalled(r)'
               /\ r \notin layout'.present => elem'[r] = "missing"
    <3>1. /\ told[r] # <<>> => Answered(r)
          /\ Installing(r) => BeingInstalled(r)
          /\ r \notin layout.present => elem[r] = "missing"
      BY DEF SwfInv, AfterItsTurn
    <3>2. CASE pv' = pv
      BY <3>1, <3>2 DEF Answered, BeingInstalled, Installing, HasPlayerVersion
    <3>3. CASE r \in Dynamic
      BY <3>1, <3>3, Kinds DEF Answered, BeingInstalled, Installing
    <3>4. CASE Untouched(r)
      BY <3>1, <3>4 DEF Untouched, Installing
    <3>5. QED
      BY <3>2, <3>3, <3>4, Kinds
  <2>2. QED
    BY <2>1 DEF AfterItsTurn
<1>3. OneInstaller'
  BY DEF SwfInv, OneInstaller
<1>4. NothingLeftHidden'
  <2>1. ASSUME NEW r \in layout.present, told[r] # <<>> \/ Installing(r), autoHideShow
        PROVE  Visible(r)'
    <3>1. Visible(r) /\ r \in Request
      BY <2>1 DEF SwfInv, NothingLeftHidden, Types
    <3>2. style'[r] = style[r] /\ css'[r] = css[r]
      BY <2>1, <3>1 DEF Untouched
    <3>3. QED
      BY <3>1, <3>2 DEF Visible
  <2>2. QED
    BY <2>1 DEF NothingLeftHidden, Installing
<1>5. QED
  BY <1>1, <1>2, <1>3, <1>4

LEMMA InitInv == Init => SwfInv
<1> SUFFICES ASSUME Init
             PROVE  SwfInv
  OBVIOUS
<1>1. \A r \in Request : elem[r] = First(r) /\ told[r] = <<>> /\ ~Installing(r)
  BY DEF Init, First, Installing
<1>2. \A r \in Request : Untouched(r)
  BY <1>1 DEF Untouched
<1>3. domLoadFnArr \in Seq(Function) /\ DOMAIN domLoadFnArr = {1} /\ domLoadFnArr[1] = Main
  BY OneEntry, Made DEF Init
<1>4. todo = <<>> /\ regObjArr = <<>> /\ DOMAIN todo = {} /\ DOMAIN regObjArr = {}
  BY NoEntry DEF Init
<1>5. Types
  <2>1. todo \in Seq(Function) /\ regObjArr \in Seq(Static)
    BY <1>4, NoEntry
  <2>2. pv \in Version \cup {Zero} /\ installed \in Version \cup {Zero}
    BY DEF Init, DetectVersion
  <2>3. layout.present \subseteq Request
    BY SwfobjectAssumption DEF Init, Layout, Request
  <2>4. <<>> \in Seq(BOOLEAN)
    BY NoEntry
  <2>5. elem \in [Request -> Content]
    BY DEF Init, Content
  <2>6. /\ told \in [Request -> Seq(BOOLEAN)]
        /\ style \in [Request -> {"unset", "hidden", "visible"}]
        /\ css \in [Request -> {"unset", "hidden", "visible"}]
        /\ stored \in [callback : Request \cup {None}, content : Request \cup {None}]
    BY <2>4 DEF Init
  <2>7. QED
    BY <1>3, <2>1, <2>2, <2>3, <2>5, <2>6 DEF Types, Init
<1>6. InOrder
  BY <1>3, <1>4, Made DEF InOrder, Init
<1>7. Distinct
  BY <1>3, <1>4 DEF Distinct
<1>8. BeforeItsTurn
  BY <1>2, <1>3, <1>4 DEF BeforeItsTurn, Waiting, Request
<1>9. AfterItsTurn /\ NothingLeftHidden
  BY <1>1, <1>5 DEF AfterItsTurn, NothingLeftHidden, First, Types
<1>10. OneInstaller
  BY <1>1 DEF OneInstaller, First
<1>11. QED
  BY <1>5, <1>6, <1>7, <1>8, <1>9, <1>10 DEF SwfInv

\* The document goes on, an object leaves, the hiding is switched off.
LEMMA QuietKeepsInv ==
  ASSUME SwfInv,
         \/ Parse \/ SwitchOffAutoHideShow \/ (\E r \in Request : Leave(r))
         \/ UNCHANGED vars
  PROVE  SwfInv'
<1>1. /\ UNCHANGED <<layout, installed, elem, told, isExpressInstallActive, stored, pv, style, css>>
      /\ UNCHANGED <<isDomLoaded, domLoadFnArr, regObjArr, todo, probe, asked>>
      /\ autoHideShow' = autoHideShow \/ autoHideShow' = FALSE
  BY DEF Parse, SwitchOffAutoHideShow, Leave, vars, envVars, loadVars, viewVars, installVars
<1>2. autoHideShow' => autoHideShow
  BY <1>1 DEF SwfInv, Types
<1>3. /\ AfterItsTurn' /\ OneInstaller' /\ NothingLeftHidden'
      /\ \A r \in Request : Untouched(r)' <=> Untouched(r)
  BY <1>1, <1>2, RequestsKept
<1>4. Types'
  BY <1>1 DEF SwfInv, Types
<1>5. InOrder' /\ Distinct'
  BY <1>1 DEF SwfInv, InOrder, Distinct
<1>6. BeforeItsTurn'
  <2>1. \A r \in Request : Waiting(r)' <=> Waiting(r)
    BY <1>1 DEF Waiting
  <2>2. QED
    BY <1>1, <1>3, <2>1 DEF SwfInv, BeforeItsTurn, Request
<1>7. QED
  BY <1>3, <1>4, <1>5, <1>6 DEF SwfInv

\* An event of the document.
LEMMA DomEventKeepsInv ==
  ASSUME SwfInv, NEW e, DomEvent(e)
  PROVE  SwfInv'
<1>1. /\ UNCHANGED <<layout, installed, elem, told, isExpressInstallActive, stored, pv, style, css>>
      /\ UNCHANGED <<autoHideShow, domLoadFnArr, regObjArr, probe, asked>>
  BY DEF DomEvent, envVars, viewVars, installVars
<1>2. /\ AfterItsTurn' /\ OneInstaller' /\ NothingLeftHidden'
      /\ \A r \in Request : Untouched(r)' <=> Untouched(r)
  BY <1>1, RequestsKept
<1>3. CASE UNCHANGED <<isDomLoaded, todo>>
  <2>1. Types' /\ InOrder' /\ Distinct'
    BY <1>1, <1>3 DEF SwfInv, Types, InOrder, Distinct
  <2>2. \A r \in Request : Waiting(r)' <=> Waiting(r)
    BY <1>3 DEF Waiting
  <2>3. BeforeItsTurn'
    BY <1>1, <1>2, <1>3, <2>2 DEF SwfInv, BeforeItsTurn, Request
  <2>4. QED
    BY <1>2, <2>1, <2>3 DEF SwfInv
<1>4. CASE ~isDomLoaded /\ isDomLoaded' = TRUE /\ todo' = domLoadFnArr
  <2>1. Types'
    BY <1>1, <1>4 DEF SwfInv, Types
  <2>2. InOrder'
    BY <1>1, <1>4 DEF SwfInv, InOrder
  <2>3. Distinct'
    BY <1>1, <1>4 DEF SwfInv, Distinct
  <2>4. ASSUME NEW r \in Request, Waiting(r)'
        PROVE  r \in asked /\ Untouched(r)
    <3>1. PICK i \in DOMAIN domLoadFnArr : domLoadFnArr[i].of = r
      BY <1>4, <2>4 DEF Waiting
    <3>2. i # 1
      <4>1. domLoadFnArr[i] \in Function /\ None \notin Request
        BY SwfobjectAssumption DEF SwfInv, Types, Request
      <4>2. domLoadFnArr[i].fn # "main"
        BY <3>1, <4>1, FunctionFields
      <4>3. QED
        BY <4>2 DEF SwfInv, InOrder
    <3>3. QED
      BY <1>4, <3>1, <3>2 DEF SwfInv, BeforeItsTurn
  <2>5. BeforeItsTurn'
    BY <1>1, <1>2, <1>4, <2>4 DEF SwfInv, BeforeItsTurn, Request
  <2>6. QED
    BY <1>2, <2>1, <2>2, <2>3, <2>5 DEF SwfInv
<1>5. QED
  BY <1>3, <1>4 DEF DomEvent, CallDomLoadFunctions

\* The functions that match the versions of the registered objects.
Matches == [i \in DOMAIN regObjArr |-> Match(regObjArr[i])]

LEMMA MatchesEntries ==
  ASSUME Types
  PROVE  /\ Matches \in Seq(Function) /\ DOMAIN Matches = DOMAIN regObjArr
         /\ \A i \in DOMAIN Matches :
              /\ Matches[i].of = regObjArr[i] /\ Matches[i].fn = "match"
              /\ Matches[i].of \in Static
<1>1. Len(regObjArr) \in Nat /\ DOMAIN regObjArr = 1..Len(regObjArr)
      /\ \A i \in DOMAIN regObjArr : regObjArr[i] \in Static
  BY LenProperties DEF Types
<1>2. \A i \in DOMAIN regObjArr :
        /\ Match(regObjArr[i]) \in Function
        /\ Match(regObjArr[i]).of = regObjArr[i] /\ Match(regObjArr[i]).fn = "match"
  BY <1>1, Made
<1>3. Matches \in [1..Len(regObjArr) -> Function]
  BY <1>1, <1>2 DEF Matches
<1>4. Matches \in Seq(Function)
  BY <1>1, <1>3
<1>5. QED
  BY <1>1, <1>2, <1>4 DEF Matches

\* What follows main or the probe in the list: functions embedSWF added.
LEMMA AfterFirst ==
  ASSUME SwfInv, todo # <<>>, todo[1].fn \in {"main", "probe"}
  PROVE  /\ isDomLoaded /\ probe # "done"
         /\ \A r \in Static : Untouched(r)
         /\ Rest \in Seq(Function)
         /\ \A i \in DOMAIN Rest :
              /\ i \in Nat /\ i + 1 \in DOMAIN todo /\ Rest[i] = todo[i + 1]
              /\ Rest[i].fn = "embed" /\ Rest[i].of \in Dynamic
         /\ \A i, j \in DOMAIN Rest : Rest[i].of = Rest[j].of => i = j
<1>1. /\ 1 \in DOMAIN todo /\ Rest \in Seq(Function)
      /\ \A i \in DOMAIN Rest : i \in Nat /\ i + 1 \in DOMAIN todo /\ i + 1 # 1 /\ Rest[i] = todo[i + 1]
  BY RestEntries DEF Rest, SwfInv, Types
<1>2. isDomLoaded /\ probe # "done"
  BY <1>1 DEF SwfInv, InOrder
<1>3. ASSUME NEW i \in DOMAIN Rest
      PROVE  Rest[i].fn = "embed" /\ Rest[i].of \in Dynamic
  <2>1. todo[i + 1] \in Function /\ Rest[i] = todo[i + 1]
    BY <1>1 DEF SwfInv, Types
  <2>2. todo[i + 1].fn \notin {"main", "probe", "match"}
    BY <1>1, <1>2 DEF SwfInv, InOrder
  <2>3. QED
    BY <2>1, <2>2, FunctionFields
<1>4. ASSUME NEW i \in DOMAIN Rest, NEW j \in DOMAIN Rest, Rest[i].of = Rest[j].of
      PROVE  i = j
  <2>1. i + 1 = j + 1
    BY <1>1, <1>4 DEF SwfInv, Distinct
  <2>2. QED
    BY <1>1, <2>1
<1>5. QED
  BY <1>1, <1>2, <1>3, <1>4 DEF SwfInv, BeforeItsTurn

LEMMA MatchVersionsKeepsInv ==
  ASSUME SwfInv, todo # <<>>, todo[1].fn \in {"main", "probe"}, MatchVersions,
         pv' \in Version \cup {Zero},
         UNCHANGED <<layout, installed, elem, told, isExpressInstallActive, stored, style, css>>,
         UNCHANGED <<autoHideShow, isDomLoaded, domLoadFnArr, regObjArr, asked>>
  PROVE  SwfInv'
<1>1. probe' = "done" /\ todo' = Matches \o Rest
  BY DEF MatchVersions, Matches
<1>2. /\ Matches \in Seq(Function) /\ Rest \in Seq(Function)
      /\ DOMAIN Matches = DOMAIN regObjArr
      /\ \A i \in DOMAIN Matches :
           Matches[i].of = regObjArr[i] /\ Matches[i].fn = "match" /\ Matches[i].of \in Static
  BY MatchesEntries, AfterFirst DEF SwfInv
<1>3. /\ todo' \in Seq(Function) /\ Len(Matches) \in Nat
      /\ \A i \in DOMAIN todo' :
           /\ i \in Nat
           /\ \/ i \in DOMAIN Matches /\ todo'[i] = Matches[i]
              \/ i - Len(Matches) \in DOMAIN Rest /\ todo'[i] = Rest[i - Len(Matches)]
  BY <1>1, <1>2, ConcatEntries
<1>4. /\ AfterItsTurn' /\ OneInstaller' /\ NothingLeftHidden'
      /\ \A r \in Request : Untouched(r)' <=> Untouched(r)
  BY AfterFirst, RequestsKept
<1>5. Types'
  BY <1>1, <1>3 DEF SwfInv, Types
<1>6. InOrder'
  <2>1. ASSUME NEW i \in DOMAIN todo'
        PROVE  todo'[i].fn = "match" \/ todo'[i].fn = "embed"
    <3>1. CASE i \in DOMAIN Matches /\ todo'[i] = Matches[i]
      BY <1>2, <3>1
    <3>2. CASE i - Len(Matches) \in DOMAIN Rest /\ todo'[i] = Rest[i - Len(Matches)]
      BY <3>2, AfterFirst
    <3>3. QED
      BY <1>3, <3>1, <3>2
  <2>2. isDomLoaded
    BY AfterFirst
  <2>3. QED
    BY <1>1, <2>1, <2>2 DEF SwfInv, InOrder
<1>7. Distinct'
  <2>1. ASSUME NEW i \in DOMAIN todo', NEW j \in DOMAIN todo', todo'[i].of = todo'[j].of
        PROVE  i = j
    <3>1. CASE i \in DOMAIN Matches /\ todo'[i] = Matches[i]
      <4>1. todo'[j].of \in Static
        BY <1>2, <2>1, <3>1
      <4>2. j \in DOMAIN Matches /\ todo'[j] = Matches[j]
        BY <1>3, <4>1, AfterFirst, SwfobjectAssumption
      <4>3. QED
        BY <1>2, <2>1, <3>1, <4>2 DEF SwfInv, Distinct
    <3>2. CASE i - Len(Matches) \in DOMAIN Rest /\ todo'[i] = Rest[i - Len(Matches)]
      <4>1. todo'[j].of \in Dynamic
        BY <2>1, <3>2, AfterFirst
      <4>2. j - Len(Matches) \in DOMAIN Rest /\ todo'[j] = Rest[j - Len(Matches)]
        BY <1>2, <1>3, <4>1, SwfobjectAssumption
      <4>3. i - Len(Matches) = j - Len(Matches)
        BY <2>1, <3>2, <4>2, AfterFirst
      <4>4. QED
        BY <1>3, <4>3
    <3>3. QED
      BY <1>3, <3>1, <3>2
  <2>2. QED
    BY <2>1 DEF SwfInv, Distinct
<1>8. BeforeItsTurn'
  <2>1. ASSUME NEW r \in Request, Waiting(r)'
        PROVE  r \in asked /\ Untouched(r)
    <3>1. PICK i \in DOMAIN todo' : todo'[i].of = r
      BY <2>1 DEF Waiting
    <3>2. CASE i \in DOMAIN Matches /\ todo'[i] = Matches[i]
      BY <1>2, <3>1, <3>2, AfterFirst DEF SwfInv, BeforeItsTurn
    <3>3. CASE i - Len(Matches) \in DOMAIN Rest /\ todo'[i] = Rest[i - Len(Matches)]
      <4>1. Waiting(r)
        BY <3>1, <3>3, AfterFirst DEF Waiting
      <4>2. QED
        BY <4>1 DEF SwfInv, BeforeItsTurn
    <3>4. QED
      BY <1>3, <3>2, <3>3
  <2>2. QED
    BY <1>1, <1>4, <2>1, AfterFirst DEF SwfInv, BeforeItsTurn, Request
<1>9. QED
  BY <1>4, <1>5, <1>6, <1>7, <1>8 DEF SwfInv

\* main, when there is a plug-in to be asked, or the timer of the probe: the
\* probe comes first in the list.
LEMMA ProbeFirst ==
  ASSUME NEW q \in Seq(Function)
  PROVE  /\ <<Probe>> \o q \in Seq(Function)
         /\ \A i \in DOMAIN (<<Probe>> \o q) :
              \/ i = 1 /\ (<<Probe>> \o q)[i] = Probe
              \/ i - 1 \in DOMAIN q /\ i # 1 /\ i \in Nat /\ (<<Probe>> \o q)[i] = q[i - 1]
<1>1. <<Probe>> \in Seq(Function) /\ DOMAIN <<Probe>> = {1} /\ <<Probe>>[1] = Probe /\ Len(<<Probe>>) = 1
  BY OneEntry, Made
<1>2. QED
  BY <1>1, ConcatEntries

LEMMA RunMainKeepsInv ==
  ASSUME SwfInv, RunMain
  PROVE  SwfInv'
<1>1. todo # <<>> /\ 1 \in DOMAIN todo /\ todo[1].fn = "main"
  BY RestEntries DEF SwfInv, Types, RunMain, Calls
<1>2. /\ UNCHANGED <<layout, installed, elem, told, isExpressInstallActive, stored, style, css>>
      /\ UNCHANGED <<autoHideShow, isDomLoaded, domLoadFnArr, regObjArr, asked, pv>>
  BY DEF RunMain, envVars, loadVars, viewVars, installVars
<1>3. CASE MatchVersions
  <2>1. pv' \in Version \cup {Zero}
    BY <1>2 DEF SwfInv, Types
  <2>2. QED
    BY <1>1, <1>2, <1>3, <2>1, MatchVersionsKeepsInv
<1>4. CASE probe' = "asked" /\ todo' = <<Probe>> \o Rest
  <2>1. /\ AfterItsTurn' /\ OneInstaller' /\ NothingLeftHidden'
        /\ \A r \in Request : Untouched(r)' <=> Untouched(r)
    BY <1>2, RequestsKept
  <2>2. /\ todo' \in Seq(Function)
        /\ \A i \in DOMAIN todo' :
             \/ i = 1 /\ todo'[i] = Probe
             \/ i - 1 \in DOMAIN Rest /\ i # 1 /\ i \in Nat /\ todo'[i] = Rest[i - 1]
    BY <1>1, <1>4, AfterFirst, ProbeFirst
  <2>3. Types'
    BY <1>2, <1>4, <2>2 DEF SwfInv, Types
  <2>4. InOrder'
    <3>1. \A i \in DOMAIN todo' : todo'[i].fn = "embed" \/ (i = 1 /\ todo'[i].fn = "probe")
      BY <1>1, <2>2, AfterFirst, Made
    <3>2. isDomLoaded
      BY <1>1, AfterFirst
    <3>3. QED
      BY <1>2, <1>4, <3>1, <3>2 DEF SwfInv, InOrder
  <2>5. Distinct'
    <3>1. ASSUME NEW i \in DOMAIN todo', NEW j \in DOMAIN todo', todo'[i].of = todo'[j].of
          PROVE  i = j
      <4>1. \A k \in DOMAIN todo' : k # 1 => todo'[k].of \in Dynamic
        BY <1>1, <2>2, AfterFirst
      <4>2. \A k \in DOMAIN todo' : k = 1 => todo'[k].of = None
        BY <2>2, Made
      <4>3. i = 1 <=> j = 1
        BY <3>1, <4>1, <4>2, SwfobjectAssumption
      <4>4. CASE i # 1 /\ j # 1
        <5>1. i - 1 = j - 1
          BY <1>1, <2>2, <3>1, <4>4, AfterFirst
        <5>2. QED
          BY <2>2, <4>4, <5>1
      <4>5. QED
        BY <4>3, <4>4
    <3>2. QED
      BY <1>2, <3>1 DEF SwfInv, Distinct
  <2>6. BeforeItsTurn'
    <3>1. ASSUME NEW r \in Request, Waiting(r)'
          PROVE  Waiting(r)
      <4>1. PICK i \in DOMAIN todo' : todo'[i].of = r
        BY <3>1 DEF Waiting
      <4>2. i # 1
        BY <2>2, <4>1, Made, SwfobjectAssumption DEF Request
      <4>3. i - 1 \in DOMAIN Rest /\ todo'[i] = Rest[i - 1]
        BY <2>2, <4>2
      <4>4. QED
        BY <1>1, <4>1, <4>3, AfterFirst DEF Waiting
    <3>2. \A r \in Static : Untouched(r)
      BY <1>1, AfterFirst
    <3>3. QED
      BY <1>2, <2>1, <3>1, <3>2 DEF SwfInv, BeforeItsTurn, Request
  <2>7. QED
    BY <2>1, <2>3, <2>4, <2>5, <2>6 DEF SwfInv
<1>5. QED
  BY <1>3, <1>4 DEF RunMain

\* testPlayerVersion.
LEMMA RunProbeKeepsInv ==
  ASSUME SwfInv, RunProbe
  PROVE  SwfInv'
<1>1. todo # <<>> /\ 1 \in DOMAIN todo /\ todo[1].fn = "probe"
  BY RestEntries DEF SwfInv, Types, RunProbe, Calls
<1>2. /\ UNCHANGED <<layout, installed, elem, told, isExpressInstallActive, stored, style, css>>
      /\ UNCHANGED <<autoHideShow, isDomLoaded, domLoadFnArr, regObjArr, asked>>
      /\ pv' \in {pv, installed}
  BY DEF RunProbe, envVars, loadVars, viewVars, installVars
<1>3. CASE MatchVersions
  <2>1. pv' \in Version \cup {Zero}
    BY <1>2 DEF SwfInv, Types
  <2>2. QED
    BY <1>1, <1>2, <1>3, <2>1, MatchVersionsKeepsInv
<1>4. CASE todo' = Rest /\ UNCHANGED <<pv, probe>>
  <2>1. /\ AfterItsTurn' /\ OneInstaller' /\ NothingLeftHidden'
        /\ \A r \in Request : Untouched(r)' <=> Untouched(r)
    BY <1>2, <1>4, RequestsKept
  <2>2. /\ todo' \in Seq(Function) /\ isDomLoaded
        /\ \A i \in DOMAIN todo' :
             /\ i + 1 \in DOMAIN todo /\ todo'[i] = todo[i + 1]
             /\ todo'[i].fn = "embed"
        /\ \A i, j \in DOMAIN todo' : todo'[i].of = todo'[j].of => i = j
    BY <1>1, <1>4, AfterFirst
  <2>3. Types' /\ InOrder' /\ Distinct'
    BY <1>2, <1>4, <2>2 DEF SwfInv, Types, InOrder, Distinct
  <2>4. \A r \in Request : Waiting(r)' => Waiting(r)
    BY <2>2 DEF Waiting
  <2>5. BeforeItsTurn'
    BY <1>2, <1>4, <2>1, <2>4 DEF SwfInv, BeforeItsTurn, Request
  <2>6. QED
    BY <2>1, <2>3, <2>5 DEF SwfInv
<1>5. QED
  BY <1>3, <1>4 DEF RunProbe

LEMMA ProbeTimerKeepsInv ==
  ASSUME SwfInv, ProbeTimer
  PROVE  SwfInv'
<1>1. /\ UNCHANGED <<layout, installed, elem, told, isExpressInstallActive, stored, style, css>>
      /\ UNCHANGED <<autoHideShow, isDomLoaded, domLoadFnArr, regObjArr, asked, pv, probe>>
      /\ probe = "asked" /\ todo' = <<Probe>>
  BY DEF ProbeTimer, envVars, loadVars, viewVars, installVars
<1>2. /\ AfterItsTurn' /\ OneInstaller' /\ NothingLeftHidden'
      /\ \A r \in Request : Untouched(r)' <=> Untouched(r)
  BY <1>1, RequestsKept
<1>3. todo' \in Seq(Function) /\ DOMAIN todo' = {1} /\ todo'[1] = Probe
  BY <1>1, OneEntry, Made
<1>4. Types'
  BY <1>1, <1>3 DEF SwfInv, Types
<1>5. InOrder'
  BY <1>1, <1>3, Made DEF SwfInv, InOrder
<1>6. Distinct'
  BY <1>1, <1>3 DEF SwfInv, Distinct
<1>7. \A r \in Request : ~Waiting(r)'
  BY <1>3, Made, SwfobjectAssumption DEF Waiting, Request
<1>8. BeforeItsTurn'
  BY <1>1, <1>2, <1>7 DEF SwfInv, BeforeItsTurn, Request
<1>9. QED
  BY <1>2, <1>4, <1>5, <1>6, <1>8 DEF SwfInv

\* The visibility of one request changes.
LEMMA Hidden ==
  ASSUME Types, NEW r \in Request, SetVisibility(r, "hidden")
  PROVE  /\ style' \in [Request -> {"unset", "hidden", "visible"}]
         /\ css' \in [Request -> {"unset", "hidden", "visible"}]
         /\ \A x \in Request \ {r} : style'[x] = style[x] /\ css'[x] = css[x]
BY DEF Types, SetVisibility

LEMMA RegisterObjectKeepsInv ==
  ASSUME SwfInv, NEW r \in Request, RegisterObject(r)
  PROVE  SwfInv'
<1>1. /\ UNCHANGED <<layout, installed, elem, told, isExpressInstallActive, stored>>
      /\ UNCHANGED <<autoHideShow, isDomLoaded, domLoadFnArr, pv, probe, todo>>
      /\ r \in Static /\ r \notin asked /\ asked' = asked \cup {r}
      /\ regObjArr' = Append(regObjArr, r) /\ SetVisibility(r, "hidden")
  BY DEF RegisterObject, envVars, loadVars, installVars
<1>2. /\ style' \in [Request -> {"unset", "hidden", "visible"}]
      /\ css' \in [Request -> {"unset", "hidden", "visible"}]
      /\ \A x \in Request \ {r} : style'[x] = style[x] /\ css'[x] = css[x]
  BY <1>1, Hidden DEF SwfInv
<1>3. Untouched(r)
  BY <1>1 DEF SwfInv, BeforeItsTurn
<1>4. /\ AfterItsTurn' /\ OneInstaller' /\ NothingLeftHidden'
      /\ \A x \in Request : Untouched(x)' <=> Untouched(x)
  BY <1>1, <1>2, <1>3, RequestsKept
<1>5. /\ regObjArr' \in Seq(Static)
      /\ \A i \in DOMAIN regObjArr' :
           \/ i \in DOMAIN regObjArr /\ regObjArr'[i] = regObjArr[i]
           \/ i = Len(regObjArr) + 1 /\ regObjArr'[i] = r
  BY <1>1, AppendEntries DEF SwfInv, Types
<1>6. \A i \in DOMAIN regObjArr : regObjArr[i] # r
  BY <1>1 DEF SwfInv, BeforeItsTurn
<1>7. Types' /\ InOrder'
  BY <1>1, <1>2, <1>5 DEF SwfInv, Types, InOrder
<1>8. Distinct'
  BY <1>1, <1>5, <1>6 DEF SwfInv, Distinct
<1>9. \A x \in Request : Waiting(x)' <=> Waiting(x)
  BY <1>1 DEF Waiting
<1>10. BeforeItsTurn'
  BY <1>1, <1>4, <1>5, <1>9 DEF SwfInv, BeforeItsTurn, Request
<1>11. QED
  BY <1>4, <1>7, <1>8, <1>10 DEF SwfInv

LEMMA EmbedSWFKeepsInv ==
  ASSUME SwfInv, NEW r \in Request, EmbedSWF(r)
  PROVE  SwfInv'
<1>1. /\ UNCHANGED <<layout, installed, elem, told, isExpressInstallActive, stored>>
      /\ UNCHANGED <<autoHideShow, isDomLoaded, regObjArr, pv, probe>>
      /\ todo = <<>> /\ r \in Dynamic /\ r \notin asked /\ asked' = asked \cup {r}
      /\ SetVisibility(r, "hidden")
  BY DEF EmbedSWF, Idle, envVars, installVars
<1>2. /\ style' \in [Request -> {"unset", "hidden", "visible"}]
      /\ css' \in [Request -> {"unset", "hidden", "visible"}]
      /\ \A x \in Request \ {r} : style'[x] = style[x] /\ css'[x] = css[x]
  BY <1>1, Hidden DEF SwfInv
<1>3. Untouched(r)
  BY <1>1 DEF SwfInv, BeforeItsTurn
<1>4. /\ AfterItsTurn' /\ OneInstaller' /\ NothingLeftHidden'
      /\ \A x \in Request : Untouched(x)' <=> Untouched(x)
  BY <1>1, <1>2, <1>3, RequestsKept
<1>5. CASE isDomLoaded /\ todo' = <<Embed(r)>> /\ domLoadFnArr' = domLoadFnArr
  <2>1. /\ todo' \in Seq(Function) /\ DOMAIN todo' = {1}
        /\ todo'[1].fn = "embed" /\ todo'[1].of = r
    BY <1>1, <1>5, OneEntry, Made
  <2>2. Types' /\ InOrder' /\ Distinct'
    BY <1>1, <1>2, <1>5, <2>1 DEF SwfInv, Types, InOrder, Distinct
  <2>3. \A x \in Request : Waiting(x)' => x = r
    BY <2>1 DEF Waiting
  <2>4. BeforeItsTurn'
    BY <1>1, <1>3, <1>4, <1>5, <2>3 DEF SwfInv, BeforeItsTurn, Request
  <2>5. QED
    BY <1>4, <2>2, <2>4 DEF SwfInv
<1>6. CASE ~isDomLoaded /\ domLoadFnArr' = Append(domLoadFnArr, Embed(r)) /\ todo' = todo
  <2>1. /\ domLoadFnArr' \in Seq(Function) /\ Len(domLoadFnArr) \in Nat
        /\ \A i \in DOMAIN domLoadFnArr' :
             \/ i \in DOMAIN domLoadFnArr /\ domLoadFnArr'[i] = domLoadFnArr[i]
             \/ i = Len(domLoadFnArr) + 1 /\ domLoadFnArr'[i] = Embed(r)
    BY <1>1, <1>6, Made, AppendEntries DEF SwfInv, Types
  <2>2. Embed(r).fn = "embed" /\ Embed(r).of = r /\ r # None
    BY <1>1, Made, SwfobjectAssumption
  <2>3. Len(domLoadFnArr) + 1 # 1
    BY LenProperties DEF SwfInv, Types, InOrder
  <2>4. ASSUME NEW i \in DOMAIN domLoadFnArr
        PROVE  domLoadFnArr[i].of # r
    <3>1. CASE i = 1
      <4>1. domLoadFnArr[i] \in Function /\ domLoadFnArr[i].fn = "main"
        BY <3>1 DEF SwfInv, Types, InOrder
      <4>2. QED
        BY <2>2, <4>1, FunctionFields
    <3>2. CASE i # 1
      BY <1>1, <3>2 DEF SwfInv, BeforeItsTurn
    <3>3. QED
      BY <3>1, <3>2
  <2>5. Types'
    BY <1>1, <1>2, <1>6, <2>1 DEF SwfInv, Types
  <2>6. InOrder'
    <3>1. 1 \in DOMAIN domLoadFnArr'
      BY <1>1, <1>6, Made, AppendProperties DEF SwfInv, Types
    <3>2. QED
      BY <1>1, <1>6, <2>1, <2>2, <2>3, <3>1 DEF SwfInv, InOrder
  <2>7. Distinct'
    BY <1>1, <1>6, <2>1, <2>2, <2>4 DEF SwfInv, Distinct
  <2>8. \A i \in DOMAIN domLoadFnArr' : i # 1 => domLoadFnArr'[i].of \in asked'
    BY <1>1, <2>1, <2>2 DEF SwfInv, BeforeItsTurn
  <2>9. \A x \in Request : Waiting(x)' <=> Waiting(x)
    BY <1>6 DEF Waiting
  <2>10. BeforeItsTurn'
    BY <1>1, <1>4, <1>6, <2>8, <2>9 DEF SwfInv, BeforeItsTurn, Request
  <2>11. QED
    BY <1>4, <2>5, <2>6, <2>7, <2>10 DEF SwfInv
<1>7. QED
  BY <1>5, <1>6 DEF EmbedSWF

\* The installer reports back.
LEMMA CallbackKeepsInv ==
  ASSUME SwfInv, ExpressInstallCallback
  PROVE  SwfInv'
<1>1. PICK r \in Request : elem[r] = "installer"
  BY DEF ExpressInstallCallback
<1>2. stored = [callback |-> r, content |-> r] /\ isExpressInstallActive
  BY <1>1 DEF SwfInv, OneInstaller
<1>3. stored.callback = r /\ stored.content = r
  BY <1>2
<1>4. r \in layout.present /\ Installing(r)
  BY <1>1, <1>2, <1>3 DEF SwfInv, AfterItsTurn, Installing
<1>5. BeingInstalled(r) /\ told[r] = <<>> /\ ~Untouched(r)
  BY <1>4 DEF SwfInv, AfterItsTurn, BeingInstalled, Untouched
<1>6. /\ elem' = [elem EXCEPT ![r] = IF r \in Static THEN "content" ELSE "div"]
      /\ style' = IF r \in Dynamic /\ autoHideShow THEN [style EXCEPT ![r] = "visible"] ELSE style
      /\ CallBack(r, FALSE)
      /\ isExpressInstallActive' = FALSE
      /\ UNCHANGED <<layout, installed, stored, css, autoHideShow, pv, probe>>
      /\ UNCHANGED <<isDomLoaded, domLoadFnArr, regObjArr, todo, asked>>
  BY <1>3 DEF ExpressInstallCallback, envVars, loadVars
<1>7. /\ told' \in [Request -> Seq(BOOLEAN)]
      /\ told'[r] = <<FALSE>> /\ told'[r] # <<>> /\ Len(told'[r]) = 1 /\ told'[r][1] = FALSE
      /\ \A x \in Request \ {r} : told'[x] = told[x]
  BY <1>5, <1>6, CallBackResult DEF SwfInv
<1>8. /\ elem' \in [Request -> Content]
      /\ elem'[r] = IF r \in Static THEN "content" ELSE "div"
      /\ \A x \in Request \ {r} : elem'[x] = elem[x] /\ style'[x] = style[x]
      /\ style' \in [Request -> {"unset", "hidden", "visible"}]
      /\ r \in Dynamic /\ autoHideShow => style'[r] = "visible"
  BY <1>6 DEF SwfInv, Types, Content
<1>9. \A x \in Request \ {r} : ~Installing(x) /\ elem[x] # "installer"
  BY <1>3 DEF Installing, SwfInv, OneInstaller
<1>10. \A x \in Request : ~Installing(x)' /\ elem'[x] # "installer"
  BY <1>6, <1>8, <1>9 DEF Installing
<1>11. Types'
  BY <1>6, <1>7, <1>8 DEF SwfInv, Types
<1>12. InOrder' /\ Distinct'
  BY <1>6 DEF SwfInv, InOrder, Distinct
<1>13. \A x \in Request : Untouched(x) => Untouched(x)'
  BY <1>5, <1>6, <1>7, <1>8, <1>10 DEF Untouched, First
<1>14. BeforeItsTurn'
  <2>1. \A x \in Request : Waiting(x)' <=> Waiting(x)
    BY <1>6 DEF Waiting
  <2>2. QED
    BY <1>6, <1>13, <2>1 DEF SwfInv, BeforeItsTurn, Request
<1>15. AfterItsTurn'
  <2>1. ASSUME NEW x \in Request
        PROVE  /\ told'[x] # <<>> => Answered(x)'
               /\ x \notin layout'.present => elem'[x] = "missing"
    <3>1. CASE x = r
      BY <1>4, <1>5, <1>6, <1>7, <1>8, <3>1, Kinds DEF Answered, BeingInstalled, HasPlayerVersion
    <3>2. CASE x # r
      <4>1. /\ told[x] # <<>> => Answered(x)
            /\ x \notin layout.present => elem[x] = "missing"
        BY DEF SwfInv, AfterItsTurn
      <4>2. QED
        BY <1>6, <1>7, <1>8, <3>2, <4>1 DEF Answered, HasPlayerVersion
    <3>3. QED
      BY <3>1, <3>2
  <2>2. QED
    BY <1>10, <2>1 DEF AfterItsTurn
<1>16. OneInstaller'
  BY <1>10 DEF OneInstaller
<1>17. NothingLeftHidden'
  <2>1. ASSUME NEW x \in layout.present, told'[x] # <<>>, autoHideShow
        PROVE  Visible(x)'
    <3>1. x \in Request
      BY DEF SwfInv, Types
    <3>2. CASE x = r
      BY <1>8, <2>1, <3>2, Kinds DEF Visible
    <3>3. CASE x # r
      <4>1. Visible(x)
        BY <1>7, <2>1, <3>1, <3>3 DEF SwfInv, NothingLeftHidden
      <4>2. QED
        BY <1>6, <1>8, <3>1, <3>3, <4>1 DEF Visible
    <3>4. QED
      BY <3>2, <3>3
  <2>2. QED
    BY <1>6, <1>10, <1>11, <2>1 DEF NothingLeftHidden, Types
<1>18. QED
  BY <1>11, <1>12, <1>14, <1>15, <1>16, <1>17 DEF SwfInv

LEMMA NextKeepsInv == SwfInv /\ [Next]_vars => SwfInv'
<1> SUFFICES ASSUME SwfInv, [Next]_vars
             PROVE  SwfInv'
  OBVIOUS
<1>1. CASE \/ Parse \/ SwitchOffAutoHideShow \/ (\E r \in Request : Leave(r))
           \/ UNCHANGED vars
  BY <1>1, QuietKeepsInv
<1>2. CASE \E e \in events : DomEvent(e)
  BY <1>2, DomEventKeepsInv
<1>3. CASE Run
  BY <1>3, RunMainKeepsInv, RunProbeKeepsInv, RunMatchKeepsInv, RunEmbedKeepsInv DEF Run
<1>4. CASE ProbeTimer
  BY <1>4, ProbeTimerKeepsInv
<1>5. CASE \E r \in Request : RegisterObject(r) \/ EmbedSWF(r)
  BY <1>5, RegisterObjectKeepsInv, EmbedSWFKeepsInv
<1>6. CASE ExpressInstallCallback
  BY <1>6, CallbackKeepsInv
<1>7. QED
  BY <1>1, <1>2, <1>3, <1>4, <1>5, <1>6 DEF Next

LEMMA SwfInvariant == Spec => []SwfInv
BY InitInv, NextKeepsInv, PTL DEF Spec

-----------------------------------------------------------------------------
(* The theorems.                                                           *)

\* A request is called back once at most, with a result that what stands in
\* the page bears out, whatever came in between.
THEOREM ToldTheTruthCorrect == Spec => []ToldTheTruth
<1>1. SwfInv => ToldTheTruth
  <2> SUFFICES ASSUME SwfInv, NEW r \in Request
               PROVE  /\ Len(told[r]) <= 1
                      /\ r \in layout.present /\ told[r] # <<>> =>
                           elem[r] \in IF told[r][1] THEN {"movie", "object"}
                                       ELSE IF pv = Zero THEN {"object", "div"} ELSE {"content", "div"}
    BY DEF ToldTheTruth
  <2>1. CASE told[r] = <<>>
    BY <2>1
  <2>2. CASE told[r] # <<>>
    <3>1. Answered(r)
      BY <2>2 DEF SwfInv, AfterItsTurn
    <3>2. QED
      BY <3>1, Kinds DEF Answered
  <2>3. QED
    BY <2>1, <2>2
<1>2. QED
  BY <1>1, SwfInvariant, PTL

\* What a request hid is shown again once it has been answered, unless the
\* page switched the hiding off in between.
THEOREM NothingLeftHiddenCorrect == Spec => []NothingLeftHidden
<1>1. SwfInv => NothingLeftHidden
  BY DEF SwfInv
<1>2. QED
  BY <1>1, SwfInvariant, PTL

\* One installer stands in the page at most, for the request it will report to.
THEOREM OneInstallerCorrect == Spec => []OneInstaller
<1>1. SwfInv => OneInstaller
  BY DEF SwfInv
<1>2. QED
  BY <1>1, SwfInvariant, PTL

\* No static request is decided on a version that the probe corrects later.
THEOREM DecidedOnPreciseCorrect == Spec => []DecidedOnPrecise
<1>1. SwfInv => DecidedOnPrecise
  BY DEF SwfInv, AfterItsTurn, Answered, DecidedOnPrecise, Request
<1>2. QED
  BY <1>1, SwfInvariant, PTL
=============================================================================
