-------------------------- MODULE History_proofs --------------------------
(***************************************************************************)
(* Proofs about History, for every browser, every set of fragments and any *)
(* number of moves: a move of the application stands until the user moves, *)
(* the stacks of Firefox have the current page on top, and application and *)
(* address bar agree once everything has been noticed.                     *)
(***************************************************************************)
EXTENDS History, TLAPS

-----------------------------------------------------------------------------
(***************************************************************************)
(* The addresses there can be.  The session history always has a current   *)
(* entry.                                                                  *)
(***************************************************************************)
Url     == Fragment \cup {Bare}
Entries == [url : Url, frame : Fragment \cup {Blank}]
Session == {s \in [at : Nat, entries : Seq(Entries), untold : BOOLEAN] :
              s.at \in 1..Len(s.entries)}
Load    == [to : Fragment, new : BOOLEAN]

\* A table may have holes.
Table(t) == \A n \in DOMAIN t : t[n] \in Fragment

AddressTypes ==
  /\ kind \in Kinds /\ phase \in {"loading", "ready"}
  /\ session \in Session
  /\ href \in Url /\ initialHref \in Url /\ currentHref \in Url
  /\ frame \in Fragment \cup {Blank, None}
  /\ loading \in Load \cup {None}
  /\ retry \in Fragment \cup {None}
  /\ Table(historyHash) /\ Table(remembered)

LEMMA HashTyped == ASSUME NEW u \in Url PROVE HashOf(u) \in Fragment
BY HistoryAssumption DEF Url, HashOf

\* A new entry behind the current one leaves a session.
LEMMA VisitTyped ==
  ASSUME NEW s \in Session, NEW e \in Entries
  PROVE  Visit(s, e) \in Session
<1> DEFINE t == SubSeq(s.entries, 1, s.at)
<1>1. /\ s.at \in Nat /\ s.at \in 1..Len(s.entries) /\ s.entries \in Seq(Entries)
      /\ s.untold \in BOOLEAN
  BY DEF Session
<1>2. t \in Seq(Entries) /\ Len(t) = s.at
  BY <1>1
<1> HIDE DEF t
<1>3. Append(t, e) \in Seq(Entries) /\ Len(Append(t, e)) = s.at + 1
  BY <1>2
<1>4. Visit(s, e) = [at |-> s.at + 1, entries |-> Append(t, e), untold |-> s.untold]
  <2>1. s = [at |-> s.at, entries |-> s.entries, untold |-> s.untold]
    BY DEF Session
  <2>2. Visit(s, e) = [s EXCEPT !.at = s.at + 1, !.entries = Append(t, e)]
    BY <2>1 DEF Visit, t
  <2>3. QED
    BY <2>1, <2>2
<1>5. QED
  BY <1>1, <1>3, <1>4 DEF Session

\* So does changing the current entry.
LEMMA AmendTyped ==
  ASSUME NEW s \in Session, NEW e \in Entries
  PROVE  Amend(s, e) \in Session
<1> DEFINE t == [s.entries EXCEPT ![s.at] = e]
<1>1. /\ s.at \in Nat /\ s.at \in 1..Len(s.entries) /\ s.entries \in Seq(Entries)
      /\ s.untold \in BOOLEAN
  BY DEF Session
<1>2. t \in Seq(Entries) /\ Len(t) = Len(s.entries)
  <2>1. PICK n \in Nat : n = Len(s.entries)
    BY <1>1
  <2>2. s.entries \in [1..n -> Entries]
    BY <1>1, <2>1
  <2>3. t \in [1..n -> Entries]
    BY <2>2
  <2> HIDE DEF t
  <2>4. QED
    BY <2>1, <2>3
<1>3. Amend(s, e) = [s EXCEPT !.entries = t]
  BY DEF Amend
<1> HIDE DEF t
<1>4. Amend(s, e) = [at |-> s.at, entries |-> t, untold |-> s.untold]
  BY <1>3 DEF Session
<1>5. QED
  BY <1>1, <1>2, <1>4 DEF Session

\* So does noting that the table lacks an entry.
LEMMA UntellTyped ==
  ASSUME NEW s \in Session, NEW now \in BOOLEAN
  PROVE  /\ Untell(s, now) \in Session
         /\ Untell(s, now).at = s.at /\ Untell(s, now).entries = s.entries
         /\ Untell(s, now).untold = (s.untold \/ now)
<1>1. /\ s.at \in Nat /\ s.at \in 1..Len(s.entries) /\ s.entries \in Seq(Entries)
      /\ s.untold \in BOOLEAN
  BY DEF Session
<1>2. Untell(s, now) = [at |-> s.at, entries |-> s.entries, untold |-> s.untold \/ now]
  BY DEF Untell, Session
<1>3. QED
  BY <1>1, <1>2 DEF Session

\* What the fields of an entry may be.
LEMMA EntryTyped ==
  ASSUME NEW e \in Entries
  PROVE  /\ e.url \in Url /\ e.frame \in Fragment \cup {Blank}
         /\ \A u \in Url : [e EXCEPT !.url = u] \in Entries
         /\ \A f \in Fragment : [e EXCEPT !.frame = f] \in Entries
<1>1. /\ e.url \in Url /\ e.frame \in Fragment \cup {Blank}
      /\ e = [url |-> e.url, frame |-> e.frame]
  BY DEF Entries
<1>2. ASSUME NEW u \in Url
      PROVE  [e EXCEPT !.url = u] \in Entries
  <2>1. [e EXCEPT !.url = u] = [url |-> u, frame |-> e.frame]
    BY <1>1
  <2>2. QED
    BY <1>1, <2>1 DEF Entries
<1>3. ASSUME NEW f \in Fragment
      PROVE  [e EXCEPT !.frame = f] \in Entries
  <2>1. [e EXCEPT !.frame = f] = [url |-> e.url, frame |-> f]
    BY <1>1
  <2>2. QED
    BY <1>1, <2>1 DEF Entries
<1>4. QED
  BY <1>1, <1>2, <1>3

\* The current entry of a session is one of its entries.
LEMMA CurrentTyped ==
  ASSUME NEW s \in Session
  PROVE  Current(s) \in Entries
BY DEF Session, Current

\* A script sets the address.
LEMMA SetHashTyped ==
  ASSUME NEW s \in Session, NEW f \in Fragment, SetHash(s, f)
  PROVE  href' = f /\ session' \in Session
<1> DEFINE e == [Current(s) EXCEPT !.url = f]
<1>1. e \in Entries
  BY CurrentTyped, EntryTyped DEF Url
<1> HIDE DEF e
<1>2. Visit(s, e) \in Session /\ Amend(s, e) \in Session
  BY <1>1, VisitTyped, AmendTyped
<1>3. session' \in {s, Visit(s, e), Amend(s, e)}
  BY DEF SetHash, e
<1>4. QED
  BY <1>2, <1>3 DEF SetHash

\* Replacing the address of the current entry leaves a session.
LEMMA ReplaceTyped ==
  ASSUME AddressTypes, NEW f \in Fragment, Replace(f)
  PROVE  href' = f /\ session' \in Session
<1>1. [Current(session) EXCEPT !.url = f] \in Entries
  BY CurrentTyped, EntryTyped DEF AddressTypes, Url
<1>2. PICK s \in Session : s = Amend(session, [Current(session) EXCEPT !.url = f])
  BY <1>1, AmendTyped DEF AddressTypes
<1>3. PICK now \in BOOLEAN : session' = Untell(s, now)
  BY <1>2 DEF Replace
<1>4. QED
  BY <1>3, UntellTyped DEF Replace

\* An entry stored in a table, and what join and split give back, is a table.
LEMMA TableTyped ==
  ASSUME NEW t, Table(t)
  PROVE  /\ Table(Joined(t))
         /\ \A n, f : f \in Fragment => Table(Stored(t, n, f))
<1>1. Table(Joined(t))
  BY HistoryAssumption DEF Table, Joined
<1>2. ASSUME NEW n, NEW f \in Fragment
      PROVE  Table(Stored(t, n, f))
  BY <1>2 DEF Table, Stored
<1>3. QED
  BY <1>1, <1>2

\* setBrowserURL keeps the types.
LEMMA SetBrowserTyped ==
  ASSUME AddressTypes, NEW s \in Session, NEW l \in Load \cup {None},
         NEW f \in Fragment, SetBrowserURL(s, l, f)
  PROVE  /\ session' \in Session
         /\ href' \in Url /\ currentHref' \in Url
         /\ loading' \in Load \cup {None}
         /\ Table(historyHash') /\ Table(remembered')
<1> USE DEF AddressTypes
<1>1. CASE Says(href, f)
  BY <1>1 DEF SetBrowserURL
<1>2. CASE ~Says(href, f) /\ IE
  <2>1. AddFrameEntry(s, l, f)
    BY <1>2 DEF SetBrowserURL
  <2>2. currentHref' \in Url /\ Table(historyHash') /\ Table(remembered')
    BY <2>1 DEF AddFrameEntry, Url
  <2>3. CASE session' = s /\ loading' = l /\ UNCHANGED href
    BY <2>2, <2>3
  <2>4. CASE SetHash(s, Default) /\ loading' = l
    BY <2>2, <2>4, SetHashTyped, HistoryAssumption DEF Url
  <2>5. CASE SetHash(s, f) /\ loading' = [to |-> f, new |-> TRUE]
    BY <2>2, <2>5, SetHashTyped DEF Url, Load
  <2>6. QED
    BY <2>1, <2>3, <2>4, <2>5 DEF AddFrameEntry
<1>3. CASE ~Says(href, f) /\ ~IE
  <2>1. SetHash(s, f) /\ currentHref' = f /\ loading' = l /\ Record(HistoryLength(session'), f)
    BY <1>3 DEF SetBrowserURL, AddEntry
  <2>2. Table(historyHash') /\ Table(remembered')
    <3>1. PICK n : Record(n, f)
      BY <2>1
    <3>2. /\ historyHash' \in {historyHash, Stored(historyHash, n, f)}
          /\ remembered' \in {remembered, Joined(historyHash')}
      BY <3>1 DEF Record
    <3>3. Table(historyHash')
      BY <3>2, TableTyped
    <3>4. Table(Joined(historyHash'))
      BY <3>3, TableTyped
    <3>5. QED
      BY <3>2, <3>3, <3>4
  <2>3. QED
    BY <2>1, <2>2, SetHashTyped DEF Url
<1>4. QED
  BY <1>1, <1>2, <1>3

\* The addresses keep their types.
LEMMA AddressStep ==
  ASSUME AddressTypes, [Next]_vars
  PROVE  AddressTypes'
<1> USE DEF AddressTypes
<1>0. GetHash \in Fragment
  BY HashTyped DEF GetHash
<1>1. CASE SetDefaultURL
  <2>1. UNCHANGED <<kind, phase, initialHref, currentHref, frame>>
    BY <1>1 DEF SetDefaultURL
  <2>2. session' \in Session /\ href' \in Url
    <3>1. CASE UNCHANGED <<session, href>>
      BY <3>1
    <3>2. CASE Replace(GetHash)
      BY <1>0, <3>2, ReplaceTyped DEF Url
    <3>3. QED
      BY <1>1, <3>1, <3>2 DEF SetDefaultURL, StartIE, LoadDefault, StartSafari, StartOther
  <2>3. /\ loading' \in {loading, [to |-> GetHash, new |-> TRUE]}
        /\ retry' \in {retry, None, GetHash}
    BY <1>1 DEF SetDefaultURL, StartIE, LoadDefault, StartSafari, StartOther
  <2>4. [to |-> GetHash, new |-> TRUE] \in Load
    BY <1>0 DEF Load
  <2>5. Table(historyHash') /\ Table(remembered')
    <3>1. /\ remembered' = remembered
          /\ \/ historyHash' = historyHash
             \/ historyHash' = Stored(historyHash, HistoryLength(session), GetHash)
      BY <1>1 DEF SetDefaultURL, StartIE, StartSafari, StartOther
    <3>2. QED
      BY <1>0, <3>1, TableTyped
  <2>6. QED
    BY <1>0, <2>1, <2>2, <2>3, <2>4, <2>5
<1>2. ASSUME NEW f \in Fragment, Move(f)
      PROVE  AddressTypes'
  <2>1. PICK s \in Session : SetBrowserURL(s, loading, f)
    <3>1. Untell(session, TableToCome) \in Session
      BY UntellTyped DEF TableToCome
    <3>2. QED
      BY <1>2, <3>1 DEF Move
  <2>2. QED
    BY <1>2, <2>1, SetBrowserTyped DEF Move
<1>3. ASSUME NEW f \in Fragment, Type(f)
      PROVE  AddressTypes'
  <2> DEFINE e == Entry(f, Current(session).frame)
             s == Visit(session, e)
  <2>1. e \in Entries
    BY CurrentTyped, EntryTyped DEF Entry, Entries, Url
  <2> HIDE DEF e
  <2>2. s \in Session
    BY <2>1, VisitTyped
  <2>3. session' = Untell(s, kind = "safari3")
    BY <1>3 DEF Type, e
  <2> HIDE DEF s
  <2>4. session' \in Session
    BY <2>2, <2>3, UntellTyped
  <2>5. QED
    BY <1>3, <2>4 DEF Type, UserMove, pageVars, Url
<1>4. ASSUME NEW i \in DOMAIN session.entries, Go(i)
      PROVE  AddressTypes'
  <2>1. /\ session.at \in Nat /\ session.entries \in Seq(Entries)
        /\ session.entries[i] \in Entries
        /\ i \in Nat /\ i \in 1..Len(session.entries)
    BY DEF Session
  <2>2. session' = [at |-> i, entries |-> session.entries, untold |-> session.untold]
    BY <1>4 DEF Go, Session
  <2>3. session' \in Session
    BY <2>1, <2>2 DEF Session
  <2>4. session.entries[i].frame \in Fragment \cup {Blank} /\ session.entries[i].url \in Url
    BY <2>1 DEF Entries
  <2>5. href' \in Url /\ loading' \in Load \cup {None}
    BY <1>4, <2>4 DEF Go, Load
  <2>6. QED
    BY <1>4, <2>3, <2>5 DEF Go, UserMove, pageVars
<1>5. CASE Reload \/ CheckReload
  <2>1. PICK now \in BOOLEAN : session' = Untell(session, now)
    BY <1>5 DEF Reload, CheckReload, Restart
  <2>2. session' \in Session
    BY <2>1, UntellTyped
  <2>3. Table(<<>>)
    BY DEF Table
  <2>4. QED
    BY <1>5, <2>2, <2>3, CurrentTyped, EntryTyped DEF Reload, CheckReload, Restart
<1>6. CASE Initialize \/ AppendFrame \/ HashChangeHandler \/ CheckSafari \/ CheckFirefox
  <2>1. Table(Joined(historyHash))
    BY TableTyped
  <2>2. QED
    BY <1>6, <2>1
       DEF Initialize, AppendFrame, HashChangeHandler, CheckSafari, CheckFirefox, pageVars
<1>7. CASE RetryDefault
  <2>1. /\ UNCHANGED <<kind, phase, initialHref, currentHref, frame, historyHash, remembered>>
        /\ retry \in Fragment /\ retry' = None /\ LoadDefault(retry)
    BY <1>7 DEF RetryDefault
  <2>2. PICK f \in Fragment : f = retry
    BY <2>1
  <2>3. \/ UNCHANGED <<session, href, loading>>
        \/ Replace(f) /\ loading' = [to |-> f, new |-> TRUE]
    BY <2>1, <2>2 DEF LoadDefault
  <2>4. [to |-> f, new |-> TRUE] \in Load
    BY DEF Load
  <2>5. session' \in Session /\ href' \in Url /\ loading' \in Load \cup {None}
    BY <2>3, <2>4, ReplaceTyped DEF Url
  <2>6. QED
    BY <2>1, <2>5
<1>8. CASE CheckFrame
  BY <1>0, <1>8 DEF CheckFrame, Load
<1>9. CASE FrameLoad
  <2> DEFINE f == loading.to
             v == Visit(session, Entry(Current(session).url, f))
             a == Amend(session, [Current(session) EXCEPT !.frame = f])
  <2>1. f \in Fragment
    BY <1>9 DEF FrameLoad, Load
  <2>2. v \in Session
    <3>1. Entry(Current(session).url, f) \in Entries
      BY <2>1, CurrentTyped, EntryTyped DEF Entry, Entries
    <3>2. QED
      BY <3>1, VisitTyped
  <2>3. a \in Session
    BY <2>1, CurrentTyped, EntryTyped, AmendTyped
  <2> HIDE DEF v, a
  <2>4. PICK s \in Session :
          IF firstload
          THEN /\ session' = s /\ loading' = None
               /\ UNCHANGED <<href, currentHref, historyHash, remembered>>
          ELSE SetBrowserURL(s, None, f)
    <3>1. CASE loading.new /\ frame \notin {Blank, f}
      BY <1>9, <2>2, <3>1 DEF FrameLoad, v
    <3>2. CASE ~(loading.new /\ frame \notin {Blank, f})
      BY <1>9, <2>3, <3>2 DEF FrameLoad, a
    <3>3. QED
      BY <3>1, <3>2
  <2>5. /\ session' \in Session
        /\ href' \in Url /\ currentHref' \in Url
        /\ loading' \in Load \cup {None}
        /\ Table(historyHash') /\ Table(remembered')
    BY <2>1, <2>4, SetBrowserTyped
  <2>6. QED
    BY <1>9, <2>1, <2>5 DEF FrameLoad
<1>10. CASE UNCHANGED vars
  BY <1>10 DEF vars, pageVars, browserVars
<1>11. QED
  BY <1>1, <1>2, <1>3, <1>4, <1>5, <1>6, <1>7, <1>8, <1>9, <1>10
     DEF Next, Proceed, CheckForUrlChange

-----------------------------------------------------------------------------
\* Browsers without the history frame do not use what belongs to it.
FrameOfIE == ~IE => frame = None /\ loading = None /\ retry = None /\ ~firstload

\* The frame comes with _initialize.  Until its first load has ended, a move is
\* made in a blind spot, and so is every move when the poll has not been started.
StartSound ==
  /\ phase = "loading" => frame = None
  /\ frame = None => loading = None
  /\ polls => app # None /\ (IE => frame # None)
  /\ kind \in {"firefox", "safari3"} /\ app # None => polls
  /\ retry # None => ~polls /\ app # None
  /\ IE /\ app # None /\ frame = None => firstload
  /\ IE /\ app # None /\ ~polls /\ ~blind => firstload /\ loading = None

\* While the last move of the application stands, the address says it, what the
\* frame loads says it, and Safari looks up nothing, or that very move.
OwnMoveSound ==
  mine # None /\ ~blind =>
    /\ mine \in Fragment
    /\ app = mine /\ href = mine
    /\ ~firstload
    /\ loading # None => loading.to = mine
    /\ kind = "safari3" =>
         /\ ~TableToCome
         /\ \/ HistoryLength(session) = currentHistoryLength
            \/ LookUp(HistoryLength(session)) = mine

Standing == FrameOfIE /\ StartSound /\ OwnMoveSound

\* The page the stacks of Firefox are at.
Top == IF backStack = <<>> THEN HashOf(initialHref) ELSE Last(backStack)

\* Firefox has no event to listen to.  Between two polls the stacks stay with
\* the address the poll has seen.
StacksFollowPoll ==
  kind = "firefox" =>
    /\ ~event
    /\ backStack \in Seq(Fragment) /\ forwardStack \in Seq(Fragment)
    /\ app = None => backStack = <<>> /\ currentHref = initialHref
    /\ app # None /\ ~lost => HashOf(currentHref) = Top

-----------------------------------------------------------------------------
\* The user's moves and a reload leave no move of the application standing.
LEMMA UserStep ==
  ASSUME AddressTypes, Standing,
         \/ \E f \in Fragment : Type(f)
         \/ \E i \in DOMAIN session.entries : Go(i)
         \/ Reload \/ CheckReload
  PROVE  Standing'
<1> USE DEF Standing, IE, OwnMoveSound
<1>1. ASSUME NEW f \in Fragment, Type(f)
      PROVE  Standing'
  BY <1>1 DEF Type, UserMove, pageVars, FrameOfIE, StartSound
<1>2. ASSUME NEW i \in DOMAIN session.entries, Go(i)
      PROVE  Standing'
  <2>1. /\ UNCHANGED <<kind, frame, app, phase, retry, firstload>>
        /\ mine' = None
        /\ frame = None => loading' = loading
        /\ ~blind' => ~blind /\ ~firstload
    BY <1>2 DEF Go, UserMove, pageVars
  <2>2. FrameOfIE'
    BY <2>1 DEF FrameOfIE
  <2>3. StartSound'
    BY <1>2, <2>1 DEF StartSound, Go, UserMove, pageVars
  <2>4. QED
    BY <2>1, <2>2, <2>3
<1>3. CASE Restart
  BY <1>3 DEF Restart, FrameOfIE, StartSound
<1>4. QED
  BY <1>1, <1>2, <1>3 DEF Reload, CheckReload

\* The application moves.
LEMMA MoveStep ==
  ASSUME AddressTypes, Standing, NEW f \in Fragment, Move(f)
  PROVE  Standing'
<1> USE HistoryAssumption DEF Standing, IE
<1>1. /\ UNCHANGED <<kind, frame, phase, retry, polls, firstload>>
      /\ app # None /\ app' = f /\ f # None
      /\ mine' = IF Says(href, f) THEN None ELSE f
      /\ ~blind' => ~blind /\ ~firstload /\ ~TableToCome
  BY DEF Move
<1>2. PICK s : SetBrowserURL(s, loading, f)
  BY DEF Move
<1>3. CASE Says(href, f)
  BY <1>1, <1>2, <1>3 DEF SetBrowserURL, FrameOfIE, StartSound, OwnMoveSound
<1>4. CASE ~Says(href, f) /\ IE
  <2>1. AddFrameEntry(s, loading, f)
    BY <1>2, <1>4 DEF SetBrowserURL
  <2>2. frame = None => loading' = loading
    BY <2>1 DEF AddFrameEntry
  <2>3. ~blind' => href' = f /\ loading' = [to |-> f, new |-> TRUE] /\ polls
    BY <1>1, <1>4, <2>1 DEF AddFrameEntry, Echo, SetHash, StartSound
  <2>4. QED
    BY <1>1, <1>4, <2>2, <2>3 DEF FrameOfIE, StartSound, OwnMoveSound
<1>5. CASE ~Says(href, f) /\ ~IE
  <2>1. AddEntry(s, f) /\ loading' = loading
    BY <1>2, <1>5 DEF SetBrowserURL
  <2>2. href' = f
    BY <2>1 DEF AddEntry, SetHash
  <2>3. CASE kind = "safari3"
    <3>1. ByHand /\ (kind' = "safari3")
      BY <1>1, <2>3 DEF ByHand, Safari, BrowserHasHashChange
    <3>2. historyHash' = Stored(historyHash, HistoryLength(session'), f)
      BY <2>1, <3>1 DEF AddEntry, Record
    <3>3. LookUp(HistoryLength(session))' = f
      BY <2>3, <3>1, <3>2 DEF LookUp, Stored, HistoryLength
    <3>4. ~TableToCome => ~TableToCome'
      BY <1>1, <2>1, <3>1 DEF TableToCome, AddEntry, Record
    <3>5. QED
      BY <1>1, <1>5, <2>1, <2>2, <3>3, <3>4 DEF FrameOfIE, StartSound, OwnMoveSound
  <2>4. CASE kind # "safari3"
    BY <1>1, <1>5, <2>1, <2>2, <2>4 DEF FrameOfIE, StartSound, OwnMoveSound
  <2>5. QED
    BY <2>3, <2>4
<1>6. QED
  BY <1>3, <1>4, <1>5

\* The application starts.
LEMMA StartStep ==
  ASSUME AddressTypes, Standing, SetDefaultURL \/ RetryDefault
  PROVE  Standing'
<1> USE HistoryAssumption DEF Standing, IE
<1>1. CASE SetDefaultURL
  <2>1. /\ app = None /\ app' = GetHash /\ GetHash \in Fragment /\ GetHash # None
        /\ UNCHANGED <<kind, phase, frame, mine, blind>>
    BY <1>1, HashTyped DEF AddressTypes, GetHash, SetDefaultURL
  <2>2. OwnMoveSound'
    BY <2>1 DEF OwnMoveSound
  <2>3. CASE IE
    BY <1>1, <2>1, <2>2, <2>3
       DEF SetDefaultURL, StartIE, LoadDefault, FrameOfIE, StartSound
  <2>4. CASE ~IE
    <3>1. /\ UNCHANGED <<loading, retry, firstload>>
          /\ kind # "ie8" => polls'
      BY <1>1, <2>4 DEF SetDefaultURL, StartSafari, StartOther
    <3>2. QED
      BY <2>1, <2>2, <2>4, <3>1 DEF FrameOfIE, StartSound
  <2>5. QED
    BY <2>3, <2>4
<1>2. CASE RetryDefault
  <2>1. /\ UNCHANGED <<kind, phase, frame, mine, app, blind, firstload, remembered,
                       historyHash, currentHistoryLength>>
        /\ retry # None /\ retry' = None
        /\ LoadDefault(retry)
    BY <1>2 DEF RetryDefault
  <2>2. IE /\ app # None /\ ~polls /\ (~blind => firstload /\ loading = None)
    BY <2>1 DEF FrameOfIE, StartSound
  <2>3. OwnMoveSound'
    BY <2>1, <2>2 DEF OwnMoveSound
  <2>4. QED
    BY <2>1, <2>2, <2>3 DEF LoadDefault, FrameOfIE, StartSound
<1>3. QED
  BY <1>1, <1>2

\* What the page notices late agrees with the move that stands.
LEMMA NoticeStep ==
  ASSUME AddressTypes, Standing,
         \/ Initialize \/ AppendFrame \/ HashChangeHandler \/ FrameLoad
         \/ CheckFrame \/ CheckSafari \/ CheckFirefox
  PROVE  Standing'
<1> USE HistoryAssumption DEF Standing, IE
<1>1. CASE Initialize
  <2>1. TableToCome \/ historyHash' = historyHash \/ kind # "safari3"
    BY <1>1 DEF Initialize, TableToCome
  <2>2. phase' = "ready" /\ ~TableToCome'
    BY <1>1 DEF Initialize, TableToCome
  <2>3. OwnMoveSound'
    BY <1>1, <2>1, <2>2 DEF Initialize, OwnMoveSound, HistoryLength, LookUp
  <2>4. QED
    BY <1>1, <2>2, <2>3 DEF Initialize, FrameOfIE, StartSound
<1>2. CASE AppendFrame
  BY <1>2 DEF AppendFrame, pageVars, FrameOfIE, StartSound, OwnMoveSound
<1>3. CASE HashChangeHandler
  <2>1. /\ UNCHANGED <<kind, phase, frame, loading, mine, blind, firstload, remembered, polls,
                       retry, href, session, historyHash, currentHistoryLength>>
        /\ app' = (IF app = None THEN None ELSE GetHash)
    BY <1>3 DEF HashChangeHandler, Tell
  <2>2. GetHash # None
    BY HashTyped DEF GetHash, AddressTypes
  <2>3. OwnMoveSound'
    BY <2>1 DEF OwnMoveSound, GetHash, HashOf, HistoryLength, LookUp, TableToCome
  <2>4. QED
    BY <2>1, <2>2, <2>3 DEF FrameOfIE, StartSound
<1>4. CASE FrameLoad
  <2>1. /\ UNCHANGED <<kind, phase, retry, polls, mine, blind>>
        /\ loading # None /\ frame # None /\ IE
        /\ frame' = loading.to /\ ~firstload'
        /\ app' = None <=> app = None
    BY <1>4 DEF FrameLoad, BrowserURLChange, FrameOfIE, AddressTypes, Load
  <2>2. frame' # None
    BY <2>1 DEF AddressTypes, Load
  <2>3. FrameOfIE' /\ StartSound'
    BY <2>1, <2>2 DEF FrameOfIE, StartSound
  <2>4. CASE mine # None /\ ~blind
    BY <1>4, <2>1, <2>3, <2>4 DEF FrameLoad, SetBrowserURL, BrowserURLChange, Says, OwnMoveSound
  <2>5. CASE mine = None \/ blind
    BY <2>1, <2>3, <2>5 DEF OwnMoveSound
  <2>6. QED
    BY <2>4, <2>5
<1>5. CASE CheckFrame
  BY <1>5 DEF CheckFrame, SeenByFrame, AddressLeft, GetHash, HashOf,
              FrameOfIE, StartSound, OwnMoveSound
<1>6. CASE CheckSafari
  <2>1. /\ UNCHANGED <<kind, phase, frame, loading, mine, blind, firstload, polls,
                       retry, href, session, historyHash>>
        /\ polls /\ Safari /\ app # None
    BY <1>6 DEF CheckSafari, SeenByLength, ByHand, StartSound
  <2>2. /\ kind = "safari3" => /\ currentHistoryLength' = HistoryLength(session)
                               /\ app' = LookUp(HistoryLength(session))
                               /\ HistoryLength(session) # currentHistoryLength
        /\ kind # "safari3" => app' = GetHash
        /\ phase = "loading" => remembered' = remembered
    BY <1>6, <2>1 DEF CheckSafari, SeenByLength, Tell
  <2>3. OwnMoveSound'
    BY <2>1, <2>2 DEF OwnMoveSound, GetHash, HashOf, HistoryLength, LookUp, TableToCome
  <2>4. app' # None
    <3>1. GetHash # None
      BY HashTyped DEF GetHash, AddressTypes
    <3>2. LookUp(HistoryLength(session)) # None
      BY DEF LookUp, AddressTypes, Table
    <3>3. QED
      BY <2>2, <3>1, <3>2
  <2>5. QED
    BY <2>1, <2>3, <2>4 DEF FrameOfIE, StartSound
<1>7. CASE CheckFirefox
  <2>1. /\ UNCHANGED <<kind, phase, frame, loading, mine, blind, firstload, polls, retry, href>>
        /\ kind = "firefox" /\ app # None /\ app' = GetHash
    BY <1>7 DEF CheckFirefox, SeenByHref, StartSound, Tell
  <2>2. GetHash # None
    BY HashTyped DEF GetHash, AddressTypes
  <2>3. QED
    BY <2>1, <2>2 DEF GetHash, HashOf, FrameOfIE, StartSound, OwnMoveSound
<1>8. QED
  BY <1>1, <1>2, <1>3, <1>4, <1>5, <1>6, <1>7

\* Nothing but a new move of the application changes where it is, while its
\* last move stands.
LEMMA StandingStep ==
  ASSUME AddressTypes, Standing, [Next]_vars
  PROVE  Standing'
<1>1. CASE UNCHANGED vars
  <2>1. /\ UNCHANGED <<kind, phase, frame, loading, mine, blind, firstload, remembered, polls,
                       retry, href, session, historyHash, currentHistoryLength, app>>
    BY <1>1 DEF vars, pageVars, browserVars
  <2>2. OwnMoveSound'
    BY <2>1 DEF Standing, OwnMoveSound, HistoryLength, LookUp, TableToCome
  <2>3. QED
    BY <2>1, <2>2 DEF Standing, IE, FrameOfIE, StartSound
<1>2. QED
  BY <1>1, UserStep, MoveStep, StartStep, NoticeStep DEF Next, Proceed, CheckForUrlChange

\* The invariant behind OwnMoveStands holds of every behaviour.
LEMMA StandingCorrect == Spec => [](AddressTypes /\ Standing)
<1>1. Init => AddressTypes /\ Standing
  <2> SUFFICES ASSUME Init, NEW url \in Opened, InitWith(url)
               PROVE  AddressTypes /\ Standing
    BY DEF Init
  <2>1. session \in Session
    <3>1. Entry(url, Blank) \in Entries
      BY HistoryAssumption DEF Entries, Entry, Url
    <3> DEFINE t == <<Entry(url, Blank)>>
    <3>2. t \in Seq(Entries) /\ Len(t) = 1
      BY <3>1
    <3> HIDE DEF t
    <3>3. session = [at |-> 1, entries |-> t, untold |-> FALSE]
      BY DEF t, InitWith
    <3>4. session \in [at : Nat, entries : Seq(Entries), untold : BOOLEAN]
      BY <3>2, <3>3
    <3>5. session.at = 1 /\ session.entries = t /\ 1 \in 1..Len(t)
      BY <3>2, <3>3
    <3>6. QED
      BY <3>4, <3>5 DEF Session
  <2> USE HistoryAssumption DEF Init, InitWith
  <2>2. AddressTypes
    BY <2>1 DEF AddressTypes, Url, Table
  <2>3. Standing
    BY DEF Standing, FrameOfIE, StartSound, OwnMoveSound
  <2>4. QED
    BY <2>2, <2>3
<1>2. QED
  BY <1>1, AddressStep, StandingStep, PTL DEF Spec

\* A late event, poll or frame never takes back a move of the application.
THEOREM OwnMoveCorrect == Spec => []OwnMoveStands
<1>1. Standing => OwnMoveStands
  BY DEF Standing, OwnMoveSound, OwnMoveStands
<1>2. QED
  BY <1>1, StandingCorrect, PTL

-----------------------------------------------------------------------------
\* A stack that loses its last entry, and one that gets another.
LEMMA Popped ==
  ASSUME NEW s \in Seq(Fragment), s # <<>>
  PROVE  /\ Front(s) \in Seq(Fragment)
         /\ Last(s) \in Fragment
         /\ Last(s) = s[Len(s)]
         /\ Len(Front(s)) = Len(s) - 1
         /\ \A i \in 1..(Len(s) - 1) : Front(s)[i] = s[i]
<1> DEFINE m == Len(s) - 1
           t == SubSeq(s, 1, m)
<1>1. /\ m \in Nat /\ Len(s) = m + 1
      /\ Len(s) \in 1..Len(s)
  <2>1. Len(s) \in Nat /\ (Len(s) = 0 <=> s = <<>>)
    OBVIOUS
  <2>2. QED
    BY <2>1
<1>2. s[Len(s)] \in Fragment
  BY <1>1
<1>3. Front(s) = t /\ Last(s) = s[Len(s)]
  BY DEF Front, Last
<1> HIDE DEF m
<1>4. t \in Seq(Fragment)
  BY <1>1
<1>5. Len(t) = m
  BY <1>1
<1>6. \A i \in 1..m : t[i] = s[i]
  BY <1>1
<1> HIDE DEF t
<1>7. QED
  BY <1>2, <1>3, <1>4, <1>5, <1>6 DEF m

\* What was pushed is on top, over what was there.
LEMMA Pushed ==
  ASSUME NEW s \in Seq(Fragment), NEW f \in Fragment
  PROVE  /\ Append(s, f) \in Seq(Fragment) /\ Append(s, f) # <<>>
         /\ Len(Append(s, f)) = Len(s) + 1
         /\ \A i \in 1..Len(s) : Append(s, f)[i] = s[i]
         /\ Last(Append(s, f)) = f
         /\ Front(Append(s, f)) = s
<1> DEFINE t == Append(s, f)
<1>1. /\ t \in Seq(Fragment) /\ t # <<>>
      /\ Len(t) = Len(s) + 1
      /\ \A i \in 1..Len(s) : t[i] = s[i]
      /\ t[Len(s) + 1] = f
  OBVIOUS
<1> HIDE DEF t
<1>2. Last(t) = f
  BY <1>1 DEF Last
<1>3. /\ Front(t) \in Seq(Fragment)
      /\ Len(Front(t)) = Len(t) - 1
      /\ \A i \in 1..(Len(t) - 1) : Front(t)[i] = t[i]
  BY <1>1, Popped
<1>4. Front(t) = s
  <2> DEFINE u == Front(t)
  <2> HIDE DEF u
  <2>1. /\ u \in Seq(Fragment) /\ Len(u) = Len(s)
        /\ \A i \in 1..Len(s) : u[i] = s[i]
    BY <1>1, <1>3 DEF u
  <2>2. u = s
    BY <2>1
  <2>3. QED
    BY <2>2 DEF u
<1>5. QED
  BY <1>1, <1>2, <1>4 DEF t

\* What the two handlers do to a pair of stacks.
LEMMA Handled ==
  ASSUME NEW b \in Seq(Fragment), NEW f \in Seq(Fragment)
  PROVE  /\ b # <<>> => HandleBackButton([back |-> b, forward |-> f])
                          = [back |-> Front(b), forward |-> Append(f, Last(b))]
         /\ f # <<>> => HandleForwardButton([back |-> b, forward |-> f])
                          = [back |-> Append(b, Last(f)), forward |-> Front(f)]
BY DEF HandleBackButton, HandleForwardButton

\* The part of the poll that works on the stacks: h is the page the address
\* is at, and i the page at the bottom of the stacks.
TopOf(s, i) == IF s = <<>> THEN i ELSE Last(s)

Polled(b, f, h, i, home, ahead, back, p0, p1, p2, p3) ==
  /\ p0 = [back |-> b, forward |-> f]
  /\ home <=> h = i /\ Len(b) = 1
  /\ p1 = IF home THEN HandleBackButton(p0) ELSE p0
  /\ ahead <=> p1.forward # <<>> /\ Last(p1.forward) = h
  /\ p2 = IF ahead THEN HandleForwardButton(p1) ELSE p1
  /\ back <=> Len(b) >= 2 /\ p2.back[Len(b) - 1] = h
  /\ p3 = IF back THEN HandleBackButton(p2) ELSE p2

\* Whatever way the poll decides on, the stacks are lists of fragments after it;
\* and when it decides on one way only, the page is on top.
LEMMA PolledOnTop ==
  ASSUME NEW b \in Seq(Fragment), NEW f \in Seq(Fragment),
         NEW h \in Fragment, NEW i \in Fragment,
         NEW home \in BOOLEAN, NEW ahead \in BOOLEAN, NEW back \in BOOLEAN,
         NEW p0, NEW p1, NEW p2, NEW p3,
         Polled(b, f, h, i, home, ahead, back, p0, p1, p2, p3)
  PROVE  /\ p3.back \in Seq(Fragment) /\ p3.forward \in Seq(Fragment)
         /\ ahead /\ ~(home \/ back) => TopOf(p3.back, i) = h
         /\ ~ahead /\ (home \/ back) => TopOf(p3.back, i) = h
         /\ TopOf(b, i) = h => TopOf(p3.back, i) = h
<1>0. /\ p0 = [back |-> b, forward |-> f]
      /\ home <=> h = i /\ Len(b) = 1
      /\ p1 = IF home THEN HandleBackButton(p0) ELSE p0
      /\ ahead <=> p1.forward # <<>> /\ Last(p1.forward) = h
      /\ p2 = IF ahead THEN HandleForwardButton(p1) ELSE p1
      /\ back <=> Len(b) >= 2 /\ p2.back[Len(b) - 1] = h
      /\ p3 = IF back THEN HandleBackButton(p2) ELSE p2
  BY DEF Polled
<1>1. Len(b) \in Nat /\ (Len(b) = 0 <=> b = <<>>)
  OBVIOUS
<1>2. CASE home
  <2>0. Len(b) = 1
    BY <1>0, <1>2, Zenon
  <2>1. b # <<>> /\ ~back
    <3>1. back => Len(b) >= 2
      BY <1>0, Zenon
    <3>2. QED
      BY <1>1, <2>0, <3>1
  <2>2. Last(b) \in Fragment /\ Front(b) \in Seq(Fragment) /\ Len(Front(b)) = 0
    BY <2>0, <2>1, Popped
  <2>3. Front(b) = <<>> /\ <<>> \in Seq(Fragment)
    BY <2>2
  <2>4. p1 = [back |-> <<>>, forward |-> Append(f, Last(b))]
    BY <1>0, <1>2, <2>1, <2>3, Handled
  <2> DEFINE t == Append(f, Last(b))
             e == Append(<<>>, Last(b))
  <2>5. t \in Seq(Fragment) /\ t # <<>> /\ Last(t) = Last(b) /\ Front(t) = f
    BY <2>2, Pushed
  <2>6. e \in Seq(Fragment) /\ e # <<>> /\ Last(e) = Last(b)
    BY <2>2, <2>3, Pushed
  <2> HIDE DEF t, e
  <2>7. CASE ahead
    <3>1. Last(b) = h
      <4>1. p1.forward = t
        BY <2>4 DEF t
      <4>2. Last(p1.forward) = h
        BY <1>0, <2>7
      <4>3. QED
        BY <2>5, <4>1, <4>2
    <3>2. p2 = [back |-> e, forward |-> f]
      <4>1. p2 = HandleForwardButton([back |-> <<>>, forward |-> t])
        BY <1>0, <2>4, <2>7 DEF t
      <4>2. QED
        BY <2>3, <2>5, <4>1, Handled DEF e
    <3>3. p3 = p2
      BY <1>0, <2>1
    <3>4. QED
      BY <1>2, <2>6, <2>7, <3>1, <3>2, <3>3 DEF TopOf
  <2>8. CASE ~ahead
    <3>1. p3 = [back |-> <<>>, forward |-> t]
      BY <1>0, <2>1, <2>4, <2>8 DEF t
    <3>2. QED
      <4>1. p3.back = <<>> /\ p3.forward = t
        BY <3>1
      <4>2. h = i /\ TopOf(<<>>, i) = i
        BY <1>0, <1>2 DEF TopOf
      <4>3. QED
        BY <2>3, <2>5, <2>8, <4>1, <4>2
  <2>9. QED
    BY <2>7, <2>8
<1>3. CASE ~home /\ ahead
  <2>1. f # <<>> /\ Last(f) = h
    BY <1>0, <1>3
  <2>2. p2 = [back |-> Append(b, h), forward |-> Front(f)]
    BY <1>0, <1>3, <2>1, Handled
  <2>3. Front(f) \in Seq(Fragment)
    BY <2>1, Popped
  <2> DEFINE a == Append(b, h)
             t == Append(Front(f), h)
  <2>4. a \in Seq(Fragment) /\ a # <<>> /\ Last(a) = h /\ Front(a) = b
    BY Pushed
  <2>5. t \in Seq(Fragment)
    BY <2>3, Pushed
  <2> HIDE DEF a, t
  <2>6. CASE back
    <3>1. p3 = [back |-> b, forward |-> t]
      <4>1. p3 = HandleBackButton([back |-> a, forward |-> Front(f)])
        BY <1>0, <2>2, <2>6 DEF a
      <4>2. QED
        BY <2>3, <2>4, <4>1, Handled DEF t
    <3>2. QED
      BY <1>3, <2>5, <2>6, <3>1
  <2>7. CASE ~back
    <3>1. p3 = [back |-> a, forward |-> Front(f)]
      BY <1>0, <2>2, <2>7 DEF a
    <3>2. QED
      BY <1>3, <2>3, <2>4, <2>7, <3>1 DEF TopOf
  <2>8. QED
    BY <2>6, <2>7
<1>4. CASE ~home /\ ~ahead
  <2>1. p2 = p0
    BY <1>0, <1>4
  <2>2. CASE back
    <3>1. b # <<>> /\ Len(b) >= 2 /\ b[Len(b) - 1] = h
      BY <1>0, <1>1, <2>1, <2>2
    <3> DEFINE r == Front(b)
               t == Append(f, Last(b))
    <3>2. p3 = [back |-> r, forward |-> t]
      BY <1>0, <2>1, <2>2, <3>1, Handled
    <3>3. /\ r \in Seq(Fragment) /\ Last(b) \in Fragment
          /\ Len(r) = Len(b) - 1 /\ r[Len(b) - 1] = h
      <4>1. Len(b) - 1 \in 1..(Len(b) - 1)
        BY <1>1, <3>1
      <4>2. QED
        BY <3>1, <4>1, Popped
    <3>4. t \in Seq(Fragment)
      BY <3>3, Pushed
    <3> HIDE DEF r, t
    <3>5. r # <<>>
      BY <1>1, <3>1, <3>3
    <3>6. Last(r) = h
      BY <3>3, <3>5, Popped
    <3>7. QED
      BY <1>4, <2>2, <3>2, <3>3, <3>4, <3>5, <3>6 DEF TopOf
  <2>3. CASE ~back
    BY <1>0, <1>4, <2>1, <2>3
  <2>4. QED
    BY <2>2, <2>3
<1>5. QED
  BY <1>2, <1>3, <1>4

\* The poll of Firefox leaves the current page on top, if it followed at all.
LEMMA FirefoxStep ==
  ASSUME AddressTypes, Standing, StacksFollowPoll, CheckFirefox
  PROVE  StacksFollowPoll'
<1>1. /\ kind = "firefox" /\ app # None /\ ~event
      /\ backStack \in Seq(Fragment) /\ forwardStack \in Seq(Fragment)
      /\ GetHash \in Fragment /\ GetHash # None
      /\ HashOf(initialHref) \in Fragment
      /\ ~lost => HashOf(currentHref) = TopOf(backStack, HashOf(initialHref))
  BY HashTyped, HistoryAssumption
     DEF CheckFirefox, SeenByHref, Standing, StartSound, StacksFollowPoll, AddressTypes, GetHash, Top, TopOf
<1>2. PICK home, ahead, back, p0, p1, p2, p3 :
        /\ home \in BOOLEAN /\ ahead \in BOOLEAN /\ back \in BOOLEAN
        /\ Polled(backStack, forwardStack, GetHash, HashOf(initialHref),
                  home, ahead, back, p0, p1, p2, p3)
        /\ backStack' = p3.back
        /\ forwardStack' = IF home \/ ahead \/ back THEN p3.forward ELSE <<>>
        /\ lost' = IF GetHash = HashOf(currentHref) THEN lost ELSE (home \/ back) <=> ahead
  <2> DEFINE p0    == [back |-> backStack, forward |-> forwardStack]
             home  == GetHash = HashOf(initialHref) /\ Len(backStack) = 1
             p1    == IF home THEN HandleBackButton(p0) ELSE p0
             ahead == p1.forward # <<>> /\ Last(p1.forward) = GetHash
             p2    == IF ahead THEN HandleForwardButton(p1) ELSE p1
             back  == Len(backStack) >= 2 /\ p2.back[Len(backStack) - 1] = GetHash
             p3    == IF back THEN HandleBackButton(p2) ELSE p2
  <2>1. /\ backStack' = p3.back
        /\ forwardStack' = IF home \/ ahead \/ back THEN p3.forward ELSE <<>>
        /\ lost' = IF GetHash = HashOf(currentHref) THEN lost ELSE (home \/ back) <=> ahead
    BY Zenon DEF CheckFirefox
  <2>2. Polled(backStack, forwardStack, GetHash, HashOf(initialHref),
               home, ahead, back, p0, p1, p2, p3)
    BY Zenon DEF Polled
  <2>3. home \in BOOLEAN /\ ahead \in BOOLEAN /\ back \in BOOLEAN
    OBVIOUS
  <2> HIDE DEF home, ahead, back, p0, p1, p2, p3
  <2>4. QED
    BY Zenon, <2>1, <2>2, <2>3
<1>3. /\ currentHref' = href /\ app' = GetHash
      /\ UNCHANGED <<kind, event, initialHref, href>>
  BY <1>1 DEF CheckFirefox, Tell
<1>4. /\ p3.back \in Seq(Fragment) /\ p3.forward \in Seq(Fragment)
      /\ ahead /\ ~(home \/ back) => TopOf(p3.back, HashOf(initialHref)) = GetHash
      /\ ~ahead /\ (home \/ back) => TopOf(p3.back, HashOf(initialHref)) = GetHash
      /\ TopOf(backStack, HashOf(initialHref)) = GetHash
           => TopOf(p3.back, HashOf(initialHref)) = GetHash
  BY <1>1, <1>2, PolledOnTop
<1>5. /\ backStack' \in Seq(Fragment) /\ forwardStack' \in Seq(Fragment)
  BY <1>2, <1>4
<1>6. ~lost' => TopOf(p3.back, HashOf(initialHref)) = GetHash
  BY <1>1, <1>2, <1>4
<1>7. HashOf(currentHref') = GetHash /\ HashOf(initialHref') = HashOf(initialHref)
  BY <1>3 DEF GetHash
<1>8. ~lost' => HashOf(currentHref') = Top'
  BY <1>2, <1>6, <1>7 DEF Top, TopOf
<1>9. QED
  BY <1>1, <1>3, <1>5, <1>8 DEF StacksFollowPoll

\* The application moves: what it moves to is the new top.
LEMMA FirefoxMove ==
  ASSUME AddressTypes, Standing, StacksFollowPoll, NEW f \in Fragment, Move(f)
  PROVE  StacksFollowPoll'
<1> SUFFICES ASSUME kind' = "firefox"
             PROVE  StacksFollowPoll'
  BY DEF StacksFollowPoll
<1>1. /\ kind = "firefox" /\ app # None
      /\ UNCHANGED <<initialHref, phase>>
      /\ app' = f /\ app' # None
      /\ lost' = (lost /\ Says(href, f))
  BY HistoryAssumption DEF Move
<1>0. PICK s : SetBrowserURL(s, loading, f)
  BY DEF Move
<1>2. /\ ~event
      /\ backStack \in Seq(Fragment) /\ forwardStack \in Seq(Fragment)
      /\ ~lost => HashOf(currentHref) = Top
  BY <1>1 DEF StacksFollowPoll
<1>3. CASE Says(href, f)
  <2>1. UNCHANGED <<event, currentHref, backStack, forwardStack>>
    BY <1>0, <1>3 DEF SetBrowserURL
  <2>2. lost' <=> lost
    BY <1>1, <1>3
  <2>3. QED
    BY <1>1, <1>2, <2>1, <2>2 DEF StacksFollowPoll, Top
<1>4. CASE ~Says(href, f)
  <2>1. /\ currentHref' = f /\ ~event'
        /\ backStack' = Append(backStack, f) /\ forwardStack' = <<>>
    BY <1>0, <1>1, <1>2, <1>4 DEF SetBrowserURL, IE, AddEntry, SetHash, Notify, BrowserHasHashChange
  <2>2. HashOf(f) = f
    BY HistoryAssumption DEF HashOf
  <2> DEFINE t == Append(backStack, f)
  <2>3. t \in Seq(Fragment) /\ t # <<>> /\ Last(t) = f
    BY <1>2, Pushed
  <2> HIDE DEF t
  <2>4. backStack' = t
    BY <2>1 DEF t
  <2>5. QED
    BY <1>1, <2>1, <2>2, <2>3, <2>4 DEF StacksFollowPoll, Top
<1>5. QED
  BY <1>3, <1>4

\* Firefox has no frame; what else happens leaves the stacks and what the poll
\* has seen as they are, or starts them anew.
LEMMA FirefoxRest ==
  ASSUME AddressTypes, Standing, StacksFollowPoll,
         \/ SetDefaultURL \/ Reload \/ CheckReload
         \/ \E f \in Fragment : Type(f)
         \/ \E i \in DOMAIN session.entries : Go(i)
         \/ Initialize \/ AppendFrame \/ RetryDefault \/ HashChangeHandler
         \/ FrameLoad \/ CheckFrame \/ CheckSafari
         \/ UNCHANGED vars
  PROVE  StacksFollowPoll'
<1> SUFFICES ASSUME kind' = "firefox"
             PROVE  StacksFollowPoll'
  BY DEF StacksFollowPoll
<1> USE DEF IE, BrowserHasHashChange
<1>1. CASE SetDefaultURL
  <2>1. /\ kind = "firefox" /\ ~IE /\ app = None
        /\ UNCHANGED <<initialHref, currentHref, backStack, forwardStack>>
        /\ app' = GetHash
        /\ lost' = (GetHash # HashOf(initialHref))
    BY <1>1 DEF SetDefaultURL
  <2>2. ~event' /\ app' # None
    BY <1>1, <2>1, HashTyped, HistoryAssumption
       DEF SetDefaultURL, Safari, StartOther, Replace, Notify, StacksFollowPoll, GetHash, AddressTypes
  <2>3. QED
    BY <2>1, <2>2 DEF StacksFollowPoll, Top
<1>2. CASE Reload \/ CheckReload
  <2>1. Restart
    BY <1>2 DEF Reload, CheckReload
  <2>2. <<>> \in Seq(Fragment)
    OBVIOUS
  <2>3. QED
    BY <2>1, <2>2 DEF Restart, StacksFollowPoll
<1>3. ASSUME \/ \E f \in Fragment : Type(f)
             \/ \E i \in DOMAIN session.entries : Go(i)
      PROVE  StacksFollowPoll'
  <2>1. /\ UNCHANGED <<kind, initialHref, currentHref, backStack, forwardStack, app, lost>>
        /\ ~event => ~event'
    BY <1>3 DEF Type, Go, UserMove, pageVars, Notify
  <2>2. QED
    BY <2>1 DEF StacksFollowPoll, Top
<1>4. CASE Initialize \/ AppendFrame \/ UNCHANGED vars
  BY <1>4 DEF Initialize, AppendFrame, vars, pageVars, browserVars, StacksFollowPoll, Top
<1>5. CASE RetryDefault \/ HashChangeHandler \/ FrameLoad \/ CheckFrame \/ CheckSafari
  BY <1>5 DEF RetryDefault, HashChangeHandler, FrameLoad, CheckFrame, CheckSafari,
              SeenByFrame, SeenByLength, ByHand, Safari, Standing, FrameOfIE, StacksFollowPoll
<1>6. QED
  BY <1>1, <1>2, <1>3, <1>4, <1>5

\* Every step keeps the stacks with the poll.
LEMMA StacksStep ==
  ASSUME AddressTypes, Standing, StacksFollowPoll, [Next]_vars
  PROVE  StacksFollowPoll'
BY FirefoxStep, FirefoxMove, FirefoxRest DEF Next, Proceed, CheckForUrlChange

\* "The current page is always at the top of the history stack" of Firefox,
\* once the poll has looked and could tell back from forward.
THEOREM CurrentOnTopCorrect == Spec => []CurrentOnTop
<1>1. Init => StacksFollowPoll
  <2> SUFFICES ASSUME Init, NEW url \in Opened, InitWith(url)
               PROVE  StacksFollowPoll
    BY DEF Init
  <2>1. <<>> \in Seq(Fragment)
    OBVIOUS
  <2>2. QED
    BY <2>1 DEF Init, InitWith, StacksFollowPoll
<1>2. Standing => FrameOfIE
  BY DEF Standing
<1>3. StacksFollowPoll => CurrentOnTop
  BY DEF StacksFollowPoll, CurrentOnTop, Top, GetHash
<1>4. QED
  BY <1>1, <1>2, <1>3, StacksStep, StandingCorrect, PTL DEF Spec

-----------------------------------------------------------------------------
(***************************************************************************)
(* Where the application is, browser by browser, while nothing says that   *)
(* it is to go elsewhere.                                                  *)
(***************************************************************************)
\* With the event: as long as none is queued, where the address is.
EventFollows ==
  /\ kind = "hash" /\ app # None => phase = "ready"
  /\ ~BrowserHasHashChange => ~event
  /\ kind \in {"hash", "webkit", "ie8"} /\ app # None /\ ~blind /\ ~event => app = GetHash

\* Firefox: while the poll sees no other address, where the address is.
PollFollows ==
  kind = "firefox" /\ app # None /\ ~blind /\ href = currentHref => app = GetHash

\* Internet Explorer: where the address is while the first load of the frame is
\* to come or on its way, and later when nothing is loading and the poll, which
\* compares the address with currentHref and the frame, takes it for old.
FrameFollows ==
  IE /\ app # None /\ ~blind =>
    /\ firstload => app = GetHash
    /\ retry # None => retry = GetHash
    /\ loading = None /\ GetHash \in Remembered => app = GetHash

\* Safari before 4: a table tells of every entry of the session.
Tells(t) ==
  /\ t \in Seq(Fragment)
  /\ \A i \in DOMAIN session.entries :
       i \in DOMAIN t /\ t[i] = HashOf(session.entries[i].url)

\* As long as the table is to tell of every entry, the form field keeps such a
\* table over a reload, or there is but one entry; the page has the table, or will
\* read it; and where the poll sees nothing new the application is at the current
\* entry.
TableFollows ==
  kind = "safari3" /\ ~session.untold =>
    /\ remembered = <<>> \/ Tells(remembered)
    /\ app = None /\ remembered = <<>> => Len(session.entries) = 1
    /\ app = None => historyHash = (IF phase = "ready" THEN remembered ELSE <<>>)
    /\ app # None => \/ Tells(historyHash)
                     \/ TableToCome /\ (blind \/ session.at = currentHistoryLength)
    /\ app = None /\ ~blind => href = Current(session).url
    /\ app # None /\ ~blind /\ session.at = currentHistoryLength =>
         app = HashOf(Current(session).url)

\* setBrowserURL leaves the address at f, but for the first load of the frame.
LEMMA AddressSet ==
  ASSUME NEW s, NEW l, NEW f \in Fragment, SetBrowserURL(s, l, f),
         IE => ~firstload /\ frame # None
  PROVE  GetHash' = f
<1>1. HashOf(f) = f /\ HashOf(Bare) = Empty
  BY HistoryAssumption DEF HashOf
<1>2. CASE Says(href, f)
  BY <1>1, <1>2 DEF SetBrowserURL, Says, GetHash
<1>3. CASE ~Says(href, f)
  <2>1. href' = f
    BY <1>3 DEF SetBrowserURL, AddFrameEntry, Echo, AddEntry, SetHash
  <2>2. QED
    BY <1>1, <2>1 DEF GetHash
<1>4. QED
  BY <1>2, <1>3

\* Writing the '#' the address may lack changes nothing.
LEMMA HashWritten ==
  ASSUME AddressTypes, href' = GetHash
  PROVE  GetHash' = GetHash
BY HashTyped, HistoryAssumption DEF AddressTypes, GetHash, HashOf, Url

\* The event brings the application to the address.
LEMMA EventStep ==
  ASSUME AddressTypes, Standing, EventFollows, [Next]_vars
  PROVE  EventFollows'
<1> USE DEF IE, BrowserHasHashChange, EventFollows
<1>1. CASE SetDefaultURL
  <2>1. /\ UNCHANGED <<kind, phase>> /\ app' = GetHash
        /\ kind = "hash" => phase = "ready"
    BY <1>1 DEF SetDefaultURL
  <2>2. UNCHANGED <<href, event>> \/ Replace(GetHash)
    BY <1>1 DEF SetDefaultURL, StartIE, LoadDefault, StartSafari, StartOther
  <2>3. GetHash' = GetHash
    BY <2>2, HashWritten DEF Replace, GetHash
  <2>4. ~BrowserHasHashChange => (event' <=> event)
    BY <2>2 DEF Replace, Notify
  <2>5. QED
    BY <2>1, <2>3, <2>4
<1>2. ASSUME NEW f \in Fragment, Move(f)
      PROVE  EventFollows'
  <2>1. UNCHANGED <<kind, phase>> /\ app # None /\ app' = f
    BY <1>2 DEF Move
  <2>2. PICK s : SetBrowserURL(s, loading, f)
    BY <1>2 DEF Move
  <2>3. ~BrowserHasHashChange => (event' <=> event)
    BY <2>2 DEF SetBrowserURL, AddFrameEntry, AddEntry, SetHash, Notify
  <2>4. ~IE => GetHash' = f
    BY <2>2, AddressSet
  <2>5. QED
    BY <2>1, <2>3, <2>4
<1>3. ASSUME \/ \E f \in Fragment : Type(f)
             \/ \E i \in DOMAIN session.entries : Go(i)
      PROVE  EventFollows'
  <2>1. /\ UNCHANGED <<kind, app, phase>> /\ Notify(href')
        /\ ~blind' => ~blind /\ ~Unwatched
    BY <1>3 DEF Type, Go, UserMove, pageVars
  <2>2. event' <=> event \/ (BrowserHasHashChange /\ href' # href)
    BY <2>1 DEF Notify
  <2>3. kind \in {"hash", "webkit", "ie8"} /\ app # None /\ ~blind' => BrowserHasHashChange
    BY <2>1 DEF Unwatched, AddressTypes
  <2>4. QED
    BY <2>1, <2>2, <2>3 DEF GetHash
<1>4. CASE Reload \/ CheckReload
  BY <1>4 DEF Reload, CheckReload, Restart
<1>5. CASE Initialize \/ AppendFrame \/ UNCHANGED vars
  <2>1. UNCHANGED <<kind, app, event, href, blind>> /\ (phase' = phase \/ phase' = "ready")
    BY <1>5 DEF Initialize, AppendFrame, pageVars, vars, browserVars
  <2>2. QED
    BY <2>1 DEF GetHash
<1>6. CASE RetryDefault \/ FrameLoad
  <2>1. /\ UNCHANGED <<kind, phase>> /\ IE /\ (app = None => app' = None)
        /\ (BrowserHasHashChange \/ (event' <=> event))
    BY <1>6 DEF RetryDefault, LoadDefault, Replace, FrameLoad, BrowserURLChange,
                SetBrowserURL, AddFrameEntry,
                AddEntry, SetHash, Notify, Standing, FrameOfIE
  <2>2. QED
    BY <2>1
<1>7. CASE HashChangeHandler \/ CheckFrame \/ CheckFirefox \/ CheckSafari
  <2>1. UNCHANGED <<kind, href, phase, blind>> /\ (app = None => app' = None)
    BY <1>7 DEF Tell, HashChangeHandler, CheckFrame, CheckFirefox, CheckSafari
  <2>2. CASE HashChangeHandler
    BY <2>1, <2>2 DEF HashChangeHandler, Tell, GetHash
  <2>3. CASE CheckFrame \/ CheckFirefox \/ CheckSafari
    <3>1. UNCHANGED event
      BY <2>3 DEF CheckFrame, CheckFirefox, CheckSafari
    <3>2. kind \in {"hash", "webkit", "ie8"} /\ app' # None => app' = GetHash
      BY <2>3 DEF CheckFrame, CheckFirefox, CheckSafari, Tell, ByHand, Safari,
                  SeenByFrame, SeenByHref, SeenByLength
    <3>3. QED
      BY <2>1, <3>1, <3>2 DEF GetHash
  <2>4. QED
    BY <1>7, <2>2, <2>3
<1>8. QED
  BY <1>1, <1>2, <1>3, <1>4, <1>5, <1>6, <1>7 DEF Next, Proceed, CheckForUrlChange

\* The poll of Firefox brings the application to the address.
LEMMA PollStep ==
  ASSUME AddressTypes, Standing, PollFollows, [Next]_vars
  PROVE  PollFollows'
<1> SUFFICES ASSUME kind' = "firefox", app' # None, ~blind', href' = currentHref'
             PROVE  app' = GetHash'
  BY DEF PollFollows
<1>0. kind = "firefox" /\ ~IE /\ loading = None /\ retry = None
  <2>1. UNCHANGED kind
    BY DEF Next, SetDefaultURL, Move, Type, Go, UserMove, Reload, Restart, Proceed, Initialize,
           AppendFrame, RetryDefault, HashChangeHandler, FrameLoad, CheckForUrlChange,
           CheckReload, CheckFrame, CheckSafari, CheckFirefox, vars, browserVars
  <2>2. QED
    BY <2>1 DEF IE, Standing, FrameOfIE
<1>1. CASE SetDefaultURL
  <2>1. href' = href \/ href' = GetHash
    BY <1>0, <1>1 DEF SetDefaultURL, Safari, StartOther, Replace
  <2>2. GetHash' = GetHash
    BY <2>1, HashWritten DEF GetHash
  <2>3. QED
    BY <1>1, <2>2 DEF SetDefaultURL
<1>2. ASSUME NEW f \in Fragment, Move(f)
      PROVE  app' = GetHash'
  BY <1>0, <1>2, AddressSet DEF Move
<1>3. ASSUME \/ \E f \in Fragment : Type(f)
             \/ \E i \in DOMAIN session.entries : Go(i)
      PROVE  app' = GetHash'
  <2>1. PICK u : UserMove(u) /\ href' = u
    BY <1>0, <1>3 DEF Type, Go
  <2>2. UNCHANGED <<app, currentHref>> /\ (HashOf(u) \in Remembered => app = HashOf(u))
    BY <1>0, <2>1 DEF UserMove, Overlooked, pageVars
  <2>3. HashOf(u) \in Remembered
    BY <2>1, <2>2 DEF Remembered
  <2>4. QED
    BY <2>1, <2>2, <2>3 DEF GetHash
<1>4. CASE Reload \/ CheckReload
  BY <1>4 DEF Reload, CheckReload, Restart
<1>5. CASE Initialize \/ AppendFrame \/ UNCHANGED vars
  BY <1>0, <1>5 DEF Initialize, AppendFrame, pageVars, vars, browserVars, PollFollows, GetHash
<1>6. CASE HashChangeHandler \/ CheckFirefox
  BY <1>6 DEF HashChangeHandler, CheckFirefox, Tell, GetHash
<1>7. CASE RetryDefault \/ FrameLoad \/ CheckFrame \/ CheckSafari
  BY <1>0, <1>7 DEF RetryDefault, FrameLoad, CheckFrame, CheckSafari, SeenByFrame, SeenByLength,
                    ByHand, Safari
<1>8. QED
  BY <1>1, <1>2, <1>3, <1>4, <1>5, <1>6, <1>7 DEF Next, Proceed, CheckForUrlChange

\* The frame, the event and what the user may do without a blind spot.
LEMMA FrameStep ==
  ASSUME AddressTypes, Standing, FrameFollows, [Next]_vars
  PROVE  FrameFollows'
<1> SUFFICES ASSUME IE', app' # None, ~blind'
             PROVE  /\ firstload' => app' = GetHash'
                    /\ retry' # None => retry' = GetHash'
                    /\ loading' = None /\ GetHash' \in Remembered' => app' = GetHash'
  BY DEF FrameFollows
<1>0. IE
  <2>1. UNCHANGED kind
    BY DEF Next, SetDefaultURL, Move, Type, Go, UserMove, Reload, Restart, Proceed, Initialize,
           AppendFrame, RetryDefault, HashChangeHandler, FrameLoad, CheckForUrlChange,
           CheckReload, CheckFrame, CheckSafari, CheckFirefox, vars, browserVars
  <2>2. QED
    BY <2>1 DEF IE
<1>a. app # None /\ ~blind =>
        /\ firstload => app = GetHash
        /\ retry # None => retry = GetHash /\ firstload /\ loading = None
        /\ loading = None /\ GetHash \in Remembered => app = GetHash
        /\ frame = None => firstload
  BY <1>0 DEF FrameFollows, Standing, StartSound
<1>1. CASE SetDefaultURL
  <2>1. /\ app' = GetHash
        /\ href' = href \/ href' = GetHash
        /\ retry' \in {None, GetHash}
    BY <1>0, <1>1 DEF SetDefaultURL, StartIE, LoadDefault, Replace
  <2>2. GetHash' = GetHash
    BY <2>1, HashWritten DEF GetHash
  <2>3. QED
    BY <2>1, <2>2
<1>2. ASSUME NEW f \in Fragment, Move(f)
      PROVE  /\ app' = GetHash'
             /\ retry' = None
  <2>1. /\ app # None /\ ~blind /\ ~firstload
        /\ app' = f /\ UNCHANGED retry
    BY <1>2 DEF Move
  <2>2. PICK s : SetBrowserURL(s, loading, f)
    BY <1>2 DEF Move
  <2>3. frame # None /\ retry = None
    BY <1>a, <2>1
  <2>4. QED
    BY <2>1, <2>2, <2>3, AddressSet
<1>3. ASSUME \/ \E f \in Fragment : Type(f)
             \/ \E i \in DOMAIN session.entries : Go(i)
      PROVE  /\ ~firstload' /\ retry' = None
             /\ GetHash' \in Remembered' => app' = GetHash'
  <2>1. PICK u : UserMove(u) /\ href' = u
    BY <1>0, <1>3 DEF IE, Type, Go
  <2>2. /\ UNCHANGED <<app, currentHref, kind, frame, firstload, retry>>
        /\ ~blind /\ ~firstload
        /\ HashOf(u) \in Remembered => app = HashOf(u)
    BY <1>0, <2>1 DEF UserMove, Overlooked, IE, pageVars
  <2>3. GetHash' = HashOf(u) /\ Remembered' = Remembered
    BY <2>1, <2>2 DEF GetHash, Remembered, GetIframeHash, IE
  <2>4. QED
    BY <1>a, <2>2, <2>3
<1>4. CASE Reload \/ CheckReload
  BY <1>4 DEF Reload, CheckReload, Restart
<1>5. CASE Initialize
  <2>1. frame = None /\ UNCHANGED <<app, blind, firstload, retry, href>>
    BY <1>5 DEF Initialize, Standing, StartSound
  <2>2. QED
    BY <1>a, <2>1 DEF GetHash
<1>6. CASE AppendFrame
  BY <1>a, <1>6 DEF AppendFrame, pageVars, GetHash
<1>7. CASE RetryDefault
  <2>1. /\ app # None /\ ~blind /\ retry # None
        /\ href' = href \/ href' = retry
        /\ retry' = None /\ UNCHANGED app
    BY <1>7 DEF RetryDefault, LoadDefault, Replace
  <2>2. app = GetHash /\ retry = GetHash
    BY <1>a, <2>1
  <2>3. GetHash' = GetHash
    BY <2>1, <2>2, HashWritten DEF GetHash
  <2>4. QED
    BY <2>1, <2>2, <2>3
<1>8. CASE HashChangeHandler
  BY <1>a, <1>8 DEF HashChangeHandler, Tell, GetHash
<1>9. CASE FrameLoad
  <2>1. /\ app # None /\ ~blind /\ loading # None /\ UNCHANGED retry /\ ~firstload'
        /\ loading.to \in Fragment
    BY <1>9 DEF FrameLoad, BrowserURLChange, AddressTypes, Load
  <2>2. retry' = None
    BY <1>a, <2>1
  <2>3. CASE firstload
    BY <1>9, <1>a, <2>1, <2>3 DEF FrameLoad, GetHash
  <2>4. CASE ~firstload
    <3>1. app' = loading.to /\ \E s : SetBrowserURL(s, None, loading.to)
      BY <1>9, <2>1, <2>4 DEF FrameLoad, BrowserURLChange
    <3>2. GetHash' = loading.to
      BY <1>a, <2>1, <2>4, <3>1, AddressSet
    <3>3. QED
      BY <2>1, <2>2, <3>1, <3>2
  <2>5. QED
    BY <2>1, <2>2, <2>3, <2>4
<1>10. CASE CheckFrame
  <2>1. loading' # None
    <3>1. loading' = [to |-> GetHash, new |-> TRUE] /\ GetHash \in Fragment
      BY <1>10, HashTyped DEF CheckFrame, GetHash, AddressTypes
    <3>2. loading' \in [to : Fragment, new : BOOLEAN]
      BY <3>1
    <3>3. QED
      BY <3>2, HistoryAssumption
  <2>2. /\ app # None /\ ~blind /\ retry' = None
        /\ UNCHANGED <<app, href, firstload>>
    BY <1>10 DEF CheckFrame, SeenByFrame, AddressLeft, Standing, StartSound
  <2>3. QED
    BY <1>a, <2>1, <2>2 DEF GetHash
<1>11. CASE CheckSafari \/ CheckFirefox
  BY <1>0, <1>11 DEF CheckSafari, CheckFirefox, SeenByLength, ByHand, Safari, SeenByHref, IE
<1>12. CASE UNCHANGED vars
  BY <1>12, <1>a DEF vars, pageVars, browserVars, GetHash, Remembered, GetIframeHash, IE
<1>13. QED
  BY <1>1, <1>2, <1>3, <1>4, <1>5, <1>6, <1>7, <1>8, <1>9, <1>10, <1>11, <1>12
     DEF Next, Proceed, CheckForUrlChange

\* What is recorded next in a table, or over what it has, leaves a table.
LEMMA Recorded ==
  ASSUME NEW t \in Seq(Fragment), NEW n \in 1..(Len(t) + 1), NEW f \in Fragment
  PROVE  /\ Stored(t, n, f) \in Seq(Fragment)
         /\ Stored(t, n, f) # <<>>
         /\ n \in DOMAIN Stored(t, n, f) /\ Stored(t, n, f)[n] = f
         /\ \A i \in DOMAIN t : /\ i \in DOMAIN Stored(t, n, f)
                                /\ i # n => Stored(t, n, f)[i] = t[i]
<1> DEFINE u == Stored(t, n, f)
<1>1. PICK m \in Nat : m = Len(t)
  OBVIOUS
<1>2. DOMAIN t = 1..m /\ t \in [1..m -> Fragment]
  BY <1>1
<1>3. u = [i \in 1..m \cup {n} |-> IF i = n THEN f ELSE t[i]]
  BY <1>2 DEF Stored
<1>4. PICK k \in Nat : 1..m \cup {n} = 1..k
  <2>1. CASE n = m + 1
    <3>1. 1..m \cup {n} = 1..(m + 1)
      BY <2>1
    <3>2. QED
      BY <3>1
  <2>2. CASE n # m + 1
    <3>1. 1..m \cup {n} = 1..m
      BY <1>1, <2>2
    <3>2. QED
      BY <3>1
  <2>3. QED
    BY <2>1, <2>2
<1>5. /\ DOMAIN u = 1..k /\ n \in 1..k /\ u[n] = f
      /\ \A i \in 1..m : i \in 1..k /\ (i # n => u[i] = t[i])
  BY <1>3, <1>4
<1>6. u \in [1..k -> Fragment]
  BY <1>2, <1>3, <1>4
<1> HIDE DEF u
<1>7. u \in Seq(Fragment)
  BY <1>6
<1>8. u # <<>>
  BY <1>5, <1>7
<1>9. QED
  BY <1>2, <1>5, <1>7, <1>8 DEF u

\* join and split give back a table without holes.
LEMMA JoinedWhole ==
  ASSUME NEW t \in Seq(Fragment), t # <<>>
  PROVE  Joined(t) = t
<1>1. PICK m \in Nat : m = Len(t)
  OBVIOUS
<1>2. DOMAIN t = 1..m /\ t \in [1..m -> Fragment] /\ m \in 1..m
  BY <1>1
<1>3. Max(1..m) = m
  BY <1>2 DEF Max
<1>4. Joined(t) = [n \in 1..m |-> t[n]]
  BY <1>2, <1>3 DEF Joined
<1>5. QED
  BY <1>2, <1>4

\* The entries after a move, and after a change of the current one.
LEMMA Visited ==
  ASSUME NEW s \in Session, NEW e
  PROVE  /\ s.at \in Nat /\ s.at \in DOMAIN s.entries /\ 1 \in DOMAIN s.entries
         /\ Visit(s, e).at = s.at + 1 /\ Visit(s, e).untold = s.untold
         /\ DOMAIN Visit(s, e).entries = 1..(s.at + 1)
         /\ Visit(s, e).entries[s.at + 1] = e
         /\ \A i \in 1..s.at : i \in DOMAIN s.entries /\ Visit(s, e).entries[i] = s.entries[i]
         /\ Amend(s, e).at = s.at /\ Amend(s, e).untold = s.untold
         /\ DOMAIN Amend(s, e).entries = DOMAIN s.entries
         /\ Len(Amend(s, e).entries) = Len(s.entries)
         /\ Amend(s, e).entries[s.at] = e
         /\ \A i \in DOMAIN s.entries : i # s.at => Amend(s, e).entries[i] = s.entries[i]
<1> DEFINE p == SubSeq(s.entries, 1, s.at)
           a == Append(p, e)
           b == [s.entries EXCEPT ![s.at] = e]
<1>1. /\ s = [at |-> s.at, entries |-> s.entries, untold |-> s.untold]
      /\ s.at \in Nat /\ s.at \in 1..Len(s.entries) /\ s.entries \in Seq(Entries)
  BY DEF Session
<1>2. DOMAIN s.entries = 1..Len(s.entries) /\ Len(s.entries) \in Nat
  BY <1>1
<1>3. Len(p) = s.at /\ \A i \in 1..s.at : p[i] = s.entries[i]
  BY <1>1
<1>4. p \in Seq(Entries)
  BY <1>1
<1> HIDE DEF p
<1>5. /\ DOMAIN a = 1..(s.at + 1) /\ a[s.at + 1] = e
      /\ \A i \in 1..s.at : a[i] = p[i]
  <2>1. PICK S : p \in Seq(S) /\ e \in S
    <3>1. p \in Seq(Entries \cup {e})
      BY <1>4
    <3>2. QED
      BY <3>1
  <2>2. QED
    BY <1>1, <1>3, <2>1
<1>6. /\ DOMAIN b = DOMAIN s.entries /\ b[s.at] = e
      /\ \A i \in DOMAIN s.entries : i # s.at => b[i] = s.entries[i]
  BY <1>1, <1>2
<1>7. Len(b) = Len(s.entries)
  BY <1>2, <1>6
<1>8. Visit(s, e) = [at |-> s.at + 1, entries |-> a, untold |-> s.untold]
  <2>1. Visit(s, e) = [s EXCEPT !.at = s.at + 1, !.entries = a]
    BY <1>1 DEF Visit, p
  <2> HIDE DEF a
  <2>2. QED
    BY <1>1, <2>1
<1>9. Amend(s, e) = [at |-> s.at, entries |-> b, untold |-> s.untold]
  <2>1. s = [at |-> s.at, entries |-> s.entries, untold |-> s.untold]
    BY <1>1
  <2>2. Amend(s, e) = [s EXCEPT !.entries = b]
    BY DEF Amend
  <2> HIDE DEF b
  <2>3. QED
    BY <2>1, <2>2
<1> HIDE DEF a, b
<1>10. 1 \in DOMAIN s.entries /\ \A i \in 1..s.at : i \in DOMAIN s.entries
  BY <1>1, <1>2
<1>11. QED
  BY <1>1, <1>2, <1>3, <1>5, <1>6, <1>7, <1>8, <1>9, <1>10

\* The application starts in Safari: without a table it writes the first entry.
LEMMA SafariStart ==
  ASSUME AddressTypes, TableFollows, SetDefaultURL,
         kind = "safari3", ~session'.untold
  PROVE  TableFollows'
<1>1. /\ app = None /\ app' = GetHash
      /\ GetHash \in Fragment /\ GetHash # None /\ HashOf(GetHash) = GetHash
      /\ UNCHANGED <<kind, remembered, phase, blind>>
      /\ StartSafari
  BY HashTyped, HistoryAssumption
     DEF SetDefaultURL, IE, Safari, AddressTypes, GetHash, HashOf
<1>2. session \in Session
  BY DEF AddressTypes
<1>3. /\ session.at \in DOMAIN session.entries /\ 1 \in DOMAIN session.entries
      /\ session.entries \in Seq(Entries)
  BY <1>2, Visited DEF Session
<1>4. currentHistoryLength' = session.at
  BY <1>1 DEF StartSafari, HistoryLength
<1>5. CASE historyHash = <<>>
  <2> DEFINE e == [Current(session) EXCEPT !.url = GetHash]
             s == Amend(session, e)
             now == TableToCome /\ HashOf(Current(session).url) # GetHash
  <2>1. /\ session' = Untell(s, now)
        /\ historyHash' = Stored(<<>>, session.at, GetHash)
    BY <1>1, <1>5 DEF StartSafari, Replace, HistoryLength
  <2>2. e \in Entries /\ e.url = GetHash
    BY <1>1, <1>2, CurrentTyped, EntryTyped DEF Entries, Url
  <2> HIDE DEF e
  <2>3. /\ s \in Session /\ s.untold = session.untold
        /\ s.at = session.at
        /\ DOMAIN s.entries = DOMAIN session.entries
        /\ Len(s.entries) = Len(session.entries)
        /\ s.entries[session.at] = e
        /\ \A i \in DOMAIN session.entries : i # session.at => s.entries[i] = session.entries[i]
    BY <1>2, <2>2, Visited, AmendTyped
  <2>4. now \in BOOLEAN
    BY DEF TableToCome
  <2> HIDE DEF s
  <2>5. /\ session'.entries = s.entries /\ session'.at = session.at
        /\ session'.untold = (session.untold \/ now)
    BY <2>1, <2>3, <2>4, UntellTyped
  <2>6. Current(session').url = GetHash
    BY <2>2, <2>3, <2>5 DEF Current
  <2>7. ~session.untold /\ ~now
    BY <2>5
  <2>8. CASE remembered = <<>>
    <3>1. DOMAIN session.entries = {1} /\ session.at = 1
      <4>1. Len(session.entries) = 1
        BY <1>1, <2>7, <2>8 DEF TableFollows
      <4>2. DOMAIN session.entries = 1..1
        BY <1>3, <4>1
      <4>3. QED
        BY <1>3, <4>2
    <3>2. historyHash' \in Seq(Fragment) /\ 1 \in DOMAIN historyHash' /\ historyHash'[1] = GetHash
      <4>0. <<>> \in Seq(Fragment)
        OBVIOUS
      <4>1. PICK t \in Seq(Fragment) : t = <<>>
        BY <4>0, Zenon
      <4>2. 1 \in 1..(Len(t) + 1)
        BY <4>1
      <4>3. historyHash' = Stored(t, 1, GetHash)
        BY <2>1, <3>1, <4>1
      <4>4. QED
        BY <1>1, <4>2, <4>3, Recorded
    <3>3. (Tells(historyHash))'
      BY <1>1, <2>2, <2>3, <2>5, <3>1, <3>2 DEF Tells
    <3>4. QED
      BY <1>1, <2>6, <2>8, <3>3 DEF TableFollows
  <2>9. CASE remembered # <<>>
    <3>1. Tells(remembered) /\ TableToCome
      BY <1>1, <1>5, <2>7, <2>9 DEF TableFollows, TableToCome, AddressTypes
    <3>2. HashOf(Current(session).url) = GetHash
      BY <2>7, <3>1
    <3>3. (Tells(remembered))'
      <4>1. \A i \in DOMAIN session.entries :
              HashOf(session'.entries[i].url) = HashOf(session.entries[i].url)
        BY <1>1, <2>2, <2>3, <2>5, <3>2 DEF Current
      <4>2. DOMAIN session'.entries = DOMAIN session.entries
        BY <2>3, <2>5
      <4>3. QED
        BY <1>1, <3>1, <4>1, <4>2 DEF Tells
    <3>4. TableToCome'
      BY <1>1, <3>1 DEF TableToCome
    <3>5. QED
      BY <1>1, <1>4, <2>5, <2>6, <3>3, <3>4 DEF TableFollows
  <2>10. QED
    BY <2>8, <2>9
<1>6. CASE historyHash # <<>>
  <2>1. UNCHANGED <<historyHash, session>>
    BY <1>1, <1>6 DEF StartSafari
  <2>2. Tells(remembered) /\ historyHash = remembered /\ (~blind => href = Current(session).url)
    BY <1>1, <1>6, <2>1 DEF TableFollows
  <2>3. (Tells(remembered))' /\ (Tells(historyHash))'
    BY <1>1, <2>1, <2>2 DEF Tells
  <2>4. ~blind => app' = HashOf(Current(session).url)
    BY <1>1, <2>2 DEF GetHash
  <2>5. QED
    BY <1>1, <2>1, <2>3, <2>4 DEF TableFollows
<1>7. QED
  BY <1>5, <1>6

\* The application moves in Safari: the table is told of the new entry.
LEMMA SafariMove ==
  ASSUME AddressTypes, TableFollows, NEW f \in Fragment, Move(f),
         kind = "safari3", ~session'.untold
  PROVE  TableFollows'
<1>1. /\ app # None /\ app' = f /\ f # None /\ HashOf(f) = f
      /\ UNCHANGED <<kind, phase>>
      /\ Says(href, f) => blind'
      /\ ~blind' => ~blind
  BY HistoryAssumption DEF Move, HashOf
<1>2. session \in Session
  BY DEF AddressTypes
<1>3. PICK s : /\ SetBrowserURL(s, loading, f)
               /\ s \in Session /\ s.at = session.at /\ s.entries = session.entries
               /\ s.untold = (session.untold \/ TableToCome)
  <2>1. TableToCome \in BOOLEAN
    BY DEF TableToCome
  <2>2. PICK s : s = Untell(session, TableToCome)
    OBVIOUS
  <2>3. /\ s \in Session /\ s.at = session.at /\ s.entries = session.entries
        /\ s.untold = (session.untold \/ TableToCome)
    BY <1>2, <2>1, <2>2, UntellTyped
  <2>4. SetBrowserURL(s, loading, f)
    BY <2>2 DEF Move
  <2>5. QED
    BY <2>3, <2>4
<1>4. CASE Says(href, f)
  <2>1. /\ session' = s /\ blind'
        /\ UNCHANGED <<historyHash, remembered>>
    BY <1>1, <1>3, <1>4 DEF SetBrowserURL
  <2>2. /\ ~TableToCome /\ Tells(historyHash)
        /\ remembered = <<>> \/ Tells(remembered)
    BY <1>1, <1>3, <2>1 DEF TableFollows
  <2>3. (Tells(historyHash))' /\ (Tells(remembered) => (Tells(remembered))')
    BY <1>3, <2>1, <2>2 DEF Tells
  <2>4. QED
    BY <1>1, <2>1, <2>2, <2>3 DEF TableFollows
<1>5. CASE ~Says(href, f)
  <2> DEFINE e == [Current(s) EXCEPT !.url = f]
             n == session.at + 1
  <2>1. AddEntry(s, f)
    BY <1>3, <1>5 DEF SetBrowserURL, IE
  <2>2. session' = Visit(s, e)
    <3>1. href # f
      BY <1>5 DEF Says
    <3>2. QED
      BY <2>1, <3>1 DEF AddEntry, SetHash
  <2>3. e.url = f
    BY <1>3, CurrentTyped DEF Entries
  <2> HIDE DEF e
  <2>4. /\ session.at \in Nat /\ session.at \in DOMAIN session.entries
        /\ session'.at = session.at + 1 /\ session'.untold = s.untold
        /\ DOMAIN session'.entries = 1..(session.at + 1)
        /\ session'.entries[session.at + 1] = e
        /\ \A i \in 1..session.at : /\ i \in DOMAIN session.entries
                                    /\ session'.entries[i] = session.entries[i]
    BY <1>3, <2>2, Visited
  <2>5. ~TableToCome /\ Tells(historyHash)
    BY <1>1, <1>3, <2>4 DEF TableFollows
  <2>6. historyHash \in Seq(Fragment) /\ n \in 1..(Len(historyHash) + 1)
    <3>1. historyHash \in Seq(Fragment) /\ session.at \in DOMAIN historyHash
      BY <2>4, <2>5 DEF Tells
    <3>2. QED
      BY <2>4, <3>1
  <2>7. /\ historyHash' = Stored(historyHash, n, f)
        /\ remembered' = IF phase = "ready" THEN Joined(historyHash') ELSE remembered
    <3>1. ByHand
      BY DEF ByHand, Safari, BrowserHasHashChange
    <3>2. QED
      BY <2>1, <2>4, <3>1 DEF AddEntry, Record, HistoryLength
  <2>8. /\ historyHash' \in Seq(Fragment) /\ historyHash' # <<>>
        /\ n \in DOMAIN historyHash' /\ historyHash'[n] = f
        /\ \A i \in DOMAIN historyHash : /\ i \in DOMAIN historyHash'
                                         /\ i # n => historyHash'[i] = historyHash[i]
    BY <2>6, <2>7, Recorded
  <2>9. \A i \in DOMAIN session'.entries :
          i \in DOMAIN historyHash' /\ historyHash'[i] = HashOf(session'.entries[i].url)
    <3>1. ASSUME NEW i \in DOMAIN session'.entries
          PROVE  i \in DOMAIN historyHash' /\ historyHash'[i] = HashOf(session'.entries[i].url)
      <4>1. i \in 1..session.at \/ i = n
        BY <2>4
      <4>2. CASE i = n
        BY <1>1, <2>3, <2>4, <2>8, <4>2
      <4>3. CASE i \in 1..session.at
        <5>1. /\ i # n /\ i \in DOMAIN session.entries
              /\ session'.entries[i] = session.entries[i]
          BY <2>4, <4>3
        <5>2. i \in DOMAIN historyHash /\ historyHash[i] = HashOf(session.entries[i].url)
          BY <2>5, <5>1 DEF Tells
        <5>3. QED
          BY <2>8, <5>1, <5>2
      <4>4. QED
        BY <4>1, <4>2, <4>3
    <3>2. QED
      BY <3>1
  <2>10. (Tells(historyHash))'
    BY <2>8, <2>9 DEF Tells
  <2>11. remembered' = <<>> \/ (Tells(remembered))'
    <3>1. CASE phase = "ready"
      <4>1. remembered' = historyHash'
        BY <2>7, <2>8, <3>1, JoinedWhole
      <4>2. QED
        BY <2>10, <4>1 DEF Tells
    <3>2. CASE phase # "ready"
      BY <2>5, <2>7, <3>2 DEF TableToCome, AddressTypes
    <3>3. QED
      BY <3>1, <3>2
  <2>12. app' = HashOf(Current(session').url)
    BY <1>1, <2>3, <2>4 DEF Current
  <2>13. QED
    BY <1>1, <2>10, <2>11, <2>12 DEF TableFollows
<1>6. QED
  BY <1>4, <1>5

\* The poll of Safari looks up where the session is.
LEMMA SafariPoll ==
  ASSUME AddressTypes, Standing, TableFollows, CheckSafari, kind = "safari3"
  PROVE  TableFollows'
<1> SUFFICES ASSUME ~session'.untold
             PROVE  TableFollows'
  BY DEF TableFollows
<1>1. /\ app # None /\ app' = LookUp(session.at)
      /\ session.at # currentHistoryLength
      /\ currentHistoryLength' = session.at
      /\ remembered' = IF phase = "ready" THEN Joined(historyHash) ELSE remembered
      /\ UNCHANGED <<kind, session, phase, historyHash, blind>>
  BY DEF CheckSafari, SeenByLength, Tell, HistoryLength, Standing, StartSound
<1>2. session.at \in DOMAIN session.entries
  BY Visited DEF AddressTypes
<1>3. app' # None
  BY <1>1, HistoryAssumption DEF LookUp, AddressTypes, Table
<1>4. /\ remembered = <<>> \/ Tells(remembered)
      /\ Tells(historyHash) \/ (TableToCome /\ blind)
  BY <1>1 DEF TableFollows
<1>5. CASE Tells(historyHash)
  <2>1. /\ historyHash \in Seq(Fragment) /\ historyHash # <<>>
        /\ session.at \in DOMAIN historyHash
        /\ historyHash[session.at] = HashOf(session.entries[session.at].url)
    BY <1>2, <1>5 DEF Tells
  <2>2. app' = HashOf(Current(session).url)
    BY <1>1, <2>1 DEF LookUp, Current
  <2>3. Joined(historyHash) = historyHash
    BY <2>1, JoinedWhole
  <2>4. remembered' = <<>> \/ (Tells(remembered))'
    BY <1>1, <1>4, <1>5, <2>3 DEF Tells
  <2>5. (Tells(historyHash))'
    BY <1>1, <1>5 DEF Tells
  <2>6. QED
    BY <1>1, <1>3, <2>2, <2>4, <2>5 DEF TableFollows
<1>6. CASE TableToCome /\ blind
  <2>1. remembered' = remembered /\ TableToCome'
    BY <1>1, <1>6 DEF TableToCome
  <2>2. remembered' = <<>> \/ (Tells(remembered))'
    BY <1>1, <1>4, <2>1 DEF Tells
  <2>3. QED
    BY <1>1, <1>3, <1>6, <2>1, <2>2 DEF TableFollows
<1>7. QED
  BY <1>4, <1>5, <1>6

\* Every step keeps the table of Safari true.
LEMMA TableStep ==
  ASSUME AddressTypes, Standing, EventFollows, TableFollows, [Next]_vars
  PROVE  TableFollows'
<1> SUFFICES ASSUME kind' = "safari3", ~session'.untold
             PROVE  TableFollows'
  BY DEF TableFollows
<1>0. /\ kind = "safari3" /\ ~event
      /\ frame = None /\ loading = None /\ retry = None
  <2>1. UNCHANGED kind
    BY DEF Next, SetDefaultURL, Move, Type, Go, UserMove, Reload, Restart, Proceed, Initialize,
           AppendFrame, RetryDefault, HashChangeHandler, FrameLoad, CheckForUrlChange,
           CheckReload, CheckFrame, CheckSafari, CheckFirefox, vars, browserVars
  <2>2. QED
    BY <2>1 DEF IE, Standing, FrameOfIE, EventFollows, BrowserHasHashChange
<1>1. ASSUME NEW f \in Fragment, Type(f)
      PROVE  FALSE
  <2> DEFINE s == Visit(session, Entry(f, Current(session).frame))
  <2>1. session' = Untell(s, kind = "safari3") /\ s \in Session
    <3>1. Entry(f, Current(session).frame) \in Entries
      BY CurrentTyped, EntryTyped DEF Entry, Entries, Url, AddressTypes
    <3>2. QED
      BY <1>1, <3>1, VisitTyped DEF Type, AddressTypes
  <2> HIDE DEF s
  <2>2. session'.untold
    BY <1>0, <2>1, UntellTyped
  <2>3. QED
    BY <2>2
<1>2. ASSUME NEW i \in DOMAIN session.entries, Go(i)
      PROVE  TableFollows'
  <2>1. /\ UNCHANGED <<kind, app, phase, historyHash, remembered, currentHistoryLength>>
        /\ session'.entries = session.entries /\ session'.untold = session.untold
        /\ session'.at = i
        /\ app = None => blind'
        /\ blind \/ Unwatched => blind'
        /\ Overlooked(session.entries[i].url)
             => app \in {None, HashOf(session.entries[i].url)} \/ blind'
    BY <1>0, <1>2 DEF Go, UserMove, pageVars, AddressTypes, Session
  <2>2. \A t : Tells(t) <=> (Tells(t))'
    BY <2>1 DEF Tells
  <2>3. TableToCome <=> TableToCome'
    BY <2>1 DEF TableToCome
  <2>4. app # None /\ TableToCome => blind'
    BY <2>1 DEF Unwatched, TableToCome
  <2>5. app # None /\ ~blind' /\ i = currentHistoryLength
          => app = HashOf(session.entries[i].url)
    BY <1>0, <2>1 DEF Overlooked, HistoryLength
  <2>6. Current(session') = session.entries[i]
    BY <2>1 DEF Current
  <2>7. QED
    BY <2>1, <2>2, <2>3, <2>4, <2>5, <2>6 DEF TableFollows
<1>3. CASE Reload \/ CheckReload
  <2> DEFINE now == kind = "safari3" /\ remembered = <<>> /\ Len(session.entries) > 1
  <2>1. /\ UNCHANGED <<kind, remembered>> /\ session' = Untell(session, now)
        /\ app' = None /\ phase' = "loading" /\ historyHash' = <<>>
        /\ href' = Current(session).url
    BY <1>3 DEF Reload, CheckReload, Restart
  <2>2. /\ session'.at = session.at /\ session'.entries = session.entries
        /\ session'.untold = (session.untold \/ now)
    BY <2>1, UntellTyped DEF AddressTypes
  <2>3. remembered = <<>> => Len(session.entries) = 1
    <3>1. PICK k : k = Len(session.entries)
      OBVIOUS
    <3>2. session.at \in 1..k /\ k \in Nat
      BY <3>1 DEF AddressTypes, Session
    <3>3. remembered = <<>> => ~(k > 1)
      BY <1>0, <2>2, <3>1
    <3>4. k >= 1
      BY <3>2
    <3>5. remembered = <<>> => k = 1
      BY <3>2, <3>3, <3>4
    <3>6. QED
      BY <3>1, <3>5
  <2>4. remembered = <<>> \/ Tells(remembered)
    BY <1>0, <2>2 DEF TableFollows
  <2>5. Tells(remembered) <=> (Tells(remembered))'
    BY <2>1, <2>2 DEF Tells
  <2>6. href' = Current(session').url
    BY <2>1, <2>2 DEF Current
  <2>7. QED
    BY <2>1, <2>2, <2>3, <2>4, <2>5, <2>6 DEF TableFollows
<1>4. CASE Initialize
  <2>1. /\ UNCHANGED <<kind, session, remembered, href, app, blind, currentHistoryLength>>
        /\ phase = "loading" /\ phase' = "ready"
        /\ historyHash' = IF remembered # <<>> THEN remembered ELSE historyHash
    BY <1>0, <1>4 DEF Initialize
  <2>2. /\ Tells(remembered) <=> (Tells(remembered))'
        /\ Tells(historyHash) /\ remembered = <<>> => (Tells(historyHash))'
        /\ Tells(remembered) /\ remembered # <<>> => (Tells(historyHash))'
    BY <2>1 DEF Tells
  <2>3. TableToCome => remembered # <<>>
    BY DEF TableToCome
  <2>4. QED
    BY <1>0, <2>1, <2>2, <2>3 DEF TableFollows, Current
<1>5. CASE UNCHANGED vars
  <2>1. UNCHANGED <<kind, session, remembered, href, app, blind, historyHash, phase,
                    currentHistoryLength>>
    BY <1>5 DEF vars, pageVars, browserVars
  <2>2. /\ Tells(remembered) <=> (Tells(remembered))'
        /\ Tells(historyHash) <=> (Tells(historyHash))'
        /\ TableToCome <=> TableToCome'
    BY <2>1 DEF Tells, TableToCome
  <2>3. QED
    BY <2>1, <2>2 DEF TableFollows, Current
<1>6. CASE \/ AppendFrame \/ RetryDefault \/ HashChangeHandler \/ FrameLoad
           \/ CheckFrame \/ CheckFirefox
  BY <1>0, <1>6 DEF AppendFrame, IE, RetryDefault, HashChangeHandler, FrameLoad,
                    CheckFrame, SeenByFrame, CheckFirefox, SeenByHref
<1>7. QED
  BY <1>0, <1>1, <1>2, <1>3, <1>4, <1>5, <1>6, SafariStart, SafariMove, SafariPoll
     DEF Next, Proceed, CheckForUrlChange

\* The invariant behind InSync, one part for each kind of browser.
Following == EventFollows /\ PollFollows /\ FrameFollows /\ TableFollows

\* At rest, every browser has the application where the address is.
LEMMA FollowingInSync ==
  ASSUME AddressTypes, Standing, Following
  PROVE  InSync
<1> SUFFICES ASSUME Settled, ~blind, ~session.untold
             PROVE  app = Shown
  BY DEF InSync
<1>0. /\ app # None /\ ~event /\ loading = None
      /\ ~SeenByReload /\ ~SeenByFrame /\ ~SeenByLength /\ ~SeenByHref
  BY DEF Settled
<1>1. CASE kind \in {"hash", "webkit", "ie8"}
  BY <1>0, <1>1 DEF Following, EventFollows, Shown, GetHash
<1>2. CASE kind = "firefox"
  BY <1>0, <1>2 DEF Following, PollFollows, SeenByHref, Shown, GetHash, Standing, StartSound
<1>3. CASE IE /\ polls
  <2>1. GetHash \in Remembered
    <3>1. CASE ~AddressLeft
      <4>1. href = currentHref \/ (currentHref = Bare /\ href = Empty) \/ currentHref = href
        BY <1>0, <1>3, <3>1 DEF AddressLeft, Says
      <4>2. HashOf(Bare) = Empty /\ HashOf(Empty) = Empty
        BY HistoryAssumption DEF HashOf
      <4>3. QED
        BY <4>1, <4>2 DEF Remembered, GetHash
    <3>2. CASE AddressLeft
      BY <1>0, <1>3, <3>2 DEF IE, SeenByReload, SeenByFrame, Remembered
    <3>3. QED
      BY <3>1, <3>2
  <2>2. QED
    BY <1>0, <1>3, <2>1 DEF Following, FrameFollows, Shown, GetHash, IE
<1>4. CASE IE /\ ~polls
  <2>1. firstload
    BY <1>0, <1>4 DEF Standing, StartSound
  <2>2. QED
    BY <1>0, <1>4, <2>1 DEF Following, FrameFollows, Shown, GetHash, IE
<1>5. CASE kind = "safari3"
  BY <1>0, <1>5 DEF Following, TableFollows, SeenByLength, ByHand, Safari, BrowserHasHashChange,
                    HistoryLength, Shown, Standing, StartSound
<1>6. QED
  BY <1>1, <1>2, <1>3, <1>4, <1>5 DEF AddressTypes, Kinds, IE

\* When everything has been noticed, the application and the address bar are at
\* the same place, whatever came late, twice or out of order, and however early
\* the application started, except after a move in a blind spot.
THEOREM InSyncCorrect == Spec => []InSync
<1>1. Init => Following
  <2> SUFFICES ASSUME Init, NEW url \in Opened, InitWith(url)
               PROVE  Following
    BY DEF Init
  <2>1. app = None /\ ~event /\ phase = "loading" /\ remembered = <<>> /\ historyHash = <<>>
    BY DEF Init, InitWith
  <2>2. Len(session.entries) = 1 /\ href = Current(session).url
    BY DEF InitWith, Current, Entry
  <2>3. QED
    BY <2>1, <2>2 DEF Following, EventFollows, PollFollows, FrameFollows, TableFollows
<1>2. AddressTypes /\ Standing /\ Following /\ [Next]_vars => Following'
  BY EventStep, PollStep, FrameStep, TableStep DEF Following
<1>3. AddressTypes /\ Standing /\ Following => InSync
  BY FollowingInSync
<1>4. QED
  BY <1>1, <1>2, <1>3, StandingCorrect, PTL DEF Spec
=============================================================================
