---------------------------- MODULE MCSwfobject ----------------------------
(* A small instance of Swfobject: one object element and two divs; a player *)
(* too old for the installer, one too old for the movie, and a recent one   *)
(* whose release is lower than the required one; pages with all elements,   *)
(* or with one missing, and with several requests for the installer.        *)
EXTENDS Swfobject, TLC

CONSTANTS s, d1, d2

MCVersion  == {<<5, 0, 30>>, <<8, 0, 24>>, <<10, 0, 2>>}
MCRequired == <<9, 0, 124>>

Explorer == [ie |-> TRUE, wk |-> FALSE, plugin |-> FALSE, xiPlatform |-> TRUE]
Safari   == [ie |-> FALSE, wk |-> TRUE, plugin |-> TRUE, xiPlatform |-> TRUE]
Bare     == [ie |-> FALSE, wk |-> FALSE, plugin |-> FALSE, xiPlatform |-> FALSE]
MCBrowsers == {Explorer, Safari, Bare}

MCLayouts ==
  { [present |-> {s, d1, d2}, withXi |-> {s, d1, d2}],
    [present |-> {d1, d2}, withXi |-> {s, d1}],
    [present |-> {s, d2}, withXi |-> {s, d1}] }
=============================================================================
