---------------------------- MODULE CandidatePanel ----------------------------
(***************************************************************************)
(* What the candidate window promises the text service and the user: the   *)
(* user may for a while see another list or an empty box, but a list that  *)
(* stays wanted is in the end the one on the screen; a hidden panel shows  *)
(* nothing until the next list or the next change of the display; the      *)
(* element that tells the application of the list ends whenever the list   *)
(* is given up; and a pick is a row of the wanted list.  How the list gets *)
(* on the screen, by painting or through a web page, is the business of    *)
(* CandidateView.                                                          *)
(***************************************************************************)
EXTENDS Naturals

CONSTANTS
    Lists,    \* candidate lists
    Size,     \* the rows of each list, one or more
    Nothing,  \* no list
    NoPick    \* no row: not a number

VARIABLES
    able,     \* nothing on this computer will cover the panel for good
    want,     \* the list the text service asked for last
    panel,    \* there is none, or it is hidden or open
    seen,     \* what the user sees in it
    listed,   \* a UI element tells the application that there is a list
    pick      \* a row picked that the text service has not served yet

vars == <<able, want, panel, seen, listed, pick>>

(* A list with its marked row. *)
Contents == UNION {[list: {l}, mark: 0..(Size[l] - 1)] : l \in Lists}

Init ==
    /\ able \in BOOLEAN
    /\ want = Nothing
    /\ panel = "none"
    /\ seen = Nothing
    /\ listed = FALSE
    /\ pick = NoPick

(* An open panel shows some list, or an empty box. *)
Paints ==
    seen' \in IF panel' = "open" THEN Contents \cup {Nothing} ELSE {Nothing}

(* Only a panel that is not there yet can fail to open. *)
Show(c) ==
    /\ want' = c
    /\ panel' \in {"open"} \cup ({panel} \cap {"none"})
    /\ listed' \in {listed, TRUE}
    /\ Paints
    /\ UNCHANGED pick

(* The text service gives the list up.  It may drop a pick with it.        *)
Hide ==
    /\ want' = Nothing
    /\ panel' = IF panel = "open" THEN "hidden" ELSE panel
    /\ listed' = FALSE
    /\ pick' \in {pick, NoPick}
    /\ Paints

(* The window goes; the text service is not told, and the list stays       *)
(* wanted and listed.                                                      *)
WindowGoes ==
    /\ panel' = "none"
    /\ Paints
    /\ UNCHANGED <<want, listed, pick>>

Repaint ==
    /\ panel = "open"
    /\ Paints
    /\ UNCHANGED <<want, panel, listed, pick>>

(* The text service does not ask for it, and after a Hide it may bring an  *)
(* old list back: see README.                                              *)
DisplayChanges ==
    /\ panel # "none"
    /\ panel' = "open"
    /\ Paints
    /\ UNCHANGED <<want, listed, pick>>

Pick(i) ==
    /\ panel = "open"
    /\ want # Nothing
    /\ i < Size[want.list]
    /\ pick' = i
    /\ UNCHANGED <<want, panel, seen, listed>>

Serve ==
    /\ pick' = NoPick
    /\ UNCHANGED <<want, panel, seen, listed>>

Next ==
    /\ UNCHANGED able
    /\ \/ \E c \in Contents : Show(c)
       \/ Hide
       \/ WindowGoes
       \/ Repaint
       \/ DisplayChanges
       \/ \E c \in Contents : \E i \in 0..(Size[c.list] - 1) : Pick(i)
       \/ Serve

(* A list that stays wanted in an open panel is seen in the end, and stays, *)
(* unless something else covers the panel.                                  *)
Settles ==
    \A c \in Contents :
        able /\ <>[](want = c /\ panel = "open") => <>[](seen = c)

Spec == Init /\ [][Next]_vars /\ Settles

===============================================================================
