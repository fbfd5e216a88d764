--------------------------- MODULE InteractionInv ---------------------------
(***************************************************************************)
(* The inductive invariant of Interaction from which OpenedWasMet follows. *)
(* InteractionProofs proves it.                                            *)
(***************************************************************************)
EXTENDS Interaction

\* It was added to waitingMap.
Was(r) == stage[r] \notin {"new", "asked"}

\* A page that answers pings for a window can show what waits there.
AnsweringMeets == \A r \in Waiting : Answers(WindowOf[r]) => r \in met

\* A ping of a window is for requests of that window, that waited in it.
AskedInWindow ==
    \A l \in Loops : \A r \in panelLoop[l].asked :
        panelLoop[l].at = "pinged" /\ WindowOf[r] = panelLoop[l].window /\ Was(r)

OpenedWaited == \A r \in opened : Was(r)

OpenedInv ==
    /\ AnsweringMeets
    /\ AskedInWindow
    /\ OpenedWaited
    /\ OpenedWasMet
=============================================================================
