------------------------- MODULE InteractionProofs -------------------------
(***************************************************************************)
(* For any number of requests, windows, tabs and loops: the types of       *)
(* Interaction, that a loop of pings watches whatever waits while the side *)
(* panel is enabled, and that the first answer to a request is final.      *)
(***************************************************************************)
EXTENDS InteractionInv, TLAPS

\* What the assumption on the constants says, and that Waiting is of requests.
LEMMA Kinds ==
    /\ Internal \subseteq Requests
    /\ TabOf \in [Requests -> Tabs] /\ WindowOf \in [Requests -> Windows]
    /\ Popup \in Pages /\ Windows \subseteq Pages /\ None \notin Pages
    /\ MaxOpens \in Nat /\ MaxSwitches \in Nat
    /\ Waiting \subseteq Requests
BY RequestsAssumption DEF Pages, Waiting

\* A rejection turns waiting requests into refused ones and touches no other.
LEMMA RefuseTypes ==
    ASSUME TypeOK, NEW requests, Refuse(requests)
    PROVE  /\ stage' \in [Requests -> Stages]
           /\ opened' \subseteq Requests
           /\ \A r \in Requests : stage'[r] = IF r \in requests /\ stage[r] = "waiting"
                                              THEN "refused" ELSE stage[r]
           /\ Waiting' = Waiting \ requests
<1>1. stage \in [Requests -> Stages] /\ opened \subseteq Requests
  BY DEF TypeOK
<1>2. /\ stage' = [r \in Requests |-> IF r \in requests \cap Waiting THEN "refused" ELSE stage[r]]
      /\ opened' = opened \ requests
  BY DEF Refuse
<1>3. \A r \in Requests : stage'[r] = IF r \in requests /\ stage[r] = "waiting"
                                      THEN "refused" ELSE stage[r]
  BY <1>2 DEF Waiting
<1>4. stage' \in [Requests -> Stages]
  BY <1>1, <1>2 DEF Stages
<1>5. Waiting' = Waiting \ requests
  BY <1>3 DEF Waiting
<1> QED BY <1>1, <1>2, <1>3, <1>4, <1>5

\* What a page forgets leaves the kinds of its data as they are.
LEMMA ReturnedTypes ==
    ASSUME TypeOK, NEW pages, NEW r, Returned(pages, r)
    PROVE  /\ data' \in [Pages -> SUBSET Requests]
           /\ obsolete' \in [Pages -> SUBSET Requests]
BY DEF TypeOK, Returned

\* A loop goes on with windows and requests, or ends when nothing waits.
LEMMA NextWindowTypes ==
    ASSUME TypeOK, NEW l \in Loops, NEW loop \in PanelLoops,
           NEW todo \in SUBSET Windows, NEW waiting \in SUBSET Requests,
           NextWindow(l, loop, todo, waiting)
    PROVE  /\ panelLoop' \in [Loops -> PanelLoops]
           /\ waiting # {} => panelLoop'[l].at # "off"
<1>1. panelLoop \in [Loops -> PanelLoops]
  BY DEF TypeOK
<1>2. CASE todo # {}
  <2>1. PICK w \in todo : panelLoop' = [panelLoop EXCEPT ![l] =
             [loop EXCEPT !.at = "pinged", !.todo = todo \ {w}, !.window = w,
                          !.asked = {r \in waiting : WindowOf[r] = w}]]
    BY <1>2, Zenon DEF NextWindow
  <2> DEFINE asked == {r \in waiting : WindowOf[r] = w}
             next == [loop EXCEPT !.at = "pinged", !.todo = todo \ {w}, !.window = w,
                                  !.asked = asked]
  <2>2. asked \in SUBSET Requests /\ todo \ {w} \in SUBSET Windows /\ w \in Windows
    OBVIOUS
  <2>3. next \in PanelLoops /\ next.at = "pinged"
    <3> HIDE DEF asked
    <3> QED BY <2>2 DEF PanelLoops
  <2>4. panelLoop' = [panelLoop EXCEPT ![l] = next]
    BY <2>1
  <2> HIDE DEF next
  <2> QED BY <1>1, <2>3, <2>4
<1>3. CASE todo = {}
  <2> DEFINE next == IF waiting = {} THEN NoLoop
                     ELSE [NoLoop EXCEPT !.at = "asleep", !.succeeded = loop.succeeded]
  <2>1. panelLoop' = [panelLoop EXCEPT ![l] = next]
    BY <1>3 DEF NextWindow
  <2>2. next \in PanelLoops /\ (waiting # {} => next.at = "asleep")
    BY DEF PanelLoops, NoLoop
  <2> HIDE DEF next
  <2> QED BY <1>1, <2>1, <2>2
<1> QED BY <1>2, <1>3
\* The loop that was pinging has a window, and what it asked for is a request.
LEMMA PingedTypes ==
    ASSUME TypeOK, NEW l \in Loops
    PROVE  /\ panelLoop[l] \in PanelLoops
           /\ panelLoop[l].asked \in SUBSET Requests
           /\ panelLoop[l].todo \in SUBSET Windows
           /\ panelLoop[l].succeeded \in SUBSET Windows
           /\ panelLoop[l].at = "pinged" =>
                /\ panelLoop[l].window \in Windows
                /\ [panelLoop[l] EXCEPT !.succeeded = @ \cup {panelLoop[l].window}] \in PanelLoops
<1> DEFINE loop == panelLoop[l]
<1>1. loop \in PanelLoops
  BY DEF TypeOK
<1> HIDE DEF loop
<1>2. /\ loop.asked \in SUBSET Requests /\ loop.todo \in SUBSET Windows
      /\ loop.succeeded \in SUBSET Windows
      /\ loop.at = "pinged" => loop.window \in Windows
  BY <1>1 DEF PanelLoops
<1>3. loop.at = "pinged" => [loop EXCEPT !.succeeded = @ \cup {loop.window}] \in PanelLoops
  BY <1>1, <1>2 DEF PanelLoops
<1> QED BY <1>1, <1>2, <1>3 DEF loop

\* A request is made with the messages and the loops that it starts.
LEMMA AddTypes ==
    ASSUME TypeOK, NEW r \in Requests, Add(r)
    PROVE  TypeOK'
<1>1. stage' \in [Requests -> Stages] /\ met' \subseteq Requests
  BY DEF Add, TypeOK, Stages
<1>2. /\ panelLoop' \in [Loops -> PanelLoops]
      /\ idLoop' \in [Requests -> [on : BOOLEAN, succeeded : BOOLEAN]]
  <2>1. [NoLoop EXCEPT !.at = "asleep"] \in PanelLoops
    BY DEF NoLoop, PanelLoops
  <2>2. panelLoop' = panelLoop
        \/ \E l \in Loops : panelLoop' = [panelLoop EXCEPT ![l] = [NoLoop EXCEPT !.at = "asleep"]]
    BY DEF Add, StartPings, loopVars
  <2>3. panelLoop' \in [Loops -> PanelLoops]
    <3> DEFINE started == [NoLoop EXCEPT !.at = "asleep"]
    <3>1. started \in PanelLoops /\ panelLoop \in [Loops -> PanelLoops]
      BY <2>1 DEF TypeOK
    <3>2. panelLoop' = panelLoop \/ \E l \in Loops : panelLoop' = [panelLoop EXCEPT ![l] = started]
      BY <2>2
    <3> HIDE DEF started
    <3> QED BY <3>1, <3>2
  <2>4. idLoop' = idLoop \/ idLoop' = [idLoop EXCEPT ![r].on = TRUE]
    BY DEF Add, StartPings, loopVars
  <2> QED BY <2>3, <2>4, Zenon DEF TypeOK
<1>3. pushed' \subseteq Pages /\ opening' \subseteq Requests
  BY DEF Add, Show, TypeOK
<1> QED BY <1>1, <1>2, <1>3 DEF Add, TypeOK

\* The loops end or go on with the kinds of things they had.
LEMMA LoopTypes ==
    ASSUME TypeOK, NEW l \in Loops, Wake(l) \/ PingFailed(l) \/ PingSucceeded(l)
    PROVE  TypeOK'
<1> DEFINE loop == panelLoop[l]
<1>1. /\ loop \in PanelLoops /\ loop.asked \in SUBSET Requests /\ loop.todo \in SUBSET Windows
      /\ Waiting \in SUBSET Requests /\ Waiting \ loop.asked \in SUBSET Requests
  BY PingedTypes, Kinds
<1>2. CASE Wake(l)
  <2> DEFINE todo == IF enabled THEN {WindowOf[r] : r \in Waiting} ELSE {}
  <2>1. todo \in SUBSET Windows
    BY Kinds
  <2>2. NextWindow(l, loop, todo, Waiting)
    BY <1>2 DEF Wake
  <2> HIDE DEF todo, loop
  <2>3. panelLoop' \in [Loops -> PanelLoops]
    BY <1>1, <2>1, <2>2, NextWindowTypes
  <2> QED BY <1>2, <2>3 DEF Wake, TypeOK, requestVars, popupVars, pageVars
<1>3. CASE PingFailed(l)
  <2>1. CASE loop.window \in loop.succeeded
    <3>1. Refuse(loop.asked) /\ NextWindow(l, loop, {}, Waiting \ loop.asked)
      BY <1>3, <2>1 DEF PingFailed
    <3>2. panelLoop' \in [Loops -> PanelLoops]
      <4> HIDE DEF loop
      <4> QED BY <1>1, <3>1, NextWindowTypes
    <3>3. stage' \in [Requests -> Stages] /\ opened' \subseteq Requests
      BY <3>1, RefuseTypes
    <3> QED BY <1>3, <3>2, <3>3 DEF PingFailed, TypeOK, popupVars, pageVars
  <2>2. CASE loop.window \notin loop.succeeded
    <3>1. NextWindow(l, loop, loop.todo, Waiting) /\ UNCHANGED <<stage, opened>>
      BY <1>3, <2>2 DEF PingFailed
    <3>2. panelLoop' \in [Loops -> PanelLoops]
      <4> HIDE DEF loop
      <4> QED BY <1>1, <3>1, NextWindowTypes
    <3> QED BY <1>3, <3>1, <3>2 DEF PingFailed, TypeOK, popupVars, pageVars
  <2> QED BY <2>1, <2>2
<1>4. CASE PingSucceeded(l)
  <2> DEFINE now == [loop EXCEPT !.succeeded = @ \cup {loop.window}]
  <2>1. now \in PanelLoops
    BY <1>4, PingedTypes DEF PingSucceeded
  <2>2. /\ NextWindow(l, now, loop.todo, Waiting)
        /\ opened' = IF loop.window \in loop.succeeded THEN opened ELSE opened \cup loop.asked
    BY <1>4 DEF PingSucceeded
  <2>3. panelLoop' \in [Loops -> PanelLoops]
    <3> HIDE DEF now, loop
    <3> QED BY <1>1, <2>1, <2>2, NextWindowTypes
  <2>4. opened' \subseteq Requests
    BY <1>1, <2>2 DEF TypeOK
  <2> QED BY <1>4, <2>3, <2>4 DEF PingSucceeded, TypeOK, popupVars, pageVars
<1> QED BY <1>2, <1>3, <1>4

\* Every variable holds a value of the kind that the code gives it, whatever
\* page, timer or message comes next.
THEOREM TypesHold == Spec => []TypeOK
<1>1. Init => TypeOK
  <2> SUFFICES ASSUME Init PROVE TypeOK
    OBVIOUS
  <2>1. NoLoop \in PanelLoops
    BY DEF NoLoop, PanelLoops
  <2>2. panelLoop \in [Loops -> PanelLoops]
    BY <2>1 DEF Init
  <2> QED BY <2>2, Kinds DEF Init, TypeOK, Stages
<1>2. TypeOK /\ [Next]_vars => TypeOK'
  <2> SUFFICES ASSUME TypeOK, [Next]_vars PROVE TypeOK'
    OBVIOUS
  <2>1. ASSUME NEW r \in Requests, Add(r) PROVE TypeOK'
    BY <2>1, AddTypes
  <2>2. ASSUME NEW r \in Requests, Return(r) PROVE TypeOK'
    <3>1. Returned(resolvers[r], r)
      BY <2>2 DEF Return
    <3>2. data' \in [Pages -> SUBSET Requests] /\ obsolete' \in [Pages -> SUBSET Requests]
      BY <3>1, ReturnedTypes
    <3> QED BY <2>2, <3>2 DEF Return, TypeOK, Stages, loopVars, popupVars
  <2>3. ASSUME NEW r \in Requests, OpenPopup(r) PROVE TypeOK'
    BY <2>3, Kinds DEF OpenPopup, TypeOK, requestVars, loopVars
  <2>4. CASE TabRemoved
    <3>1. Refuse(removed)
      BY <2>4 DEF TabRemoved
    <3>2. stage' \in [Requests -> Stages] /\ opened' \subseteq Requests
      BY <3>1, RefuseTypes
    <3> QED BY <2>4, <3>2 DEF TabRemoved, TypeOK, loopVars, pageVars
  <2>5. ASSUME NEW m \in sent, Approve(m) PROVE TypeOK'
    <3>1. m.request \in Requests /\ m.from \in Pages \cup {None}
      BY DEF TypeOK, Messages
    <3> QED BY <2>5, <3>1 DEF Approve, TypeOK, Stages, loopVars, popupVars, pageVars
  <2>6. ASSUME NEW m \in sent, Reject(m) PROVE TypeOK'
    <3>1. m.request \in Requests /\ m.from \in Pages \cup {None}
      BY DEF TypeOK, Messages
    <3>2. stage' \in [Requests -> Stages] /\ opened' \subseteq Requests
      <4>1. Refuse({m.request})
        BY <2>6 DEF Reject
      <4> QED BY <4>1, RefuseTypes
    <3>3. /\ data' \in [Pages -> SUBSET Requests] /\ obsolete' \in [Pages -> SUBSET Requests]
          /\ resolvers' \in [Requests -> SUBSET Pages]
      <4>1. CASE Returned({m.from}, m.request) /\ UNCHANGED resolvers
        BY <4>1, ReturnedTypes DEF TypeOK
      <4>2. CASE /\ resolvers' = [resolvers EXCEPT ![m.request] = @ \cup ({m.from} \ {None})]
                 /\ UNCHANGED <<data, obsolete>>
        BY <3>1, <4>2 DEF TypeOK
      <4> QED BY <2>6, <4>1, <4>2 DEF Reject
    <3> QED BY <2>6, <3>2, <3>3 DEF Reject, TypeOK, loopVars, popupVars
  <2>7. ASSUME NEW l \in Loops, Wake(l) \/ PingFailed(l) \/ PingSucceeded(l) PROVE TypeOK'
    BY <2>7, LoopTypes
  <2>8. ASSUME NEW r \in Requests, IdPing(r) PROVE TypeOK'
    <3> DEFINE succeeds == \E p \in open : r \in data[p]
               gone == idLoop[r].succeeded /\ ~succeeds
               next == [on |-> ~gone /\ r \in Waiting, succeeded |-> succeeds]
    <3>1. Refuse(IF gone THEN {r} ELSE {}) /\ idLoop' = [idLoop EXCEPT ![r] = next]
      BY <2>8, Zenon DEF IdPing
    <3>2. stage' \in [Requests -> Stages] /\ opened' \subseteq Requests
      BY <3>1, RefuseTypes
    <3>3. next \in [on : BOOLEAN, succeeded : BOOLEAN]
      OBVIOUS
    <3>4. idLoop' \in [Requests -> [on : BOOLEAN, succeeded : BOOLEAN]]
      <4> HIDE DEF next
      <4> QED BY <3>1, <3>3 DEF TypeOK
    <3> QED BY <2>8, <3>2, <3>4 DEF IdPing, TypeOK, popupVars, pageVars
  <2>9. ASSUME NEW p \in Pages, Fetch(p) PROVE TypeOK'
    <3> DEFINE next == [old |-> data[p], new |-> {r \in Waiting : Shows(p, r)}]
    <3>1. next \in [old : SUBSET Requests, new : SUBSET Requests]
      BY Kinds DEF TypeOK
    <3>2. refresh' = [refresh EXCEPT ![p] = next] /\ pushed' = pushed \ {p}
      BY <2>9 DEF Fetch
    <3>3. refresh' \in [Pages -> {None} \cup [old : SUBSET Requests, new : SUBSET Requests]]
      <4> HIDE DEF next
      <4> QED BY <3>1, <3>2 DEF TypeOK
    <3> QED BY <2>9, <3>2, <3>3 DEF Fetch, TypeOK, requestVars, loopVars, popupVars
  <2>10. ASSUME NEW p \in Pages, Refreshed(p) PROVE TypeOK'
    <3>1. refresh[p] \in [old : SUBSET Requests, new : SUBSET Requests]
      BY <2>10 DEF Refreshed, TypeOK
    <3> QED BY <2>10, <3>1 DEF Refreshed, TypeOK, requestVars, loopVars, popupVars
  <2>11. ASSUME NEW r \in Requests, Ask(r) PROVE TypeOK'
    BY <2>11 DEF Ask, TypeOK, Stages, loopVars, popupVars, pageVars
  <2>12. ASSUME NEW p \in Pages, OpenPage(p) PROVE TypeOK'
    BY <2>12, Kinds DEF OpenPage, TypeOK, requestVars, loopVars, popupVars
  <2>13. ASSUME NEW p \in Pages, ClosePage(p) PROVE TypeOK'
    <3>1. PICK last \in SUBSET (data[p] \ obsolete[p]) :
            sent' = {[m EXCEPT !.from = IF @ = p THEN None ELSE @] : m \in sent}
                    \cup {[from |-> None, request |-> r, act |-> "reject"] : r \in last}
      BY <2>13 DEF ClosePage
    <3>2. \A m \in sent : [m EXCEPT !.from = IF @ = p THEN None ELSE @] \in Messages
      BY DEF TypeOK, Messages
    <3>3. \A r \in last : [from |-> None, request |-> r, act |-> "reject"] \in Messages
      BY DEF TypeOK, Messages
    <3>4. sent' \subseteq Messages
      BY <3>1, <3>2, <3>3
    <3>5. /\ resolvers' \in [Requests -> SUBSET Pages]
          /\ data' \in [Pages -> SUBSET Requests] /\ obsolete' \in [Pages -> SUBSET Requests]
      BY <2>13 DEF ClosePage, TypeOK
    <3>6. onClose' \subseteq Requests /\ removed' \subseteq Requests
      BY <2>13 DEF ClosePage, TypeOK
    <3> QED BY <2>13, <3>4, <3>5, <3>6 DEF ClosePage, TypeOK, loopVars
  <2>14. ASSUME NEW p \in Pages, NEW r \in Requests, NEW act \in {"approveV2", "rejectV2"},
                Answer(p, r, act)
         PROVE  TypeOK'
    <3>1. [from |-> p, request |-> r, act |-> act] \in Messages
      BY DEF Messages
    <3>2. sent' \subseteq Messages
      BY <2>14, <3>1 DEF Answer, TypeOK
    <3> QED BY <2>14, <3>2 DEF Answer, TypeOK, requestVars, loopVars, popupVars
  <2>15. CASE SetIsEnabled
    <3>1. Refuse(Waiting)
      BY <2>15 DEF SetIsEnabled
    <3>2. stage' \in [Requests -> Stages] /\ opened' \subseteq Requests
      BY <3>1, RefuseTypes
    <3> QED BY <2>15, <3>2, Kinds DEF SetIsEnabled, TypeOK, loopVars, popupVars, pageVars
  <2>16. ASSUME NEW tab \in Tabs, PageClosed(tab) PROVE TypeOK'
    <3>1. Refuse({r \in Waiting \ opened : r \notin Internal /\ TabOf[r] = tab})
      BY <2>16 DEF PageClosed
    <3>2. stage' \in [Requests -> Stages] /\ opened' \subseteq Requests
      BY <3>1, RefuseTypes
    <3> QED BY <2>16, <3>2 DEF PageClosed, TypeOK, loopVars, popupVars, pageVars
  <2>17. CASE UNCHANGED vars
    BY <2>17 DEF TypeOK, vars, requestVars, loopVars, popupVars, pageVars
  <2> QED BY <2>1, <2>2, <2>3, <2>4, <2>5, <2>6, <2>7, <2>8, <2>9, <2>10, <2>11, <2>12, <2>13,
             <2>14, <2>15, <2>16, <2>17 DEF Next, Background, Ping, Page, User
<1> QED BY <1>1, <1>2, PTL DEF Spec

\* What a step does to the requests: nothing waits that did not wait before,
\* other than what is added, and no loop ends, other than by its own step.
LEMMA OtherSteps ==
    ASSUME TypeOK, [Next]_vars,
           ~ \E r \in Requests : Add(r),
           ~ \E l \in Loops : Wake(l) \/ PingFailed(l) \/ PingSucceeded(l),
           ~ SetIsEnabled
    PROVE  /\ panelLoop' = panelLoop /\ enabled' = enabled
           /\ Waiting' \subseteq Waiting
<1> USE DEF Waiting
<1>1. ASSUME NEW r \in Requests, Return(r) \/ OpenPopup(r) \/ IdPing(r) \/ Ask(r)
      PROVE  panelLoop' = panelLoop /\ enabled' = enabled /\ Waiting' \subseteq Waiting
  <2>1. CASE Return(r)
    BY <2>1 DEF Return, TypeOK, loopVars
  <2>2. CASE OpenPopup(r)
    BY <2>2 DEF OpenPopup, requestVars, loopVars
  <2>3. CASE IdPing(r)
    <3>1. PICK requests : Refuse(requests)
      BY <2>3 DEF IdPing
    <3>2. Waiting' = Waiting \ requests
      BY <3>1, RefuseTypes
    <3> QED BY <2>3, <3>2 DEF IdPing
  <2>4. CASE Ask(r)
    BY <2>4 DEF Ask, TypeOK, loopVars
  <2> QED BY <1>1, <2>1, <2>2, <2>3, <2>4
<1>2. ASSUME NEW m \in sent, Approve(m) \/ Reject(m)
      PROVE  panelLoop' = panelLoop /\ enabled' = enabled /\ Waiting' \subseteq Waiting
  <2>1. CASE Approve(m)
    BY <2>1 DEF Approve, TypeOK, loopVars
  <2>2. CASE Reject(m)
    <3>1. Waiting' = Waiting \ {m.request}
      BY <2>2, RefuseTypes DEF Reject
    <3> QED BY <2>2, <3>1 DEF Reject, loopVars
  <2> QED BY <1>2, <2>1, <2>2
<1>3. ASSUME TabRemoved \/ \E tab \in Tabs : PageClosed(tab)
      PROVE  panelLoop' = panelLoop /\ enabled' = enabled /\ Waiting' \subseteq Waiting
  <2>1. PICK requests : Refuse(requests)
    BY <1>3 DEF TabRemoved, PageClosed
  <2>2. Waiting' = Waiting \ requests
    BY <2>1, RefuseTypes
  <2> QED BY <1>3, <2>2 DEF TabRemoved, PageClosed, loopVars
<1>4. ASSUME NEW p \in Pages, Fetch(p) \/ Refreshed(p) \/ OpenPage(p) \/ ClosePage(p)
                              \/ \E r \in Requests, act \in {"approveV2", "rejectV2"} : Answer(p, r, act)
      PROVE  panelLoop' = panelLoop /\ enabled' = enabled /\ stage' = stage
  BY <1>4 DEF Fetch, Refreshed, OpenPage, ClosePage, Answer, requestVars, loopVars
<1>5. ASSUME UNCHANGED vars
      PROVE  panelLoop' = panelLoop /\ enabled' = enabled /\ stage' = stage
  BY <1>5 DEF vars, requestVars, loopVars
<1> QED BY <1>1, <1>2, <1>3, <1>4, <1>5 DEF Next, Background, Ping, Page, User

\* While the side panel is enabled and a request waits, some loop pings: the
\* loop that the first request starts outlives every break, every refusal and
\* every refill of the map.
THEOREM LoopsWatch == Spec => []LoopWatches
<1>1. Init => LoopWatches
  BY DEF Init, LoopWatches, Waiting
<1>2. TypeOK /\ LoopWatches /\ [Next]_vars => LoopWatches'
  <2> SUFFICES ASSUME TypeOK, LoopWatches, [Next]_vars, enabled', Waiting' # {}
               PROVE  \E l \in Loops : panelLoop'[l].at # "off"
    BY DEF LoopWatches
  <2>1. ASSUME NEW r \in Requests, Add(r) PROVE \E l \in Loops : panelLoop'[l].at # "off"
    <3>1. CASE Waiting = {}
      <4>1. PICK l \in Loops : panelLoop' = [panelLoop EXCEPT ![l] = [NoLoop EXCEPT !.at = "asleep"]]
        BY <2>1, <3>1 DEF Add, StartPings
      <4>2. [NoLoop EXCEPT !.at = "asleep"].at = "asleep"
        BY DEF NoLoop
      <4>3. panelLoop \in [Loops -> PanelLoops]
        BY DEF TypeOK
      <4>4. panelLoop'[l] = [NoLoop EXCEPT !.at = "asleep"]
        BY <4>1, <4>3
      <4> QED BY <4>2, <4>4
    <3>2. CASE Waiting # {}
      BY <2>1, <3>2 DEF Add, StartPings, loopVars, LoopWatches
    <3> QED BY <3>1, <3>2
  <2>2. ASSUME NEW l \in Loops, Wake(l) \/ PingFailed(l) \/ PingSucceeded(l)
        PROVE  panelLoop'[l].at # "off"
    <3> DEFINE loop == panelLoop[l]
    <3>1. /\ loop \in PanelLoops /\ loop.asked \in SUBSET Requests /\ loop.todo \in SUBSET Windows
          /\ Waiting \in SUBSET Requests /\ Waiting \ loop.asked \in SUBSET Requests
      BY PingedTypes, Kinds
    <3>2. CASE Wake(l)
      <4> DEFINE todo == IF enabled THEN {WindowOf[r] : r \in Waiting} ELSE {}
      <4>1. todo \in SUBSET Windows
        BY Kinds
      <4>2. NextWindow(l, loop, todo, Waiting) /\ Waiting' = Waiting
        BY <3>2 DEF Wake, Waiting, requestVars
      <4> HIDE DEF todo, loop
      <4> QED BY <3>1, <4>1, <4>2, NextWindowTypes
    <3>3. CASE PingFailed(l)
      <4>1. CASE loop.window \in loop.succeeded
        <5>1. Refuse(loop.asked) /\ NextWindow(l, loop, {}, Waiting \ loop.asked)
          BY <3>3, <4>1 DEF PingFailed
        <5>2. Waiting' = Waiting \ loop.asked
          BY <5>1, RefuseTypes
        <5> HIDE DEF loop
        <5> QED BY <3>1, <5>1, <5>2, NextWindowTypes
      <4>2. CASE loop.window \notin loop.succeeded
        <5>1. NextWindow(l, loop, loop.todo, Waiting) /\ Waiting' = Waiting
          BY <3>3, <4>2 DEF PingFailed, Waiting
        <5> HIDE DEF loop
        <5> QED BY <3>1, <5>1, NextWindowTypes
      <4> QED BY <4>1, <4>2
    <3>4. CASE PingSucceeded(l)
      <4> DEFINE now == [loop EXCEPT !.succeeded = @ \cup {loop.window}]
      <4>1. now \in PanelLoops
        BY <3>4, PingedTypes DEF PingSucceeded
      <4>2. NextWindow(l, now, loop.todo, Waiting) /\ Waiting' = Waiting
        BY <3>4 DEF PingSucceeded, Waiting
      <4> HIDE DEF now, loop
      <4> QED BY <3>1, <4>1, <4>2, NextWindowTypes
    <3> QED BY <2>2, <3>2, <3>3, <3>4
  <2>3. ~ SetIsEnabled
    <3>1. SetIsEnabled => Waiting' = {}
      BY RefuseTypes DEF SetIsEnabled
    <3> QED BY <3>1
  <2>4. CASE /\ ~ \E r \in Requests : Add(r)
             /\ ~ \E l \in Loops : Wake(l) \/ PingFailed(l) \/ PingSucceeded(l)
    BY <2>3, <2>4, OtherSteps DEF LoopWatches
  <2> QED BY <2>1, <2>2, <2>4
<1> QED BY <1>1, <1>2, TypesHold, PTL DEF Spec

\* The first answer wins: whatever closes, pings or repeats itself later, what
\* was refused is not approved, and what was approved is carried out.
THEOREM FirstAnswerIsFinal == Spec => FirstAnswerWins
<1> DEFINE Final(r) == /\ stage[r] = "refused" => stage'[r] = "refused"
                       /\ stage[r] \in {"approved", "answered"} => stage'[r] \in {"approved", "answered"}
<1>1. ASSUME TypeOK, NEW requests, Refuse(requests), NEW r \in Requests PROVE Final(r)
  BY <1>1, RefuseTypes
<1>2. TypeOK /\ [Next]_vars => \A r \in Requests : Final(r)
  <2> SUFFICES ASSUME TypeOK, [Next]_vars, NEW r \in Requests PROVE Final(r)
    OBVIOUS
  <2>1. stage \in [Requests -> Stages]
    BY DEF TypeOK
  <2>2. ASSUME NEW q \in Requests, Ask(q) \/ Add(q) \/ Return(q) PROVE Final(r)
    BY <2>1, <2>2 DEF Ask, Add, Return
  <2>3. ASSUME NEW m \in sent, Approve(m) PROVE Final(r)
    BY <2>1, <2>3 DEF Approve
  <2>4. ASSUME NEW m \in sent, Reject(m) PROVE Final(r)
    BY <1>1, <2>4 DEF Reject
  <2>5. ASSUME TabRemoved \/ SetIsEnabled \/ \E tab \in Tabs : PageClosed(tab) PROVE Final(r)
    BY <1>1, <2>5 DEF TabRemoved, SetIsEnabled, PageClosed
  <2>6. ASSUME NEW q \in Requests, IdPing(q) PROVE Final(r)
    BY <1>1, <2>6 DEF IdPing
  <2>7. ASSUME NEW l \in Loops, Wake(l) \/ PingFailed(l) \/ PingSucceeded(l) PROVE Final(r)
    BY <1>1, <2>7 DEF Wake, PingFailed, PingSucceeded, requestVars
  <2>8. ASSUME NEW p \in Pages, Fetch(p) \/ Refreshed(p) \/ OpenPage(p) \/ ClosePage(p)
                                \/ \E q \in Requests, act \in {"approveV2", "rejectV2"} : Answer(p, q, act)
        PROVE  Final(r)
    BY <2>8 DEF Fetch, Refreshed, OpenPage, ClosePage, Answer, requestVars
  <2>9. ASSUME NEW q \in Requests, OpenPopup(q) PROVE Final(r)
    BY <2>9 DEF OpenPopup, requestVars
  <2>10. CASE UNCHANGED vars
    BY <2>10 DEF vars, requestVars
  <2> QED BY <2>2, <2>3, <2>4, <2>5, <2>6, <2>7, <2>8, <2>9, <2>10
          DEF Next, Background, Ping, Page, User
<1>3. Spec => [][\A r \in Requests : Final(r)]_vars
  <2> HIDE DEF Final
  <2> QED BY <1>2, TypesHold, PTL DEF Spec
<1> QED BY <1>3 DEF FirstAnswerWins

-----------------------------------------------------------------------------
(***************************************************************************)
(* A request whose page is known was met by a page.                        *)
(***************************************************************************)
\* What happens to the requests: none waits twice, and none is as it was before
\* it waited.
OnceWaiting ==
    \A r \in Requests :
        /\ Was(r) => stage'[r] \notin {"new", "asked"}
        /\ Was(r) /\ stage'[r] = "waiting" => stage[r] = "waiting"

\* The loops ask for what they asked for, or for nothing.
LEMMA OpenedStays ==
    ASSUME TypeOK, OpenedInv, OnceWaiting, met \subseteq met', opened' \subseteq opened,
           \A l \in Loops : panelLoop'[l] = panelLoop[l] \/ panelLoop'[l].asked = {},
           \A r \in Waiting' : (\E p \in open' : Shows(p, r)) => r \in met'
    PROVE  OpenedInv'
<1>1. AnsweringMeets'
  <2>1. \A r : r \in Waiting' => r \in Requests
    BY DEF Waiting
  <2> SUFFICES ASSUME NEW r \in Waiting', WindowOf[r] \in open' \/ Popup \in open'
               PROVE  r \in met'
    BY DEF AnsweringMeets, Answers
  <2> QED BY DEF Shows
<1>2. AskedInWindow'
  <2> SUFFICES ASSUME NEW l \in Loops, NEW r \in panelLoop'[l].asked
               PROVE  /\ panelLoop'[l].at = "pinged" /\ WindowOf[r] = panelLoop'[l].window
                      /\ stage'[r] \notin {"new", "asked"}
    BY DEF AskedInWindow, Was
  <2>1. panelLoop'[l] = panelLoop[l]
    OBVIOUS
  <2>2. r \in panelLoop[l].asked /\ panelLoop[l].asked \in SUBSET Requests
    BY <2>1, PingedTypes
  <2>3. panelLoop[l].at = "pinged" /\ WindowOf[r] = panelLoop[l].window /\ Was(r)
    BY <2>2 DEF OpenedInv, AskedInWindow
  <2> QED BY <2>1, <2>2, <2>3 DEF OnceWaiting
<1>3. OpenedWaited'
  <2> SUFFICES ASSUME NEW r \in opened' PROVE stage'[r] \notin {"new", "asked"}
    BY DEF OpenedWaited, Was
  <2>1. r \in opened /\ r \in Requests
    BY DEF TypeOK
  <2>2. Was(r)
    BY <2>1 DEF OpenedInv, OpenedWaited
  <2> QED BY <2>1, <2>2 DEF OnceWaiting
<1>4. OpenedWasMet'
  <2> SUFFICES ASSUME NEW r \in opened', r \in Requests, stage'[r] = "waiting" PROVE r \in met'
    BY DEF OpenedWasMet, Waiting
  <2>1. r \in opened /\ Was(r)
    BY DEF OpenedInv, OpenedWaited
  <2>2. r \in Waiting
    BY <2>1 DEF OnceWaiting, Waiting
  <2> QED BY <2>1, <2>2 DEF OpenedInv, OpenedWasMet
<1> QED BY <1>1, <1>2, <1>3, <1>4 DEF OpenedInv

\* Nothing waits that did not, and no page opens.
LEMMA QuietStays ==
    ASSUME TypeOK, OpenedInv, OnceWaiting, met' = met, opened' \subseteq opened, open' \subseteq open,
           \A l \in Loops : panelLoop'[l] = panelLoop[l] \/ panelLoop'[l].asked = {},
           Waiting' \subseteq Waiting
    PROVE  OpenedInv'
<1>1. \A r \in Waiting' : (\E p \in open' : Shows(p, r)) => r \in met'
  <2> SUFFICES ASSUME NEW r \in Waiting', NEW p \in open', Shows(p, r) PROVE r \in met
    OBVIOUS
  <2>1. r \in Waiting /\ p \in open
    OBVIOUS
  <2>2. Answers(WindowOf[r])
    BY <2>1 DEF Shows, Answers
  <2> QED BY <2>1, <2>2 DEF OpenedInv, AnsweringMeets
<1> QED BY <1>1, OpenedStays

\* After a rejection.
LEMMA RefusedOnce ==
    ASSUME TypeOK, NEW requests, Refuse(requests)
    PROVE  OnceWaiting /\ opened' \subseteq opened /\ Waiting' \subseteq Waiting
<1>1. /\ \A r \in Requests : stage'[r] = IF r \in requests /\ stage[r] = "waiting"
                                        THEN "refused" ELSE stage[r]
      /\ Waiting' = Waiting \ requests
  BY RefuseTypes
<1>2. OnceWaiting
  BY <1>1 DEF OnceWaiting, Was
<1> QED BY <1>1, <1>2 DEF Refuse

\* A loop asks for what waits in the window that it pings.
LEMMA NextWindowAsks ==
    ASSUME TypeOK, NEW l \in Loops, NEW loop \in PanelLoops, NEW todo, NEW waiting,
           NextWindow(l, loop, todo, waiting)
    PROVE  /\ \A k \in Loops \ {l} : panelLoop'[k] = panelLoop[k]
           /\ \A r \in panelLoop'[l].asked :
                r \in waiting /\ panelLoop'[l].at = "pinged" /\ WindowOf[r] = panelLoop'[l].window
<1>1. panelLoop \in [Loops -> PanelLoops]
  BY DEF TypeOK
<1>2. CASE todo # {}
  <2>1. PICK w \in todo : panelLoop' = [panelLoop EXCEPT ![l] =
             [loop EXCEPT !.at = "pinged", !.todo = todo \ {w}, !.window = w,
                          !.asked = {r \in waiting : WindowOf[r] = w}]]
    BY <1>2, Zenon DEF NextWindow
  <2> DEFINE asked == {r \in waiting : WindowOf[r] = w}
             next == [loop EXCEPT !.at = "pinged", !.todo = todo \ {w}, !.window = w,
                                  !.asked = asked]
  <2>2. \A r \in asked : r \in waiting /\ WindowOf[r] = w
    OBVIOUS
  <2>3. next.asked = asked /\ next.at = "pinged" /\ next.window = w
    <3> HIDE DEF asked
    <3> QED BY DEF PanelLoops
  <2>4. panelLoop' = [panelLoop EXCEPT ![l] = next]
    BY <2>1
  <2> HIDE DEF next, asked
  <2> QED BY <1>1, <2>2, <2>3, <2>4
<1>3. CASE todo = {}
  <2> DEFINE next == IF waiting = {} THEN NoLoop
                     ELSE [NoLoop EXCEPT !.at = "asleep", !.succeeded = loop.succeeded]
  <2>1. panelLoop' = [panelLoop EXCEPT ![l] = next]
    BY <1>3 DEF NextWindow
  <2>2. next.asked = {}
    BY DEF NoLoop
  <2> HIDE DEF next
  <2> QED BY <1>1, <2>1, <2>2
<1> QED BY <1>2, <1>3

\* A step of a loop, from what it asks for next and what it found.
LEMMA LoopStays ==
    ASSUME TypeOK, OpenedInv, OnceWaiting, NEW l \in Loops, NEW loop \in PanelLoops, NEW todo,
           NEW waiting, waiting \subseteq Waiting, NextWindow(l, loop, todo, waiting),
           met' = met, open' = open, Waiting' \subseteq Waiting,
           opened' \subseteq Requests, \A r \in opened' : Was(r),
           opened' \cap Waiting \subseteq met
    PROVE  OpenedInv'
<1>1. AnsweringMeets'
  <2> SUFFICES ASSUME NEW r \in Waiting', WindowOf[r] \in open' \/ Popup \in open'
               PROVE  r \in met'
    BY DEF AnsweringMeets, Answers
  <2>1. r \in Waiting /\ Answers(WindowOf[r])
    BY DEF Answers
  <2> QED BY <2>1 DEF OpenedInv, AnsweringMeets
<1>2. AskedInWindow'
  <2> SUFFICES ASSUME NEW k \in Loops, NEW r \in panelLoop'[k].asked
               PROVE  /\ panelLoop'[k].at = "pinged" /\ WindowOf[r] = panelLoop'[k].window
                      /\ stage'[r] \notin {"new", "asked"}
    BY DEF AskedInWindow, Was
  <2>1. CASE k = l
    <3>1. r \in waiting /\ panelLoop'[l].at = "pinged" /\ WindowOf[r] = panelLoop'[l].window
      BY <2>1, NextWindowAsks
    <3>2. r \in Requests /\ Was(r)
      BY <3>1 DEF Waiting, Was
    <3> QED BY <2>1, <3>1, <3>2 DEF OnceWaiting
  <2>2. CASE k # l
    <3>1. panelLoop'[k] = panelLoop[k]
      BY <2>2, NextWindowAsks
    <3>2. r \in panelLoop[k].asked /\ panelLoop[k].asked \in SUBSET Requests
      BY <3>1, PingedTypes
    <3>3. panelLoop[k].at = "pinged" /\ WindowOf[r] = panelLoop[k].window /\ Was(r)
      BY <3>2 DEF OpenedInv, AskedInWindow
    <3> QED BY <3>1, <3>2, <3>3 DEF OnceWaiting
  <2> QED BY <2>1, <2>2
<1>3. OpenedWaited'
  <2> SUFFICES ASSUME NEW r \in opened' PROVE stage'[r] \notin {"new", "asked"}
    BY DEF OpenedWaited, Was
  <2> QED BY DEF OnceWaiting
<1>4. OpenedWasMet'
  BY DEF OpenedWasMet
<1> QED BY <1>1, <1>2, <1>3, <1>4 DEF OpenedInv

LEMMA SameStageOnce ==
    ASSUME stage' = stage PROVE OnceWaiting /\ Waiting' = Waiting
BY DEF OnceWaiting, Was, Waiting

LEMMA LoopOpened ==
    ASSUME TypeOK, OpenedInv, NEW l \in Loops, Wake(l) \/ PingFailed(l) \/ PingSucceeded(l)
    PROVE  OpenedInv'
<1> DEFINE loop == panelLoop[l]
<1>1. /\ loop \in PanelLoops /\ opened \subseteq Requests /\ loop.asked \in SUBSET Requests
      /\ \A r \in opened : Was(r) /\ opened \cap Waiting \subseteq met
  BY PingedTypes DEF TypeOK, OpenedInv, OpenedWaited, OpenedWasMet
<1>2. CASE Wake(l)
  <2> DEFINE todo == IF enabled THEN {WindowOf[r] : r \in Waiting} ELSE {}
  <2>1. NextWindow(l, loop, todo, Waiting) /\ UNCHANGED <<stage, opened, met, open>>
    BY <1>2 DEF Wake, requestVars, pageVars
  <2> HIDE DEF todo, loop
  <2> QED BY <1>1, <2>1, SameStageOnce, LoopStays
<1>3. CASE PingFailed(l)
  <2>1. CASE loop.window \in loop.succeeded
    <3>1. Refuse(loop.asked) /\ NextWindow(l, loop, {}, Waiting \ loop.asked)
      BY <1>3, <2>1 DEF PingFailed
    <3>2. OnceWaiting /\ opened' \subseteq opened /\ Waiting' \subseteq Waiting
      BY <3>1, RefusedOnce
    <3>3. met' = met /\ open' = open
      BY <1>3 DEF PingFailed, pageVars
    <3>4. /\ opened' \subseteq Requests /\ \A r \in opened' : Was(r)
          /\ opened' \cap Waiting \subseteq met /\ Waiting \ loop.asked \subseteq Waiting
      BY <1>1, <3>2
    <3> HIDE DEF loop
    <3> QED BY <1>1, <3>1, <3>2, <3>3, <3>4, LoopStays
  <2>2. CASE loop.window \notin loop.succeeded
    <3>1. NextWindow(l, loop, loop.todo, Waiting) /\ UNCHANGED <<stage, opened, met, open>>
      BY <1>3, <2>2 DEF PingFailed, pageVars
    <3> HIDE DEF loop
    <3> QED BY <1>1, <3>1, SameStageOnce, LoopStays
  <2> QED BY <2>1, <2>2
<1>4. CASE PingSucceeded(l)
  <2> DEFINE now == [loop EXCEPT !.succeeded = @ \cup {loop.window}]
  <2>1. now \in PanelLoops
    BY <1>4, PingedTypes DEF PingSucceeded
  <2>2. /\ NextWindow(l, now, loop.todo, Waiting)
        /\ opened' = IF loop.window \in loop.succeeded THEN opened ELSE opened \cup loop.asked
        /\ Answers(loop.window) /\ UNCHANGED <<stage, met, open>>
    BY <1>4 DEF PingSucceeded, pageVars
  <2>3. \A r \in loop.asked : Was(r) /\ WindowOf[r] = loop.window
    BY DEF OpenedInv, AskedInWindow
  <2>4. \A r \in loop.asked \cap Waiting : r \in met
    BY <2>2, <2>3 DEF OpenedInv, AnsweringMeets
  <2>5. /\ opened' \subseteq Requests /\ \A r \in opened' : Was(r)
        /\ opened' \cap Waiting \subseteq met
    <3> HIDE DEF loop
    <3> QED BY <1>1, <2>2, <2>3, <2>4
  <2> HIDE DEF now, loop
  <2> QED BY <2>1, <2>2, <2>5, SameStageOnce, LoopStays
<1> QED BY <1>2, <1>3, <1>4

LEMMA AddOpened ==
    ASSUME TypeOK, OpenedInv, NEW q \in Requests, Add(q)
    PROVE  OpenedInv'
<1>1. /\ stage[q] = "asked" /\ stage' = [stage EXCEPT ![q] = "waiting"] /\ StartPings(q)
      /\ met' = IF Answers(WindowOf[q]) THEN met \cup {q} ELSE met
      /\ UNCHANGED <<opened, open>>
  BY DEF Add
<1>2. stage \in [Requests -> Stages] /\ panelLoop \in [Loops -> PanelLoops]
  BY DEF TypeOK
<1>3. OnceWaiting /\ Waiting' \subseteq Waiting \cup {q}
  BY <1>1, <1>2 DEF OnceWaiting, Was, Waiting
<1>4. ASSUME NEW l \in Loops PROVE panelLoop'[l] = panelLoop[l] \/ panelLoop'[l].asked = {}
  <2>1. [NoLoop EXCEPT !.at = "asleep"].asked = {}
    BY DEF NoLoop
  <2>2. \/ panelLoop' = panelLoop
        \/ \E k \in Loops : panelLoop' = [panelLoop EXCEPT ![k] = [NoLoop EXCEPT !.at = "asleep"]]
    BY <1>1 DEF StartPings, loopVars
  <2> DEFINE started == [NoLoop EXCEPT !.at = "asleep"]
  <2>3. \/ panelLoop' = panelLoop
        \/ \E k \in Loops : panelLoop' = [panelLoop EXCEPT ![k] = started]
    BY <2>2
  <2> HIDE DEF started
  <2>4. panelLoop'[l] = panelLoop[l] \/ panelLoop'[l] = started
    BY <1>2, <2>3
  <2> QED BY <2>1, <2>4 DEF started
<1>5. ASSUME NEW r \in Waiting', NEW p \in open', Shows(p, r) PROVE r \in met'
  <2>1. Answers(WindowOf[r])
    BY <1>1, <1>5 DEF Shows, Answers
  <2>2. CASE r = q
    BY <1>1, <2>1, <2>2
  <2>3. CASE r # q
    BY <1>1, <1>3, <2>1, <2>3 DEF OpenedInv, AnsweringMeets
  <2> QED BY <2>2, <2>3
<1>6. met \subseteq met' /\ opened' \subseteq opened
  BY <1>1
<1> QED BY <1>3, <1>4, <1>5, <1>6, OpenedStays

LEMMA OpenOpened ==
    ASSUME TypeOK, OpenedInv, NEW q,
           (q \in Requests /\ OpenPopup(q)) \/ (q \in Pages /\ OpenPage(q))
    PROVE  OpenedInv'
<1> DEFINE p == IF q \in Pages /\ OpenPage(q) THEN q ELSE Popup
<1>1. /\ open' = open \cup {p} /\ \A r \in Waiting : Shows(p, r) => r \in met'
      /\ met \subseteq met'
      /\ UNCHANGED <<stage, opened, panelLoop>>
  BY DEF OpenPage, OpenPopup, requestVars, loopVars, Shows
<1> HIDE DEF p
<1>2. OnceWaiting /\ Waiting' = Waiting
  BY <1>1, SameStageOnce
<1>3. ASSUME NEW r \in Waiting', NEW o \in open', Shows(o, r) PROVE r \in met'
  <2>1. CASE o = p
    BY <1>1, <1>2, <1>3, <2>1
  <2>2. CASE o # p
    <3>1. Answers(WindowOf[r]) /\ r \in Waiting
      BY <1>1, <1>2, <1>3, <2>2 DEF Shows, Answers
    <3> QED BY <1>1, <3>1 DEF OpenedInv, AnsweringMeets
  <2> QED BY <2>1, <2>2
<1> QED BY <1>1, <1>2, <1>3, OpenedStays

\* The other steps add no request, open no page and let no ping succeed.
LEMMA QuietSteps ==
    ASSUME TypeOK, OpenedInv, [Next]_vars,
           ~ \E r \in Requests : Add(r) \/ OpenPopup(r),
           ~ \E p \in Pages : OpenPage(p),
           ~ \E l \in Loops : Wake(l) \/ PingFailed(l) \/ PingSucceeded(l)
    PROVE  OpenedInv'
<1> DEFINE Quiet == /\ OnceWaiting /\ met' = met /\ opened' \subseteq opened
                    /\ open' \subseteq open /\ panelLoop' = panelLoop /\ Waiting' \subseteq Waiting
<1>1. ASSUME NEW r \in Requests, Ask(r) \/ Return(r) PROVE Quiet
  <2>1. stage \in [Requests -> Stages]
    BY DEF TypeOK
  <2>2. OnceWaiting /\ Waiting' \subseteq Waiting
    BY <1>1, <2>1 DEF Ask, Return, OnceWaiting, Was, Waiting
  <2> QED BY <1>1, <2>2 DEF Ask, Return, loopVars, pageVars
<1>2. ASSUME NEW m \in sent, Approve(m) PROVE Quiet
  <2>1. stage \in [Requests -> Stages]
    BY DEF TypeOK
  <2>2. OnceWaiting /\ Waiting' \subseteq Waiting
    BY <1>2, <2>1 DEF Approve, OnceWaiting, Was, Waiting
  <2> QED BY <1>2, <2>2 DEF Approve, loopVars, pageVars
<1>3. ASSUME \/ TabRemoved \/ SetIsEnabled \/ \E tab \in Tabs : PageClosed(tab)
             \/ \E m \in sent : Reject(m)
             \/ \E r \in Requests : IdPing(r)
      PROVE  Quiet
  <2>1. PICK requests : Refuse(requests)
    BY <1>3 DEF TabRemoved, SetIsEnabled, PageClosed, Reject, IdPing
  <2>2. OnceWaiting /\ opened' \subseteq opened /\ Waiting' \subseteq Waiting
    BY <2>1, RefusedOnce
  <2>3. met' = met /\ open' = open /\ panelLoop' = panelLoop
    BY <1>3 DEF TabRemoved, SetIsEnabled, PageClosed, Reject, IdPing, loopVars, pageVars
  <2> QED BY <2>2, <2>3
<1>4. ASSUME \/ UNCHANGED vars
             \/ \E p \in Pages : \/ Fetch(p) \/ Refreshed(p) \/ ClosePage(p)
                                 \/ \E r \in Requests, act \in {"approveV2", "rejectV2"} : Answer(p, r, act)
      PROVE  Quiet
  <2>1. /\ stage' = stage /\ met' = met /\ opened' = opened /\ open' \subseteq open
        /\ panelLoop' = panelLoop
    BY <1>4 DEF Fetch, Refreshed, ClosePage, Answer, requestVars, loopVars, pageVars, vars
  <2> QED BY <2>1, SameStageOnce
<1>5. Quiet
  <2> HIDE DEF Quiet
  <2> QED BY <1>1, <1>2, <1>3, <1>4 DEF Next, Background, Ping, Page, User
<1> QED BY <1>5, QuietStays

\* A request of which the background knows that a page shows it was met by one
\* while it waited: no ping of another window, and none of a page from before
\* the request was made, vouches for it.
THEOREM OpenedIsTrue == Spec => []OpenedWasMet
<1>1. Init => OpenedInv
  BY DEF Init, OpenedInv, AnsweringMeets, AskedInWindow, OpenedWaited, OpenedWasMet, NoLoop, Waiting
<1>2. TypeOK /\ OpenedInv /\ [Next]_vars => OpenedInv'
  <2> SUFFICES ASSUME TypeOK, OpenedInv, [Next]_vars PROVE OpenedInv'
    OBVIOUS
  <2> QED BY AddOpened, OpenOpened, LoopOpened, QuietSteps
<1>3. OpenedInv => OpenedWasMet
  BY DEF OpenedInv
<1> QED BY <1>1, <1>2, <1>3, TypesHold, PTL DEF Spec

-----------------------------------------------------------------------------
(***************************************************************************)
(* No request of a web page waits unnoticed for a popup that is closed.    *)
(***************************************************************************)
\* Why a request that waits for the popup is not forgotten.
Pends(r) == r \in opening \/ r \in removed \/ (r \in onClose /\ Popup \in open)

\* A step that leaves what pends, or lets it wait no more.
LEMMA PendingStays ==
    ASSUME TypeOK, PopupPending, [Next]_vars,
           ~ \E r \in Requests : Add(r), ~SetIsEnabled
    PROVE  PopupPending'
<1> DEFINE Stays == /\ Waiting' \subseteq Waiting /\ enabled' = enabled
                    /\ \A r \in Waiting' : Pends(r) => Pends(r)'
<1>0. ASSUME Waiting' \subseteq Waiting, enabled' = enabled,
             UNCHANGED <<opening, removed, onClose>>, Popup \in open => Popup \in open'
      PROVE  Stays
  BY <1>0 DEF Pends
<1>1. ASSUME \/ \E r \in Requests : Ask(r) \/ Return(r)
             \/ \E m \in sent : Approve(m)
      PROVE  Stays
  <2>1. stage \in [Requests -> Stages]
    BY DEF TypeOK
  <2>2. Waiting' \subseteq Waiting
    BY <1>1, <2>1 DEF Ask, Return, Approve, Waiting
  <2>3. enabled' = enabled /\ UNCHANGED <<opening, removed, onClose, open>>
    BY <1>1 DEF Ask, Return, Approve, popupVars, pageVars
  <2> QED BY <1>0, <2>2, <2>3
<1>2. ASSUME \/ \E tab \in Tabs : PageClosed(tab)
             \/ \E m \in sent : Reject(m)
             \/ \E r \in Requests : IdPing(r)
      PROVE  Stays
  <2>1. PICK requests : Refuse(requests)
    BY <1>2 DEF PageClosed, Reject, IdPing
  <2>2. Waiting' \subseteq Waiting
    BY <2>1, RefusedOnce
  <2>3. enabled' = enabled /\ UNCHANGED <<opening, removed, onClose, open>>
    BY <1>2 DEF PageClosed, Reject, IdPing, popupVars, pageVars
  <2> QED BY <1>0, <2>2, <2>3
<1>3. ASSUME NEW l \in Loops, Wake(l) \/ PingFailed(l) \/ PingSucceeded(l) PROVE Stays
  <2>1. enabled' = enabled /\ UNCHANGED <<opening, removed, onClose, open>>
    BY <1>3 DEF Wake, PingFailed, PingSucceeded, requestVars, popupVars, pageVars
  <2>2. stage' = stage \/ \E requests : Refuse(requests)
    BY <1>3 DEF Wake, PingFailed, PingSucceeded, requestVars
  <2>3. Waiting' \subseteq Waiting
    BY <2>2, SameStageOnce, RefusedOnce
  <2> QED BY <1>0, <2>1, <2>3
<1>4. ASSUME \/ UNCHANGED vars
             \/ \E p \in Pages : \/ Fetch(p) \/ Refreshed(p) \/ OpenPage(p)
                                 \/ \E r \in Requests, act \in {"approveV2", "rejectV2"} : Answer(p, r, act)
      PROVE  Stays
  <2>1. /\ stage' = stage /\ enabled' = enabled /\ open \subseteq open'
        /\ UNCHANGED <<opening, removed, onClose>>
    BY <1>4 DEF Fetch, Refreshed, OpenPage, Answer, requestVars, popupVars, pageVars, vars
  <2> QED BY <1>0, <2>1, SameStageOnce
<1>5. ASSUME NEW q \in Requests, OpenPopup(q) PROVE Stays
  <2>1. /\ stage' = stage /\ enabled' = enabled /\ open' = open \cup {Popup}
        /\ opening' = opening \ {q} /\ onClose' = onClose \cup {q} /\ removed' = removed
    BY <1>5 DEF OpenPopup, requestVars
  <2> QED BY <2>1, SameStageOnce DEF Pends
<1>6. ASSUME NEW p \in Pages, ClosePage(p) PROVE Stays
  <2>1. /\ stage' = stage /\ enabled' = enabled /\ open' = open \ {p} /\ opening' = opening
        /\ IF p = Popup THEN onClose' = {} /\ removed' = removed \cup onClose
                        ELSE UNCHANGED <<onClose, removed>>
    BY <1>6 DEF ClosePage
  <2> QED BY <2>1, SameStageOnce DEF Pends
<1>7. ASSUME TabRemoved PROVE Stays
  <2>1. /\ Refuse(removed) /\ enabled' = enabled /\ removed' = {}
        /\ UNCHANGED <<opening, onClose, open>>
    BY <1>7 DEF TabRemoved, pageVars
  <2>2. Waiting' = Waiting \ removed
    BY <2>1, RefuseTypes
  <2> QED BY <2>1, <2>2 DEF Pends
<1>8. Stays
  <2> HIDE DEF Stays
  <2> QED BY <1>1, <1>2, <1>3, <1>4, <1>5, <1>6, <1>7 DEF Next, Background, Ping, Page, User
<1> QED BY <1>8 DEF PopupPending, Pends

\* While the side panel is off, each waiting request of a web page has its popup
\* being opened, or open, or its rejection under way: no order of closing,
\* reopening and switching leaves one that nobody will show or refuse.
THEOREM PopupIsAwaited == Spec => []PopupPending
<1>1. Init => PopupPending
  BY DEF Init, PopupPending, Waiting
<1>2. TypeOK /\ PopupPending /\ [Next]_vars => PopupPending'
  <2> SUFFICES ASSUME TypeOK, PopupPending, [Next]_vars PROVE PopupPending'
    OBVIOUS
  <2>1. ASSUME NEW q \in Requests, Add(q) PROVE PopupPending'
    <3>1. /\ stage' = [stage EXCEPT ![q] = "waiting"] /\ Show(q)
          /\ UNCHANGED <<enabled, onClose, removed, open>>
      BY <2>1 DEF Add
    <3>2. Waiting' \subseteq Waiting \cup {q}
      BY <3>1 DEF Waiting, TypeOK
    <3>3. /\ opening \subseteq opening'
          /\ ~enabled /\ q \notin Internal => q \in opening'
      BY <3>1 DEF Show
    <3> QED BY <3>1, <3>2, <3>3 DEF PopupPending
  <2>2. CASE SetIsEnabled
    <3>1. Waiting' = {}
      BY <2>2, RefuseTypes DEF SetIsEnabled
    <3> QED BY <3>1 DEF PopupPending
  <2> QED BY <2>1, <2>2, PendingStays
<1> QED BY <1>1, <1>2, TypesHold, PTL DEF Spec

=============================================================================
