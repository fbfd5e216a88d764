---------------------------- MODULE Interaction ----------------------------
(***************************************************************************)
(* Requests that wait for the user: packages/background/src/interaction/   *)
(* service.ts, the popup that router-extension/src/env/extension.ts opens  *)
(* for them and the list of them that a page of the wallet keeps           *)
(* (stores-core/src/core/interaction/interaction.ts).                      *)
(*                                                                         *)
(* A request of a web page is shown in the popup or, when the side panel   *)
(* is enabled, in the panel of the browser window of that page; one of the *)
(* wallet itself is shown in the page that made it.  A page can vanish     *)
(* without a word, so the background pings it.  The messages of pages,     *)
(* pings, timers and browser events interleave between any two awaits.     *)
(*                                                                         *)
(* waitingMap and resolverMap have the same keys at every await: the       *)
(* requests that are "waiting".  The contents of requests and answers are  *)
(* left out, and so are what waits at all (waitApprove() is a waitApproveV2*)
(* without returnFn), the end of the background, and a popup that cannot   *)
(* be opened in four tries.                                                *)
(***************************************************************************)
EXTENDS Naturals, FiniteSets

CONSTANTS
    Requests,    \* the requests that are made, each once
    Internal,    \* those that the wallet itself makes
    Tabs,        \* the tabs of the web pages
    TabOf,       \* TabOf[r]: the tab of a request that is not internal
    Windows,     \* the browser windows
    WindowOf,    \* WindowOf[r]: the window it is asked in
    Popup,       \* the page in the popup
    Loops,       \* bound: the loops of startCheckPingOnUIWithWindowId() at a time
    MaxOpens,    \* bound: how often the user opens a page
    MaxSwitches, \* bound: how often the user switches between popup and panel
    None

\* A page is the popup or the side panel of a window.
Pages == Windows \cup {Popup}

ASSUME RequestsAssumption ==
    /\ Internal \subseteq Requests
    /\ TabOf \in [Requests -> Tabs] /\ WindowOf \in [Requests -> Windows]
    /\ Popup \notin Windows /\ None \notin Pages
    /\ MaxOpens \in Nat /\ MaxSwitches \in Nat

VARIABLES
    enabled,    \* the side panel is enabled
    stage,      \* where a request stands
    resolvers,  \* resolverV2Map: the pages that wait for the end of a request
    opened,     \* isUIOpenedOnSidePanelMap
    panelLoop,  \* the loops that ping the side panels
    idLoop,     \* startCheckPingOnUI(), for the request it was started for
    opening,    \* requests whose popup is being opened
    onClose,    \* requests that are rejected when the popup closes
    removed,    \* of these, those whose popup has closed: the event is on its way
    open,       \* the pages that exist
    data,       \* InteractionStore.data of a page
    obsolete,   \* InteractionStore.obsoleteData of a page
    pushed,     \* pages that have yet to start refreshData()
    refresh,    \* refreshData() under way: the data before it and those received
    sent,       \* answers of pages that are on their way
    met,        \* history: requests that a page could have shown while they waited
    opens,      \* how often the user has opened a page
    switches    \* how often the user has switched between popup and panel

requestVars == <<enabled, stage, resolvers, opened>>
loopVars == <<panelLoop, idLoop>>
popupVars == <<opening, onClose, removed>>
pageVars == <<open, data, obsolete, pushed, refresh>>
vars == <<requestVars, loopVars, popupVars, pageVars, sent, met, opens, switches>>

-----------------------------------------------------------------------------
\* "asked" awaits the window, "approved" runs returnFn.
Stages == {"new", "asked", "waiting", "approved", "answered", "refused"}

Waiting == {r \in Requests : stage[r] = "waiting"}

\* The pages that show a request.
Shows(p, r) == p = Popup \/ p = WindowOf[r]

\* A page answers a ping for a window.
Answers(w) == w \in open \/ Popup \in open

NoLoop == [at |-> "off", todo |-> {}, window |-> None, asked |-> {}, succeeded |-> {}]

\* Mutant: a rejection does not look whether the request was answered.
Refuse_Approved(requests) ==
    /\ stage' = [r \in Requests |-> IF r \in requests /\ stage[r] \in {"waiting", "approved"}
                                   THEN "refused" ELSE stage[r]]
    /\ opened' = opened \ requests

\* reject(), rejectV2() of waiting requests; what runs after the rejection
\* does not await anything.
Refuse(requests) ==
    /\ stage' = [r \in Requests |-> IF r \in requests \cap Waiting THEN "refused" ELSE stage[r]]
    /\ opened' = opened \ requests

\* The answers to r that pages await are returned: they forget r.
Returned(pages, r) ==
    /\ data' = [p \in Pages |-> IF p \in pages THEN data[p] \ {r} ELSE data[p]]
    /\ obsolete' = [p \in Pages |-> IF p \in pages THEN obsolete[p] \ {r} ELSE obsolete[p]]

Init ==
    /\ enabled \in BOOLEAN
    /\ stage = [r \in Requests |-> "new"]
    /\ resolvers = [r \in Requests |-> {}]
    /\ opened = {}
    /\ panelLoop = [l \in Loops |-> NoLoop]
    /\ idLoop = [r \in Requests |-> [on |-> FALSE, succeeded |-> FALSE]]
    /\ opening = {} /\ onClose = {} /\ removed = {}
    /\ open = {}
    /\ data = [p \in Pages |-> {}] /\ obsolete = [p \in Pages |-> {}]
    /\ pushed = {} /\ refresh = [p \in Pages |-> None]
    /\ sent = {}
    /\ met = {}
    /\ opens = 0 /\ switches = 0

-----------------------------------------------------------------------------
\* waitApproveV2() asks the browser for the window first; a request of the
\* wallet comes from an open page.
Ask(r) ==
    /\ stage[r] = "new"
    /\ r \in Internal => \E p \in open : Shows(p, r)
    /\ stage' = [stage EXCEPT ![r] = "asked"]
    /\ UNCHANGED <<enabled, resolvers, opened, loopVars, popupVars, pageVars, sent, met, opens, switches>>

\* addDataToMap() starts the pings when nothing was waiting ...
StartPings(r) ==
    IF Waiting # {} THEN UNCHANGED loopVars
    ELSE /\ idLoop' = [idLoop EXCEPT ![r].on = TRUE]
         /\ IF enabled
            THEN \E l \in Loops :
                   /\ panelLoop[l].at = "off"
                   /\ panelLoop' = [panelLoop EXCEPT ![l] = [NoLoop EXCEPT !.at = "asleep"]]
            ELSE UNCHANGED panelLoop

\* ... and wait() lets the pages know, or opens the popup.
Show(r) ==
    IF r \in Internal
    THEN /\ pushed' = pushed \cup {p \in open : Shows(p, r)}
         /\ UNCHANGED opening
    ELSE IF enabled
    THEN /\ pushed' = open
         /\ UNCHANGED opening
    ELSE /\ opening' = opening \cup {r}
         /\ UNCHANGED pushed

Add(r) ==
    /\ stage[r] = "asked"
    /\ stage' = [stage EXCEPT ![r] = "waiting"]
    /\ StartPings(r)
    /\ Show(r)
    /\ met' = IF Answers(WindowOf[r]) THEN met \cup {r} ELSE met
    /\ UNCHANGED <<enabled, resolvers, opened, onClose, removed, open, data, obsolete,
                   refresh, sent, opens, switches>>

\* Mutant: nothing listens to the end of the popup.
OpenPopup_Deaf(r) ==
    /\ r \in opening
    /\ opening' = opening \ {r}
    /\ open' = open \cup {Popup}
    /\ pushed' = pushed \cup {Popup}
    /\ met' = met \cup Waiting
    /\ UNCHANGED <<requestVars, loopVars, onClose, removed, data, obsolete, refresh, sent,
                   opens, switches>>

\* openAndSendMsg() opens the popup, or finds it open, listens to its end and
\* pushes the request to it.
OpenPopup(r) ==
    /\ r \in opening
    /\ opening' = opening \ {r}
    /\ onClose' = onClose \cup {r}
    /\ open' = open \cup {Popup}
    /\ pushed' = pushed \cup {Popup}
    /\ met' = met \cup Waiting
    /\ UNCHANGED <<requestVars, loopVars, removed, data, obsolete, refresh, sent, opens, switches>>

\* The user opens the side panel, or the popup.
OpenPage(p) ==
    /\ p \notin open
    /\ enabled <=> p # Popup
    /\ opens < MaxOpens /\ opens' = opens + 1
    /\ open' = open \cup {p}
    /\ pushed' = pushed \cup {p}
    /\ met' = met \cup {r \in Waiting : Shows(p, r)}
    /\ UNCHANGED <<requestVars, loopVars, popupVars, data, obsolete, refresh, sent, switches>>

\* A page is closed.  It rejects what it shows as far as the browser lets it.
ClosePage(p) ==
    /\ p \in open
    /\ open' = open \ {p}
    /\ \E last \in SUBSET (data[p] \ obsolete[p]) :
         sent' = {[m EXCEPT !.from = IF @ = p THEN None ELSE @] : m \in sent}
                 \cup {[from |-> None, request |-> r, act |-> "reject"] : r \in last}
    /\ resolvers' = [r \in Requests |-> resolvers[r] \ {p}]
    /\ data' = [data EXCEPT ![p] = {}] /\ obsolete' = [obsolete EXCEPT ![p] = {}]
    /\ pushed' = pushed \ {p} /\ refresh' = [refresh EXCEPT ![p] = None]
    /\ IF p = Popup THEN onClose' = {} /\ removed' = removed \cup onClose
                    ELSE UNCHANGED <<onClose, removed>>
    /\ UNCHANGED <<enabled, stage, opened, loopVars, opening, met, opens, switches>>

\* unstableOnClose -> reject().
TabRemoved ==
    /\ removed # {} /\ removed' = {}
    /\ Refuse(removed)
    /\ UNCHANGED <<enabled, resolvers, loopVars, opening, onClose, pageVars, sent, met, opens, switches>>

-----------------------------------------------------------------------------
\* refreshData() asks the background ...
Fetch(p) ==
    /\ p \in pushed /\ refresh[p] = None
    /\ pushed' = pushed \ {p}
    /\ refresh' = [refresh EXCEPT ![p] =
                     [old |-> data[p], new |-> {r \in Waiting : Shows(p, r)}]]
    /\ UNCHANGED <<requestVars, loopVars, popupVars, open, data, obsolete, sent, met, opens, switches>>

\* ... and takes what it said, unless that is what the page had before.
Refreshed(p) ==
    /\ refresh[p] # None
    /\ data' = [data EXCEPT ![p] = IF refresh[p].new = refresh[p].old THEN @ ELSE refresh[p].new]
    /\ refresh' = [refresh EXCEPT ![p] = None]
    /\ UNCHANGED <<requestVars, loopVars, popupVars, open, obsolete, pushed, sent, met, opens, switches>>

\* approveWithProceedNextV2(), rejectWithProceedNextV2(): one answer to each
\* request that the page has.
Answer(p, r, act) ==
    /\ p \in open /\ r \in data[p] \ obsolete[p]
    /\ obsolete' = [obsolete EXCEPT ![p] = @ \cup {r}]
    /\ sent' = sent \cup {[from |-> p, request |-> r, act |-> act]}
    /\ UNCHANGED <<requestVars, loopVars, popupVars, open, data, pushed, refresh, met, opens, switches>>

\* approveV2() waits for the end of waitApproveV2(), whether it is under way
\* or not.
Approve(m) ==
    /\ m \in sent /\ m.act = "approveV2"
    /\ sent' = sent \ {m}
    /\ stage' = [stage EXCEPT ![m.request] = IF @ = "waiting" THEN "approved" ELSE @]
    /\ resolvers' = [resolvers EXCEPT ![m.request] = @ \cup ({m.from} \ {None})]
    /\ opened' = opened \ {m.request}
    /\ UNCHANGED <<enabled, loopVars, popupVars, pageVars, met, opens, switches>>

\* So does rejectV2(); reject() does not wait.
Reject(m) ==
    /\ m \in sent /\ m.act \in {"rejectV2", "reject"}
    /\ sent' = sent \ {m}
    /\ Refuse({m.request})
    /\ IF m.act = "reject" \/ m.request \in Waiting
       THEN Returned({m.from}, m.request) /\ UNCHANGED resolvers
       ELSE /\ resolvers' = [resolvers EXCEPT ![m.request] = @ \cup ({m.from} \ {None})]
            /\ UNCHANGED <<data, obsolete>>
    /\ UNCHANGED <<enabled, loopVars, popupVars, open, pushed, refresh, met, opens, switches>>

\* returnFn() is over: waitApproveV2() answers the request and the pages.
Return(r) ==
    /\ stage[r] = "approved"
    /\ stage' = [stage EXCEPT ![r] = "answered"]
    /\ Returned(resolvers[r], r)
    /\ resolvers' = [resolvers EXCEPT ![r] = {}]
    /\ UNCHANGED <<enabled, opened, loopVars, popupVars, open, pushed, refresh, sent, met, opens, switches>>

-----------------------------------------------------------------------------
\* Mutant: a round does not know which windows answered before.
NextWindow_Forgets(l, loop, todo, waiting) ==
    IF todo # {}
    THEN \E w \in todo :
           panelLoop' = [panelLoop EXCEPT ![l] =
             [loop EXCEPT !.at = "pinged", !.todo = todo \ {w}, !.window = w,
                          !.asked = {r \in waiting : WindowOf[r] = w}]]
    ELSE panelLoop' = [panelLoop EXCEPT ![l] =
           IF waiting = {} THEN NoLoop ELSE [NoLoop EXCEPT !.at = "asleep"]]

\* startCheckPingOnUIWithWindowId(): the next window of a round is pinged, for
\* the requests that wait in it now; after the last one, or a break, the loop
\* sleeps while anything waits.
NextWindow(l, loop, todo, waiting) ==
    IF todo # {}
    THEN \E w \in todo :
           panelLoop' = [panelLoop EXCEPT ![l] =
             [loop EXCEPT !.at = "pinged", !.todo = todo \ {w}, !.window = w,
                          !.asked = {r \in waiting : WindowOf[r] = w}]]
    ELSE panelLoop' = [panelLoop EXCEPT ![l] =
           IF waiting = {} THEN NoLoop
           ELSE [NoLoop EXCEPT !.at = "asleep", !.succeeded = loop.succeeded]]

\* After half a second; without side panels there is nothing to ping.
Wake(l) ==
    /\ panelLoop[l].at = "asleep"
    /\ NextWindow(l, panelLoop[l], IF enabled THEN {WindowOf[r] : r \in Waiting} ELSE {}, Waiting)
    /\ UNCHANGED <<requestVars, idLoop, popupVars, pageVars, sent, met, opens, switches>>

\* A ping that fails after one that succeeded means that the page is gone.
PingFailed(l) ==
    /\ panelLoop[l].at = "pinged" /\ ~Answers(panelLoop[l].window)
    /\ LET loop == panelLoop[l] IN
         IF loop.window \in loop.succeeded
         THEN /\ Refuse(loop.asked)
              /\ NextWindow(l, loop, {}, Waiting \ loop.asked)
         ELSE /\ NextWindow(l, loop, loop.todo, Waiting)
              /\ UNCHANGED <<stage, opened>>
    /\ UNCHANGED <<enabled, resolvers, idLoop, popupVars, pageVars, sent, met, opens, switches>>

\* Mutant: a page that answers is taken to show whatever waits.
PingSucceeded_AnyWindow(l) ==
    /\ panelLoop[l].at = "pinged" /\ Answers(panelLoop[l].window)
    /\ LET loop == panelLoop[l]
           now  == [loop EXCEPT !.succeeded = @ \cup {loop.window}]
       IN /\ opened' = IF loop.window \in loop.succeeded THEN opened ELSE opened \cup Waiting
          /\ NextWindow(l, now, loop.todo, Waiting)
    /\ UNCHANGED <<enabled, stage, resolvers, idLoop, popupVars, pageVars, sent, met, opens, switches>>

\* The first success tells that these requests have a page.
PingSucceeded(l) ==
    /\ panelLoop[l].at = "pinged" /\ Answers(panelLoop[l].window)
    /\ LET loop == panelLoop[l]
           now  == [loop EXCEPT !.succeeded = @ \cup {loop.window}]
       IN /\ opened' = IF loop.window \in loop.succeeded THEN opened ELSE opened \cup loop.asked
          /\ NextWindow(l, now, loop.todo, Waiting)
    /\ UNCHANGED <<enabled, stage, resolvers, idLoop, popupVars, pageVars, sent, met, opens, switches>>

\* startCheckPingOnUI(): the same for one request, wherever it is shown, until
\* that one is settled.  Between two pings it reads nothing.
IdPing(r) ==
    /\ idLoop[r].on
    /\ LET succeeds == \E p \in open : r \in data[p]
           gone     == idLoop[r].succeeded /\ ~succeeds
       IN /\ Refuse(IF gone THEN {r} ELSE {})
          /\ idLoop' = [idLoop EXCEPT ![r] =
               [on |-> ~gone /\ r \in Waiting, succeeded |-> succeeds]]
    /\ UNCHANGED <<enabled, resolvers, panelLoop, popupVars, pageVars, sent, met, opens, switches>>

\* Mutant: the requests stay when the user switches to the side panel.
SetIsEnabled_Stay ==
    /\ enabled' = ~enabled
    /\ switches < MaxSwitches /\ switches' = switches + 1
    /\ UNCHANGED <<stage, resolvers, opened, loopVars, popupVars, pageVars, sent, met, opens>>

\* SidePanelService.setIsEnabled(): the autorun of init() rejects everything.
SetIsEnabled ==
    /\ enabled' = ~enabled
    /\ switches < MaxSwitches /\ switches' = switches + 1
    /\ Refuse(Waiting)
    /\ UNCHANGED <<resolvers, loopVars, popupVars, pageVars, sent, met, opens>>

\* onInjectedWebpageClosed(): a web page is closed, or left.
PageClosed(tab) ==
    /\ enabled
    /\ Refuse({r \in Waiting \ opened : r \notin Internal /\ TabOf[r] = tab})
    /\ UNCHANGED <<enabled, resolvers, loopVars, popupVars, pageVars, sent, met, opens, switches>>

-----------------------------------------------------------------------------
Background ==
    \/ \E r \in Requests : Add(r) \/ Return(r) \/ OpenPopup(r)
    \/ TabRemoved
    \/ \E m \in sent : Approve(m) \/ Reject(m)

Ping == \/ \E l \in Loops : Wake(l) \/ PingFailed(l) \/ PingSucceeded(l)
        \/ \E r \in Requests : IdPing(r)

Page == \E p \in Pages : Fetch(p) \/ Refreshed(p)

User == \/ \E r \in Requests : Ask(r)
        \/ \E p \in Pages : OpenPage(p) \/ ClosePage(p)
        \/ \E p \in Pages, r \in Requests, act \in {"approveV2", "rejectV2"} : Answer(p, r, act)
        \/ SetIsEnabled
        \/ \E tab \in Tabs : PageClosed(tab)

Next == Background \/ Ping \/ Page \/ User

Spec == Init /\ [][Next]_vars

\* Messages arrive, timers fire and returnFn() ends; the user owes nothing.
Fairness ==
    /\ \A r \in Requests : /\ WF_vars(Add(r)) /\ WF_vars(Return(r)) /\ WF_vars(OpenPopup(r))
                           /\ WF_vars(IdPing(r))
    /\ \A l \in Loops : WF_vars(Wake(l)) /\ WF_vars(PingFailed(l) \/ PingSucceeded(l))
    /\ \A p \in Pages : WF_vars(Fetch(p)) /\ WF_vars(Refreshed(p))
    /\ WF_vars(TabRemoved) /\ WF_vars(\E m \in sent : Approve(m) \/ Reject(m))

FairSpec == Spec /\ Fairness

-----------------------------------------------------------------------------
PanelLoops ==
    [at : {"off", "asleep"}, todo : {{}}, window : {None}, asked : {{}}, succeeded : SUBSET Windows]
    \cup [at : {"pinged"}, todo : SUBSET Windows, window : Windows, asked : SUBSET Requests,
          succeeded : SUBSET Windows]

Messages == [from : Pages \cup {None}, request : Requests,
             act : {"approveV2", "rejectV2", "reject"}]

\* Every variable holds a value of the kind that the code gives it.
TypeOK ==
    /\ enabled \in BOOLEAN
    /\ stage \in [Requests -> Stages]
    /\ resolvers \in [Requests -> SUBSET Pages]
    /\ opened \subseteq Requests
    /\ panelLoop \in [Loops -> PanelLoops]
    /\ idLoop \in [Requests -> [on : BOOLEAN, succeeded : BOOLEAN]]
    /\ opening \subseteq Requests /\ onClose \subseteq Requests /\ removed \subseteq Requests
    /\ open \subseteq Pages /\ pushed \subseteq Pages
    /\ data \in [Pages -> SUBSET Requests] /\ obsolete \in [Pages -> SUBSET Requests]
    /\ refresh \in [Pages -> {None} \cup [old : SUBSET Requests, new : SUBSET Requests]]
    /\ sent \subseteq Messages
    /\ met \subseteq Requests
    /\ opens \in 0..MaxOpens /\ switches \in 0..MaxSwitches

\* While the side panel is enabled and a request waits, some loop pings: the
\* loop starts only with the first request after none, and must outlive it
\* while others follow, through every switch between panel and popup.
LoopWatches == enabled /\ Waiting # {} => \E l \in Loops : panelLoop[l].at # "off"

\* With the popup closed, no page's request waits for it unnoticed: it is being
\* opened, or the end of it is about to be handled.
PopupPending ==
    ~enabled => \A r \in Waiting \ Internal :
        r \in opening \/ r \in removed \/ (r \in onClose /\ Popup \in open)

\* A request whose page the background knows of had one: no ping of another
\* window, or of an earlier page, vouches for it, so that the request of a web
\* page that is left cannot linger in a panel that was never opened.
OpenedWasMet == opened \cap Waiting \subseteq met

\* The first answer wins: whatever closes, pings or repeats itself later, what
\* was refused is not approved, and what was approved is carried out.
FirstAnswerWins ==
    [][ \A r \in Requests :
          /\ stage[r] = "refused" => stage'[r] = "refused"
          /\ stage[r] \in {"approved", "answered"} => stage'[r] \in {"approved", "answered"} ]_vars

\* A request that a side panel was seen to show does not wait for ever once
\* that panel, and the popup, are gone for good.
GoneIsRefused ==
    \A r \in Requests :
        ~<>[](/\ r \in Waiting /\ enabled /\ ~Answers(WindowOf[r])
              /\ r \in opened)
=============================================================================
