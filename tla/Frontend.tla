------------------------------ MODULE Frontend ------------------------------
(***************************************************************************)
(* The page of js/script.js: its handlers run one at a time, each up to    *)
(* its next await, and go on when the request they wait for is answered or *)
(* fails.  The order in which requests come back is the network's choice.  *)
(* The server is every answer it may give: other pages edit the list, and  *)
(* expiry, eviction, a reset or a restart ends a session, at any moment.   *)
(*                                                                         *)
(* ui is the page, the requests it has out included.  A request names its  *)
(* continuation, the rest of the handler that awaits it:                   *)
(*   "check", "login"  startDashboard, of verifySession or handleLogin     *)
(*   "add", "edit", "delete"  loadPiList and pollStatuses, of that handler *)
(*   "none"            nothing that changes the page                       *)
(* The head and the body of an answer arrive together.  Numbers, texts and *)
(* the curve are left out: a status is there or not, and what is typed     *)
(* into a form was accepted by the validation of the page.                 *)
(***************************************************************************)
EXTENDS Integers, FiniteSetsExt

CONSTANTS
    Devices,    \* piKey of the Pis there are
    NoDevice,
    MaxHistory, \* MAX_HISTORY_POINTS
    MaxTokens,  \* bound: session tokens the page has at once
    MaxCalls    \* bound: requests out at once

ASSUME DevicesAssumption == NoDevice \notin Devices
ASSUME HistoryAssumption == MaxHistory \in Nat \ {0}
ASSUME BoundsAssumption == MaxTokens \in Nat \ {0} /\ MaxCalls \in Nat \ {0}

Tokens  == 1 .. MaxTokens
NoToken == 0
Slots   == 1 .. MaxCalls

VARIABLE ui     \* the page

NoCall == [kind |-> "none", token |-> NoToken, then |-> "none"]

-----------------------------------------------------------------------------
(* What the handlers do to a page u: the page they leave.                  *)

Out(u, kind)  == {s \in Slots : u.calls[s].kind = kind}
Done(u, s)    == [u EXCEPT !.calls[s] = NoCall]

(* There is room for another request, and where.                           *)
Room(u)       == Out(u, "none") # {}
Slot(u)       == Min(Out(u, "none"))

(* authFetch, up to its await: the token of this moment goes along.        *)
Send(u, s, kind, then) ==
    [u EXCEPT !.calls[s] = [kind |-> kind, token |-> u.token, then |-> then]]

StopPolling(u) ==
    [u EXCEPT !.timers = IF u.clockTimer THEN @ - 1 ELSE @, !.clockTimer = FALSE]

(* Slip: an interval that runs is forgotten.                               *)
StartPollingAgain(u) == [u EXCEPT !.timers = @ + 1, !.clockTimer = TRUE]

StartPolling(u) ==
    [StopPolling(u) EXCEPT !.timers = @ + 1, !.clockTimer = TRUE]

RequireLogin(u) ==
    StopPolling([u EXCEPT !.authenticated = FALSE, !.token = NoToken])

(* Slip: what a Pi showed before it was removed is kept.                   *)
SyncCardsKeeps(u) ==
    [u EXCEPT !.cards = [d \in Devices |-> IF d \notin u.pis THEN "none"
                                           ELSE IF @[d] = "none" THEN "connecting"
                                           ELSE @[d]]]

(* A card for each Pi of the list.  The history of a card, and the status  *)
(* it was drawn from (latestStatuses), go with it.                         *)
SyncCards(u) ==
    [u EXCEPT !.cards = [d \in Devices |-> IF d \notin u.pis THEN "none"
                                           ELSE IF @[d] = "none" THEN "connecting"
                                           ELSE @[d]],
              !.histories = [d \in Devices |-> IF d \notin u.pis /\ u.cards[d] # "none"
                                               THEN 0 ELSE @[d]]]

(* Slip: the oldest points are never dropped.                              *)
UpdateCardsUntrimmed(u, ds, online) ==
    [u EXCEPT !.cards = [d \in Devices |-> IF d \notin ds THEN @[d]
                                           ELSE IF d \in online THEN "online"
                                           ELSE "offline"],
              !.histories = [d \in Devices |-> IF d \in ds \cap online THEN @[d] + 1 ELSE @[d]]]

(* updateCard for each Pi of ds: online if the answer has a status of it,  *)
(* and then appendHistory, which drops the oldest of too many points.      *)
UpdateCards(u, ds, online) ==
    [u EXCEPT !.cards = [d \in Devices |-> IF d \notin ds THEN @[d]
                                           ELSE IF d \in online THEN "online"
                                           ELSE "offline"],
              !.histories = [d \in Devices |-> IF d \in ds \cap online
                                               THEN Min({@[d] + 1, MaxHistory}) ELSE @[d]]]

(* What follows the poll of a handler.                                     *)
AfterPoll(u, then) ==
    CASE then = "check" -> StartPolling(u)
      [] then = "login" -> [StartPolling(u) EXCEPT !.loginBusy = FALSE]
      [] OTHER -> u

(* pollStatuses up to its await, or to its end if there is nothing to ask. *)
PollStatuses(u, s, then) ==
    IF ~u.authenticated \/ u.updateInFlight \/ u.hidden \/ u.pis = {}
    THEN AfterPoll(u, then)
    ELSE Send([u EXCEPT !.updateInFlight = TRUE], s, "fleet", then)

(* Slip: the flag is cleared only on the way that shows something.         *)
FleetDoneEarly(u, ok, data) ==
    IF ok /\ ~u.authenticated THEN u
    ELSE [(IF ok THEN UpdateCards(u, u.pis, data) ELSE u) EXCEPT !.updateInFlight = FALSE]

(* The rest of pollStatuses: the cards of the list of now, each from the   *)
(* statuses that came, whichever list those were asked for.                *)
FleetDone(u, ok, data) ==
    LET shown == IF ok /\ u.authenticated THEN UpdateCards(u, u.pis, data) ELSE u
    IN  [shown EXCEPT !.updateInFlight = FALSE]

(* startDashboard up to its await: both requests of Promise.all.           *)
StartDashboard(u, then) ==
    LET listing == Send(u, Slot(u), "list", then)
    IN  Send(listing, Slot(listing), "config", then)

(* The other request of the Promise.all that c is one of.                  *)
Partner(u, c, kind) ==
    {s \in Out(u, kind) : c.then \in {"check", "login"}
                          /\ u.calls[s].then = c.then /\ u.calls[s].token = c.token}

(* Slip: a list that cannot be loaded is the end of it.                    *)
StartFailedQuietly(u, c) ==
    LET alone == [u EXCEPT !.calls = [s \in Slots |->
                      IF s \in Partner(u, c, "config") THEN [@[s] EXCEPT !.then = "none"] ELSE @[s]]]
    IN  IF c.then = "login" THEN [alone EXCEPT !.loginBusy = FALSE] ELSE alone

(* startDashboard, when loadPiList threw: nobody awaits the other request. *)
StartFailed(u, c) ==
    LET alone  == [u EXCEPT !.calls = [s \in Slots |->
                      IF s \in Partner(u, c, "config") THEN [@[s] EXCEPT !.then = "none"] ELSE @[s]]]
        ticks  == IF u.authenticated THEN StartPolling(alone) ELSE alone
    IN  IF c.then = "login" THEN [ticks EXCEPT !.loginBusy = FALSE] ELSE ticks

(* loadPiList, and what its caller does with the list or the error.        *)
ListDone(u, s, c, ok, data) ==
    LET shown == SyncCards([u EXCEPT !.pis = data])
    IN  IF ok THEN IF c.then = "none" \/ Partner(u, c, "config") # {} THEN shown
                   ELSE PollStatuses(shown, s, c.then)
        ELSE CASE c.then \in {"check", "login"} -> StartFailed(u, c)
               [] c.then = "delete" -> [u EXCEPT !.confirm = NoDevice]
               [] OTHER -> u

(* loadFanConfig, which catches its own errors, and what its caller does.  *)
ConfigDone(u, s, c) ==
    IF c.then = "none" \/ Partner(u, c, "list") # {} THEN u ELSE PollStatuses(u, s, c.then)

(* addPi                                                                   *)
AddDone(u, s, ok) == IF ok THEN Send(u, s, "list", "add") ELSE u

(* editPi                                                                  *)
EditDone(u, s, ok) == IF ok THEN Send(u, s, "list", "edit") ELSE u

(* Slip: the dialog of another Pi stays open.                              *)
DeleteDoneOpen(u, s, ok) ==
    IF ok THEN Send([u EXCEPT !.pendingDelete = NoDevice], s, "list", "delete")
    ELSE [u EXCEPT !.confirm = NoDevice]

(* deletePi closes its dialog, whichever Pi that names by now.             *)
DeleteDone(u, s, ok) ==
    IF ok THEN Send([u EXCEPT !.pendingDelete = NoDevice, !.confirm = NoDevice], s, "list", "delete")
    ELSE [u EXCEPT !.confirm = NoDevice]

(* verifySession                                                           *)
CheckDone(u, ok) ==
    IF ok THEN StartDashboard([u EXCEPT !.authenticated = TRUE], "check")
    ELSE RequireLogin(u)

(* Tokens the page has not seen: secrets.token_urlsafe repeats none.       *)
NewTokens == Tokens \ ({ui.token} \cup {ui.calls[s].token : s \in Slots})

(* handleLogin                                                             *)
LoginDone(u, ok) ==
    IF ok THEN StartDashboard([u EXCEPT !.authenticated = TRUE, !.token = Min(NewTokens)], "login")
    ELSE [u EXCEPT !.loginBusy = FALSE]

(* authFetch, after its await: 401 is an end of the session.               *)
AuthFetch(u, how) == IF how = "denied" THEN RequireLogin(u) ELSE u

(* The handler that awaits request s goes on with an answer or an error.   *)
Resume(s, how, data) ==
    LET c  == ui.calls[s]
        u  == AuthFetch(Done(ui, s), how)
        ok == how = "ok"
    IN  CASE c.kind = "login"  -> LoginDone(u, ok)
          [] c.kind = "check"  -> CheckDone(u, ok)
          [] c.kind = "logout" -> RequireLogin(u)
          [] c.kind = "list"   -> ListDone(u, s, c, ok, data)
          [] c.kind = "config" -> ConfigDone(u, s, c)
          [] c.kind = "save"   -> u
          [] c.kind = "fleet"  -> AfterPoll(FleetDone(u, ok, data), c.then)
          [] c.kind = "add"    -> AddDone(u, s, ok)
          [] c.kind = "edit"   -> EditDone(u, s, ok)
          [] c.kind = "delete" -> DeleteDone(u, s, ok)

-----------------------------------------------------------------------------
(* The page and its user.                                                  *)

(* A page that was just loaded with token t in its session storage.        *)
Loaded(t) ==
    LET u == [authenticated |-> FALSE, token |-> t, loginBusy |-> FALSE,
              timers |-> 0, clockTimer |-> FALSE, updateInFlight |-> FALSE, hidden |-> FALSE,
              pis |-> {}, cards |-> [d \in Devices |-> "none"],
              histories |-> [d \in Devices |-> 0],
              pendingDelete |-> NoDevice, confirm |-> NoDevice,
              calls |-> [s \in Slots |-> NoCall]]
    IN  IF t = NoToken THEN RequireLogin(u) ELSE Send(u, Slot(u), "check", "none")

Init == ui = Loaded(NoToken)

(* What the page has out is forgotten with it.                             *)
Reload == ui' = Loaded(ui.token)

(* The login dialog is open, and its button enabled.                       *)
SubmitLogin ==
    /\ ~ui.authenticated /\ ~ui.loginBusy /\ Out(ui, "check") = {}
    /\ Room(ui) /\ ui' = Send([ui EXCEPT !.loginBusy = TRUE], Slot(ui), "login", "none")

Logout ==
    /\ ui.authenticated /\ Out(ui, "logout") = {}
    /\ Room(ui) /\ ui' = Send(ui, Slot(ui), "logout", "none")

(* openPiManager                                                           *)
OpenPiManager ==
    /\ ui.authenticated /\ ui.confirm = NoDevice
    /\ Room(ui) /\ ui' = Send(ui, Slot(ui), "list", "none")

(* A handler whose button is disabled to its very end.                     *)
Busy(kind) == \E s \in Slots : ui.calls[s].kind = kind \/ ui.calls[s].then = kind

SubmitAdd ==
    /\ ui.authenticated /\ ui.confirm = NoDevice /\ ~Busy("add")
    /\ Room(ui) /\ ui' = Send(ui, Slot(ui), "add", "none")

(* editPi.  Any row may be the one that is drawn as a form; the form may   *)
(* be drawn anew, and so enabled, before the answer.                       *)
SubmitEdit ==
    /\ ui.authenticated /\ ui.confirm = NoDevice /\ ui.pis # {}
    /\ Room(ui) /\ ui' = Send(ui, Slot(ui), "edit", "none")

OpenFanSettings ==
    /\ ui.authenticated /\ ui.confirm = NoDevice
    /\ Room(ui) /\ ui' = Send(ui, Slot(ui), "config", "none")

(* saveFanConfig, for a form that validateFanConfig accepts.               *)
SaveFanConfig ==
    /\ ui.authenticated /\ ui.confirm = NoDevice /\ ~Busy("save")
    /\ Room(ui) /\ ui' = Send(ui, Slot(ui), "save", "none")

AskDelete ==
    /\ ui.authenticated /\ ui.confirm = NoDevice
    /\ \E d \in ui.pis : ui' = [ui EXCEPT !.pendingDelete = d, !.confirm = d]

CancelDelete ==
    /\ ui.authenticated /\ ui.confirm # NoDevice
    /\ ui' = [ui EXCEPT !.confirm = NoDevice]

(* deletePi: one at a time, its button is disabled to the very end.        *)
ConfirmDelete ==
    /\ ui.authenticated /\ ui.confirm # NoDevice
    /\ ~Busy("delete")
    /\ IF ui.pendingDelete = NoDevice
       THEN ui' = [ui EXCEPT !.confirm = NoDevice]
       ELSE Room(ui) /\ ui' = Send(ui, Slot(ui), "delete", "none")

Hide ==
    /\ ~ui.hidden /\ ui' = [ui EXCEPT !.hidden = TRUE]

(* visibilitychange                                                        *)
Show ==
    /\ ui.hidden
    /\ Room(ui) /\ ui' = PollStatuses([ui EXCEPT !.hidden = FALSE], Slot(ui), "none")

(* The tenth tick of an interval; the ones before only count.              *)
Tick ==
    /\ ui.timers > 0 /\ ui.authenticated /\ ~ui.hidden
    /\ Room(ui) /\ ui' = PollStatuses(ui, Slot(ui), "none")

-----------------------------------------------------------------------------
(* The server and the network.                                             *)

(* An answer that starts the dashboard.                                    *)
Starts(s, how) == how = "ok" /\ ui.calls[s].kind \in {"login", "check"}

(* An answer: what was asked for, 401, or another status.  A login has no  *)
(* token to refuse; any other request without one is refused.              *)
Deliver(s) ==
    LET c == ui.calls[s]
    IN  /\ c.kind # "none"
        /\ \E how \in {"ok", "denied", "refused"} :
              /\ how = "denied" => c.kind # "login"
              /\ c.token = NoToken => how = "denied" \/ c.kind = "login"
              /\ Starts(s, how) => Room(ui)
              /\ how = "ok" /\ c.kind = "login" => NewTokens # {}
              /\ \E data \in IF how = "ok" /\ c.kind \in {"list", "fleet"} THEN SUBSET Devices ELSE {{}} :
                    ui' = Resume(s, how, data)

Failed(s) == ui' = Resume(s, "failed", {})

(* A request or its answer is lost, and the browser says so.               *)
Lose(s) == ui.calls[s].kind \notin {"none", "fleet"} /\ Failed(s)

(* A status request is lost, or given up after STATUS_TIMEOUT_MS.          *)
Abort(s) == ui.calls[s].kind = "fleet" /\ Failed(s)

User ==
    \/ Reload \/ SubmitLogin \/ Logout \/ OpenPiManager \/ SubmitAdd \/ SubmitEdit
    \/ OpenFanSettings \/ SaveFanConfig \/ AskDelete \/ CancelDelete \/ ConfirmDelete \/ Hide \/ Show

Next ==
    \/ User \/ Tick
    \/ \E s \in Slots : Deliver(s) \/ Lose(s) \/ Abort(s)

Spec == Init /\ [][Next]_ui

(* No answer is sure to come: a status request that stays out is ended by  *)
(* its own timeout, any other one is given up by the browser.              *)
FairSpec == Spec /\ \A s \in Slots : WF_ui(Abort(s)) /\ WF_ui(Lose(s))

-----------------------------------------------------------------------------
(* Properties.                                                             *)

(* Only the requests of a start-up or a poll have one waiting for its end. *)
Calls ==
    {c \in [kind : {"none", "login", "check", "logout", "list", "config", "save", "fleet",
                    "add", "edit", "delete"},
            token : Tokens \cup {NoToken},
            then : {"none", "check", "login", "add", "edit", "delete"}] :
        /\ c.kind = "none" => c = NoCall
        /\ c.then \in {"check", "login"} => c.kind \in {"list", "config", "fleet"}}

Page ==
    [authenticated : BOOLEAN, token : Tokens \cup {NoToken}, loginBusy : BOOLEAN,
     timers : Nat, clockTimer : BOOLEAN, updateInFlight : BOOLEAN, hidden : BOOLEAN,
     pis : SUBSET Devices, cards : [Devices -> {"none", "connecting", "online", "offline"}],
     histories : [Devices -> 0 .. MaxHistory],
     pendingDelete : Devices \cup {NoDevice}, confirm : Devices \cup {NoDevice},
     calls : [Slots -> Calls]]

(* The types of the page.                                                  *)
TypeOK == ui \in Page

(* There is a card for each Pi of the list and no other, however late a    *)
(* status comes that was asked for another list; and a history, with the   *)
(* status it ends in, for each card that is or was online since it was     *)
(* made, none that a Pi left behind which had been removed.                *)
CardsAreList ==
    \A d \in Devices :
        /\ ui.cards[d] # "none" <=> d \in ui.pis
        /\ ui.histories[d] # 0 => ui.cards[d] \in {"online", "offline"}
        /\ ui.cards[d] = "online" => ui.histories[d] # 0

(* updateInFlight is set exactly while one status request is out: no       *)
(* second poll beside it, and none held up by one that ended.              *)
OnePoll ==
    /\ ui.updateInFlight <=> Out(ui, "fleet") # {}
    /\ \A s, t \in Out(ui, "fleet") : s = t

(* One interval at most ticks, the one clockTimer can stop - although a    *)
(* start-up that was overtaken by a logout starts it again later.          *)
OneTimer == ui.timers = IF ui.clockTimer THEN 1 ELSE 0

(* Confirming removes the Pi the dialog names, although answers to earlier *)
(* removals change pendingDelete while it is open.                         *)
ConfirmNamesTarget == ui.confirm # NoDevice => ui.pendingDelete = ui.confirm

(* Whoever waits for a start-up waits for a request that is out: the login *)
(* button is disabled only then, and a signed-in page without its interval *)
(* is one that will have it - whichever of the two requests of a start-up  *)
(* fails, and whoever signs out or in again in between.                    *)
StartUpOut ==
    /\ ui.loginBusy => Busy("login")
    /\ ui.authenticated /\ ~ui.clockTimer =>
          \E s \in Slots : ui.calls[s].then \in {"check", "login"}

IInv ==
    TypeOK /\ CardsAreList /\ OnePoll /\ OneTimer /\ ConfirmNamesTarget /\ StartUpOut

(* The next poll is not held up forever by a server that never answers.    *)
PollReleased == ui.updateInFlight ~> ~ui.updateInFlight

(* However a start-up ends, with answers, errors, a 401 or a logout in any *)
(* order, the page polls or can be signed in to again.                     *)
StartUpEnds ==
    (ui.loginBusy \/ (ui.authenticated /\ ~ui.clockTimer))
        ~> (~ui.loginBusy /\ (ui.clockTimer \/ ~ui.authenticated))
=============================================================================
