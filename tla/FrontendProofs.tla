--------------------------- MODULE FrontendProofs ---------------------------
(***************************************************************************)
(* Theorems about Frontend, for every set of Pis and every number of       *)
(* tokens, slots and points of a history, and about the rules of the forms *)
(* in PageForms.                                                           *)
(*                                                                         *)
(* The page is one record, and a handler is a composition of operators on  *)
(* it.  So the proof goes along the operators: the invariant is said of a  *)
(* page u instead of the variable ui, each Set lemma says what one         *)
(* assignment of the code changes and keeps, and each further lemma that   *)
(* an operator keeps the invariant, from those of the operators it is      *)
(* made of.  Two parts of it do not hold in the middle of a handler: the   *)
(* poll that was answered is out of its slot before its flag is cleared    *)
(* (Half is the rest), and the request that was answered is out of its     *)
(* slot before what waits for it goes on (Owed).                           *)
(***************************************************************************)
EXTENDS Frontend, PageForms, WellFoundedInduction, TLAPS

(* The parts of the invariant, of any page.                                *)
CardsMatch(u) ==
    \A d \in Devices :
        /\ u.cards[d] # "none" <=> d \in u.pis
        /\ u.histories[d] # 0 => u.cards[d] \in {"online", "offline"}
        /\ u.cards[d] = "online" => u.histories[d] # 0

PollMatches(u) ==
    /\ u.updateInFlight <=> Out(u, "fleet") # {}
    /\ \A s, t \in Out(u, "fleet") : s = t

TimerMatches(u) == u.timers = IF u.clockTimer THEN 1 ELSE 0

DialogMatches(u) == u.confirm # NoDevice => u.pendingDelete = u.confirm

(* All of it but the poll, which a handler puts right last.                *)
Half(u) == u \in Page /\ CardsMatch(u) /\ TimerMatches(u) /\ DialogMatches(u)

Good(u) == Half(u) /\ PollMatches(u)

Kinds == {"login", "check", "logout", "list", "config", "save", "fleet", "add", "edit", "delete"}
Thens == {"none", "check", "login", "add", "edit", "delete"}

(* What a handler may leave as it was.                                     *)
SameShown(v, u)  == v.pis = u.pis /\ v.cards = u.cards /\ v.histories = u.histories
SameTimer(v, u)  == v.timers = u.timers /\ v.clockTimer = u.clockTimer
SameDialog(v, u) == v.pendingDelete = u.pendingDelete /\ v.confirm = u.confirm
SamePoll(v, u)   == v.calls = u.calls /\ v.updateInFlight = u.updateInFlight
SameLogin(v, u)  ==
    v.authenticated = u.authenticated /\ v.token = u.token /\ v.loginBusy = u.loginBusy

(* The poll depends on the requests and the flag only.                     *)
LEMMA PollKept ==
    ASSUME NEW u, NEW v, PollMatches(u), SamePoll(v, u)
    PROVE  PollMatches(v)
    BY DEF PollMatches, SamePoll, Out

(* A set of numbers has a least one.                                       *)
LEMMA LeastNumber ==
    ASSUME NEW S \in SUBSET Nat, S # {}
    PROVE  \E n \in S : \A m \in S : n <= m
<1> DEFINE R == OpToRel(<, Nat)
<1>1. IsWellFoundedOn(R, Nat)
    BY NatLessThanWellFounded
<1>2. \A x, y \in Nat : x < y => <<x, y>> \in R
    BY DEF OpToRel
<1> HIDE DEF R
<1>3. \E n \in S : \A m \in S : ~(<<m, n>> \in R)
    BY <1>1, WFMin
<1>4. PICK n \in S : \A m \in S : ~(<<m, n>> \in R)
    BY <1>3
<1>5. \A m \in S : ~(m < n)
    BY <1>2, <1>4
<1>6. \A m \in S : n <= m
    BY <1>5
<1> QED
    BY <1>6

(* The slot a request is put into is a free one.                           *)
LEMMA SlotIsFree ==
    ASSUME NEW u, Room(u)
    PROVE  Slot(u) \in Slots /\ u.calls[Slot(u)].kind = "none"
<1>1. Out(u, "none") # {} /\ Out(u, "none") \in SUBSET Nat
    BY BoundsAssumption DEF Room, Out, Slots
<1>2. \E n \in Out(u, "none") : \A m \in Out(u, "none") : n <= m
    BY <1>1, LeastNumber
<1>3. Slot(u) \in Out(u, "none")
    BY <1>2 DEF Slot, Min
<1> QED
    BY <1>3 DEF Out

(* What the code assigns together.  As operators, so that a lemma about    *)
(* one can be cited.                                                       *)
WithTimer(u, b) == [u EXCEPT !.timers = IF b THEN 1 ELSE 0, !.clockTimer = b]

(* The timer, which the page knows of.                                     *)
LEMMA SetTimer ==
    ASSUME NEW u \in Page, NEW b \in BOOLEAN, NEW v, v = WithTimer(u, b)
    PROVE  /\ v \in Page /\ v.clockTimer = b /\ TimerMatches(v)
           /\ SameShown(v, u) /\ SameDialog(v, u) /\ SamePoll(v, u) /\ SameLogin(v, u)
<1> DEFINE n == IF b THEN 1 ELSE 0
<1>1. n \in Nat
    OBVIOUS
<1>2. v = [u EXCEPT !.timers = n, !.clockTimer = b]
    BY DEF WithTimer
<1> HIDE DEF n
<1>3. [u EXCEPT !.timers = n, !.clockTimer = b] \in Page
    BY <1>1 DEF Page
<1>4. v.clockTimer = b /\ v.timers = n
    BY <1>2 DEF Page
<1>5. SameShown(v, u) /\ SameDialog(v, u) /\ SamePoll(v, u) /\ SameLogin(v, u)
    BY <1>2 DEF Page, SameShown, SameDialog, SamePoll, SameLogin
<1> QED
    BY <1>2, <1>3, <1>4, <1>5 DEF TimerMatches, n

WithSession(u, b, t) == [u EXCEPT !.authenticated = b, !.token = t]

(* The page after a sign-in or the end of its session.                     *)
LEMMA SetSession ==
    ASSUME NEW u \in Page, NEW b \in BOOLEAN, NEW t \in Tokens \cup {NoToken},
           NEW v, v = WithSession(u, b, t)
    PROVE  /\ v \in Page /\ v.authenticated = b /\ v.token = t
           /\ SameShown(v, u) /\ SameTimer(v, u) /\ SameDialog(v, u) /\ SamePoll(v, u)
<1>1. [u EXCEPT !.authenticated = b, !.token = t] \in Page
    BY DEF Page
<1>2. v \in Page
    BY <1>1 DEF WithSession
<1>3. v.authenticated = b /\ v.token = t
    BY DEF Page, WithSession
<1>4. SameShown(v, u) /\ SameTimer(v, u) /\ SameDialog(v, u) /\ SamePoll(v, u)
    BY DEF Page, WithSession, SameShown, SameTimer, SameDialog, SamePoll
<1> QED
    BY <1>2, <1>3, <1>4

(* The login button.                                                       *)
LEMMA SetBusy ==
    ASSUME NEW u \in Page, NEW b \in BOOLEAN,
           NEW v, v = [u EXCEPT !.loginBusy = b]
    PROVE  /\ v \in Page /\ v.loginBusy = b
           /\ SameShown(v, u) /\ SameTimer(v, u) /\ SameDialog(v, u) /\ SamePoll(v, u)
           /\ v.authenticated = u.authenticated /\ v.token = u.token
<1>1. [u EXCEPT !.loginBusy = b] \in Page
    BY DEF Page
<1>2. v \in Page
    BY <1>1
<1>3. v.loginBusy = b
    BY DEF Page
<1>4. SameShown(v, u) /\ SameTimer(v, u) /\ SameDialog(v, u) /\ SamePoll(v, u)
    BY DEF Page, SameShown, SameTimer, SameDialog, SamePoll
<1>5. v.authenticated = u.authenticated /\ v.token = u.token
    BY DEF Page
<1> QED
    BY <1>2, <1>3, <1>4, <1>5

(* The page after the token it was loaded with was accepted.               *)
LEMMA SetSignedIn ==
    ASSUME NEW u \in Page, NEW b \in BOOLEAN,
           NEW v, v = [u EXCEPT !.authenticated = b]
    PROVE  /\ v \in Page /\ v.authenticated = b
           /\ SameShown(v, u) /\ SameTimer(v, u) /\ SameDialog(v, u) /\ SamePoll(v, u)
           /\ v.token = u.token /\ v.loginBusy = u.loginBusy
<1>1. [u EXCEPT !.authenticated = b] \in Page
    BY DEF Page
<1>2. v \in Page
    BY <1>1
<1>3. v.authenticated = b
    BY DEF Page
<1>4. SameShown(v, u) /\ SameTimer(v, u) /\ SameDialog(v, u) /\ SamePoll(v, u)
    BY DEF Page, SameShown, SameTimer, SameDialog, SamePoll
<1>5. v.token = u.token /\ v.loginBusy = u.loginBusy
    BY DEF Page
<1> QED
    BY <1>2, <1>3, <1>4, <1>5

(* The visibility of the tab.                                              *)
LEMMA SetHidden ==
    ASSUME NEW u \in Page, NEW b \in BOOLEAN,
           NEW v, v = [u EXCEPT !.hidden = b]
    PROVE  /\ v \in Page /\ v.hidden = b
           /\ SameShown(v, u) /\ SameTimer(v, u) /\ SameDialog(v, u)
           /\ SamePoll(v, u) /\ SameLogin(v, u)
<1>1. [u EXCEPT !.hidden = b] \in Page
    BY DEF Page
<1>2. v \in Page
    BY <1>1
<1>3. v.hidden = b
    BY DEF Page
<1>4. SameShown(v, u) /\ SameTimer(v, u) /\ SameDialog(v, u) /\ SamePoll(v, u) /\ SameLogin(v, u)
    BY DEF Page, SameShown, SameTimer, SameDialog, SamePoll, SameLogin
<1> QED
    BY <1>2, <1>3, <1>4

(* The flag of the poll.                                                   *)
LEMMA SetFlight ==
    ASSUME NEW u \in Page, NEW b \in BOOLEAN,
           NEW v, v = [u EXCEPT !.updateInFlight = b]
    PROVE  /\ v \in Page /\ v.updateInFlight = b
           /\ SameShown(v, u) /\ SameTimer(v, u) /\ SameDialog(v, u) /\ SameLogin(v, u)
           /\ v.calls = u.calls
<1>1. [u EXCEPT !.updateInFlight = b] \in Page
    BY DEF Page
<1>2. v \in Page
    BY <1>1
<1>3. v.updateInFlight = b
    BY DEF Page
<1>4. SameShown(v, u) /\ SameTimer(v, u) /\ SameDialog(v, u) /\ SameLogin(v, u)
    BY DEF Page, SameShown, SameTimer, SameDialog, SameLogin
<1>5. v.calls = u.calls
    BY DEF Page
<1> QED
    BY <1>2, <1>3, <1>4, <1>5

(* The requests that are out.                                              *)
LEMMA SetCalls ==
    ASSUME NEW u \in Page, NEW cs \in [Slots -> Calls],
           NEW v, v = [u EXCEPT !.calls = cs]
    PROVE  /\ v \in Page /\ v.calls = cs
           /\ SameShown(v, u) /\ SameTimer(v, u) /\ SameDialog(v, u) /\ SameLogin(v, u)
           /\ v.updateInFlight = u.updateInFlight
<1>1. [u EXCEPT !.calls = cs] \in Page
    BY DEF Page
<1>2. v \in Page
    BY <1>1
<1>3. v.calls = cs
    BY DEF Page
<1>4. SameShown(v, u) /\ SameTimer(v, u) /\ SameDialog(v, u) /\ SameLogin(v, u)
    BY DEF Page, SameShown, SameTimer, SameDialog, SameLogin
<1>5. v.updateInFlight = u.updateInFlight
    BY DEF Page
<1> QED
    BY <1>2, <1>3, <1>4, <1>5

(* The list.                                                               *)
LEMMA SetPis ==
    ASSUME NEW u \in Page, NEW ds \in SUBSET Devices,
           NEW v, v = [u EXCEPT !.pis = ds]
    PROVE  /\ v \in Page /\ v.pis = ds
           /\ SameTimer(v, u) /\ SameDialog(v, u) /\ SamePoll(v, u) /\ SameLogin(v, u)
           /\ v.cards = u.cards /\ v.histories = u.histories
<1>1. [u EXCEPT !.pis = ds] \in Page
    BY DEF Page
<1>2. v \in Page
    BY <1>1
<1>3. v.pis = ds
    BY DEF Page
<1>4. SameTimer(v, u) /\ SameDialog(v, u) /\ SamePoll(v, u) /\ SameLogin(v, u)
    BY DEF Page, SameTimer, SameDialog, SamePoll, SameLogin
<1>5. v.cards = u.cards /\ v.histories = u.histories
    BY DEF Page
<1> QED
    BY <1>2, <1>3, <1>4, <1>5

WithCards(u, cs, hs) == [u EXCEPT !.cards = cs, !.histories = hs]

(* The cards, and what was shown on them.                                  *)
LEMMA SetCards ==
    ASSUME NEW u \in Page,
           NEW cs \in [Devices -> {"none", "connecting", "online", "offline"}],
           NEW hs \in [Devices -> 0 .. MaxHistory],
           NEW v, v = WithCards(u, cs, hs)
    PROVE  /\ v \in Page /\ v.cards = cs /\ v.histories = hs
           /\ SameTimer(v, u) /\ SameDialog(v, u) /\ SamePoll(v, u) /\ SameLogin(v, u)
           /\ v.pis = u.pis
<1>1. [u EXCEPT !.cards = cs, !.histories = hs] \in Page
    BY DEF Page
<1>2. v \in Page
    BY <1>1 DEF WithCards
<1>3. v.cards = cs /\ v.histories = hs
    BY DEF Page, WithCards
<1>4. SameTimer(v, u) /\ SameDialog(v, u) /\ SamePoll(v, u) /\ SameLogin(v, u)
    BY DEF Page, WithCards, SameTimer, SameDialog, SamePoll, SameLogin
<1>5. v.pis = u.pis
    BY DEF Page, WithCards
<1> QED
    BY <1>2, <1>3, <1>4, <1>5

WithDialog(u, d, e) == [u EXCEPT !.pendingDelete = d, !.confirm = e]

(* The removal dialog, and the Pi it is for.                               *)
LEMMA SetDialog ==
    ASSUME NEW u \in Page, NEW d \in Devices \cup {NoDevice}, NEW e \in Devices \cup {NoDevice},
           NEW v, v = WithDialog(u, d, e)
    PROVE  /\ v \in Page /\ v.pendingDelete = d /\ v.confirm = e
           /\ SameShown(v, u) /\ SameTimer(v, u) /\ SamePoll(v, u) /\ SameLogin(v, u)
<1>1. [u EXCEPT !.pendingDelete = d, !.confirm = e] \in Page
    BY DEF Page
<1>2. v \in Page
    BY <1>1 DEF WithDialog
<1>3. v.pendingDelete = d /\ v.confirm = e
    BY DEF Page, WithDialog
<1>4. SameShown(v, u) /\ SameTimer(v, u) /\ SamePoll(v, u) /\ SameLogin(v, u)
    BY DEF Page, WithDialog, SameShown, SameTimer, SamePoll, SameLogin
<1> QED
    BY <1>2, <1>3, <1>4

(* The removal dialog.                                                     *)
LEMMA SetConfirm ==
    ASSUME NEW u \in Page, NEW e \in Devices \cup {NoDevice},
           NEW v, v = [u EXCEPT !.confirm = e]
    PROVE  /\ v \in Page /\ v.confirm = e
           /\ SameShown(v, u) /\ SameTimer(v, u) /\ SamePoll(v, u) /\ SameLogin(v, u)
           /\ v.pendingDelete = u.pendingDelete
<1>1. [u EXCEPT !.confirm = e] \in Page
    BY DEF Page
<1>2. v \in Page
    BY <1>1
<1>3. v.confirm = e
    BY DEF Page
<1>4. SameShown(v, u) /\ SameTimer(v, u) /\ SamePoll(v, u) /\ SameLogin(v, u)
    BY DEF Page, SameShown, SameTimer, SamePoll, SameLogin
<1>5. v.pendingDelete = u.pendingDelete
    BY DEF Page
<1> QED
    BY <1>2, <1>3, <1>4, <1>5

(* What is shown, the timer and the dialog are all that Half is about.     *)
LEMMA HalfKept ==
    ASSUME NEW u, NEW v \in Page, Half(u), SameShown(v, u), SameTimer(v, u), SameDialog(v, u)
    PROVE  Half(v)
    BY DEF Half, CardsMatch, TimerMatches, DialogMatches, SameShown, SameTimer, SameDialog

(* What a handler does to its timer, its session and its cards.            *)
LEMMA Constants ==
    /\ 0 \in Nat /\ 1 \in Nat /\ TRUE \in BOOLEAN /\ FALSE \in BOOLEAN
    /\ NoToken \in Tokens \cup {NoToken} /\ NoDevice \in Devices \cup {NoDevice}
    OBVIOUS

(* stopPolling leaves no interval behind.                                  *)
LEMMA StopPollingHalf ==
    ASSUME NEW u, Half(u), NEW v, v = StopPolling(u)
    PROVE  /\ Half(v) /\ SamePoll(v, u) /\ v.clockTimer = FALSE
           /\ SameLogin(v, u)
<1>1. u \in Page /\ (IF u.clockTimer THEN u.timers - 1 ELSE u.timers) = 0
    BY DEF Half, TimerMatches, Page
<1>2. v = WithTimer(u, FALSE)
    BY <1>1 DEF StopPolling, WithTimer
<1>3. u \in Page
    BY <1>1
<1>4. /\ v \in Page /\ v.clockTimer = FALSE /\ TimerMatches(v)
      /\ SameShown(v, u) /\ SameDialog(v, u) /\ SamePoll(v, u)
      /\ SameLogin(v, u)
    BY <1>2, <1>3, SetTimer
<1> QED
    BY <1>4 DEF Half, CardsMatch, DialogMatches, SameShown, SameDialog

(* startPolling stops the interval that ticks before it starts one.        *)
LEMMA StartPollingHalf ==
    ASSUME NEW u, Half(u), NEW v, v = StartPolling(u)
    PROVE  Half(v) /\ SamePoll(v, u) /\ SameLogin(v, u) /\ v.clockTimer = TRUE
<1> DEFINE w == StopPolling(u)
<1>1. /\ Half(w) /\ SamePoll(w, u) /\ w.clockTimer = FALSE /\ SameLogin(w, u)
    BY StopPollingHalf
<1>2. v = [w EXCEPT !.timers = @ + 1, !.clockTimer = TRUE]
    BY DEF StartPolling
<1> HIDE DEF w
<1>3. w \in Page
    BY <1>1 DEF Half
<1>4. w.timers = 0
    BY <1>1 DEF Half, TimerMatches
<1>5. v = WithTimer(w, TRUE)
    BY <1>2, <1>4 DEF WithTimer
<1>6. /\ v \in Page /\ v.clockTimer = TRUE /\ TimerMatches(v)
      /\ SameShown(v, w) /\ SameDialog(v, w) /\ SamePoll(v, w)
      /\ SameLogin(v, w)
    BY <1>3, <1>5, SetTimer
<1>7. Half(v)
    BY <1>1, <1>6 DEF Half, CardsMatch, DialogMatches, SameShown, SameDialog
<1> QED
    BY <1>1, <1>6, <1>7 DEF SamePoll, SameLogin

(* However a session ends, its interval ends with it.                      *)
LEMMA RequireLoginHalf ==
    ASSUME NEW u, Half(u), NEW v, v = RequireLogin(u)
    PROVE  Half(v) /\ SamePoll(v, u) /\ v.authenticated = FALSE /\ v.loginBusy = u.loginBusy
<1> DEFINE w == WithSession(u, FALSE, NoToken)
<1>1. u \in Page
    BY DEF Half
<1>2. w = WithSession(u, FALSE, NoToken) /\ v = StopPolling(w)
    BY DEF RequireLogin, WithSession
<1> HIDE DEF w
<1>3. /\ w \in Page /\ w.authenticated = FALSE /\ w.loginBusy = u.loginBusy
      /\ SameShown(w, u) /\ SameTimer(w, u) /\ SameDialog(w, u) /\ SamePoll(w, u)
    <2>1. /\ w \in Page /\ w.authenticated = FALSE
          /\ SameShown(w, u) /\ SameTimer(w, u) /\ SameDialog(w, u) /\ SamePoll(w, u)
        BY <1>1, <1>2, Constants, SetSession
    <2>2. w.loginBusy = u.loginBusy
        BY <1>1, <1>2 DEF Page, WithSession
    <2> QED
        BY <2>1, <2>2
<1>4. Half(w)
    BY <1>3, HalfKept
<1>5. Half(v) /\ SamePoll(v, w) /\ SameLogin(v, w)
    BY <1>2, <1>4, StopPollingHalf
<1> QED
    BY <1>3, <1>5 DEF SamePoll, SameLogin

(* A 401 ends the session, any other answer leaves it.                     *)
LEMMA AuthFetchHalf ==
    ASSUME NEW u, Half(u), NEW how, NEW v, v = AuthFetch(u, how)
    PROVE  Half(v) /\ SamePoll(v, u)
<1>1. CASE how = "denied"
    BY <1>1, RequireLoginHalf DEF AuthFetch
<1>2. CASE how # "denied"
    BY <1>2 DEF AuthFetch, SamePoll
<1> QED
    BY <1>1, <1>2

(* A list that was loaded: cards for its Pis, and no history without one.  *)
LEMMA SyncCardsHalf ==
    ASSUME NEW u, Half(u), NEW ds \in SUBSET Devices,
           NEW v, v = SyncCards([u EXCEPT !.pis = ds])
    PROVE  Half(v) /\ SamePoll(v, u) /\ SameLogin(v, u) /\ SameTimer(v, u)
<1> DEFINE w == [u EXCEPT !.pis = ds]
           cs == [d \in Devices |-> IF d \notin ds THEN "none"
                                    ELSE IF u.cards[d] = "none" THEN "connecting"
                                    ELSE u.cards[d]]
           hs == [d \in Devices |-> IF d \notin ds /\ u.cards[d] # "none"
                                    THEN 0 ELSE u.histories[d]]
<1>1. u \in Page /\ CardsMatch(u)
    BY DEF Half
<1>2. /\ w \in Page /\ w.pis = ds /\ w.cards = u.cards /\ w.histories = u.histories
      /\ SameTimer(w, u) /\ SameDialog(w, u) /\ SamePoll(w, u)
      /\ SameLogin(w, u)
    BY <1>1, SetPis
<1>3. v = SyncCards(w)
    OBVIOUS
<1> HIDE DEF w
<1>4. v = WithCards(w, cs, hs)
    BY <1>2, <1>3 DEF SyncCards, WithCards
<1>5. /\ u.cards \in [Devices -> {"none", "connecting", "online", "offline"}]
      /\ u.histories \in [Devices -> 0 .. MaxHistory] /\ 0 \in 0 .. MaxHistory
    BY <1>1, HistoryAssumption DEF Page
<1>6. /\ cs \in [Devices -> {"none", "connecting", "online", "offline"}]
      /\ hs \in [Devices -> 0 .. MaxHistory]
    BY <1>5
<1>7. \A d \in Devices :
         /\ cs[d] # "none" <=> d \in ds
         /\ hs[d] # 0 => cs[d] \in {"online", "offline"}
         /\ cs[d] = "online" => hs[d] # 0
    BY <1>1, <1>5 DEF CardsMatch
<1> HIDE DEF cs, hs
<1>8. /\ v \in Page /\ v.cards = cs /\ v.histories = hs /\ v.pis = w.pis
      /\ SameTimer(v, w) /\ SameDialog(v, w) /\ SamePoll(v, w)
      /\ SameLogin(v, w)
    BY <1>2, <1>4, <1>6, SetCards
<1>9. CardsMatch(v)
    BY <1>2, <1>7, <1>8 DEF CardsMatch
<1>10. SamePoll(v, u) /\ SameLogin(v, u) /\ SameTimer(v, u)
    BY <1>2, <1>8 DEF SameTimer, SamePoll, SameLogin
<1>11. TimerMatches(v) /\ DialogMatches(v)
    BY <1>2, <1>8 DEF Half, TimerMatches, DialogMatches, SameTimer, SameDialog
<1> QED
    BY <1>8, <1>9, <1>10, <1>11 DEF Half

(* A poll that was answered: every card of the list shows it.              *)
LEMMA UpdateCardsHalf ==
    ASSUME NEW u, Half(u), NEW online, NEW v, v = UpdateCards(u, u.pis, online)
    PROVE  Half(v) /\ SamePoll(v, u) /\ SameLogin(v, u) /\ SameTimer(v, u)
<1> DEFINE cs == [d \in Devices |-> IF d \notin u.pis THEN u.cards[d]
                                    ELSE IF d \in online THEN "online" ELSE "offline"]
           hs == [d \in Devices |-> IF d \in u.pis \cap online
                                    THEN Min({u.histories[d] + 1, MaxHistory})
                                    ELSE u.histories[d]]
<1>1. u \in Page /\ CardsMatch(u)
    BY DEF Half
<1>2. v = WithCards(u, cs, hs)
    BY DEF UpdateCards, WithCards
<1>3. /\ u.cards \in [Devices -> {"none", "connecting", "online", "offline"}]
      /\ u.histories \in [Devices -> 0 .. MaxHistory]
    BY <1>1 DEF Page
<1>4. \A d \in Devices : Min({u.histories[d] + 1, MaxHistory}) \in 1 .. MaxHistory
    <2> SUFFICES ASSUME NEW d \in Devices
                 PROVE  Min({u.histories[d] + 1, MaxHistory}) \in 1 .. MaxHistory
        OBVIOUS
    <2> DEFINE h == u.histories[d] + 1
    <2>1. h \in Nat /\ h >= 1 /\ MaxHistory \in Nat /\ MaxHistory >= 1
        BY <1>3, HistoryAssumption
    <2> HIDE DEF h
    <2>2. \E x \in {h, MaxHistory} : \A y \in {h, MaxHistory} : x <= y
        BY <2>1
    <2>3. Min({h, MaxHistory}) \in {h, MaxHistory} /\ Min({h, MaxHistory}) <= MaxHistory
        BY <2>2 DEF Min
    <2>4. Min({h, MaxHistory}) \in 1 .. MaxHistory
        BY <2>1, <2>3
    <2> QED
        BY <2>4 DEF h
<1>5. cs \in [Devices -> {"none", "connecting", "online", "offline"}]
    BY <1>3
<1>6. hs \in [Devices -> 0 .. MaxHistory]
    <2>1. \A d \in Devices : hs[d] \in 0 .. MaxHistory
        BY <1>3, <1>4, HistoryAssumption
    <2> QED
        BY <2>1
<1>7. \A d \in Devices :
         /\ cs[d] # "none" <=> d \in u.pis
         /\ hs[d] # 0 => cs[d] \in {"online", "offline"}
         /\ cs[d] = "online" => hs[d] # 0
    <2> SUFFICES ASSUME NEW d \in Devices
                 PROVE  /\ cs[d] # "none" <=> d \in u.pis
                        /\ hs[d] # 0 => cs[d] \in {"online", "offline"}
                        /\ cs[d] = "online" => hs[d] # 0
        OBVIOUS
    <2>1. CASE d \notin u.pis
        BY <2>1, <1>1 DEF CardsMatch
    <2>2. CASE d \in u.pis /\ d \in online
        <3>1. cs[d] = "online" /\ hs[d] \in 1 .. MaxHistory
            BY <2>2, <1>4
        <3> HIDE DEF cs, hs
        <3> QED
            BY <3>1, <2>2, HistoryAssumption
    <2>3. CASE d \in u.pis /\ d \notin online
        BY <2>3, <1>1 DEF CardsMatch
    <2> QED
        BY <2>1, <2>2, <2>3
<1> HIDE DEF cs, hs
<1>8. /\ v \in Page /\ v.cards = cs /\ v.histories = hs /\ v.pis = u.pis
      /\ SameTimer(v, u) /\ SameDialog(v, u) /\ SamePoll(v, u)
      /\ SameLogin(v, u)
    BY <1>1, <1>2, <1>5, <1>6, SetCards
<1>9. CardsMatch(v)
    BY <1>7, <1>8 DEF CardsMatch
<1>10. TimerMatches(v) /\ DialogMatches(v)
    BY <1>8 DEF Half, TimerMatches, DialogMatches, SameTimer, SameDialog
<1> QED
    BY <1>8, <1>9, <1>10 DEF Half

-----------------------------------------------------------------------------
(* What a handler does to the requests that are out.                       *)

(* A handler that sends nothing and ends nothing keeps the poll.           *)
LEMMA GoodKept ==
    ASSUME NEW u, Good(u), NEW v, Half(v), SamePoll(v, u)
    PROVE  Good(v)
    BY PollKept DEF Good

WithCall(u, s, c) == [u EXCEPT !.calls[s] = c]

(* One request put into a slot, or taken out of it.                        *)
LEMMA CallPut ==
    ASSUME NEW u, Half(u), NEW s \in Slots, NEW c \in Calls,
           NEW v, v = WithCall(u, s, c)
    PROVE  /\ Half(v) /\ v.calls[s] = c
           /\ \A t \in Slots : t # s => v.calls[t] = u.calls[t]
           /\ v.updateInFlight = u.updateInFlight /\ SameLogin(v, u) /\ SameTimer(v, u)
<1> DEFINE cs == [u.calls EXCEPT ![s] = c]
<1>1. u \in Page /\ u.calls \in [Slots -> Calls]
    BY DEF Half, Page
<1>2. v = [u EXCEPT !.calls = cs]
    BY <1>1 DEF Page, WithCall
<1>3. /\ cs \in [Slots -> Calls] /\ cs[s] = c
      /\ \A t \in Slots : t # s => cs[t] = u.calls[t]
    BY <1>1
<1> HIDE DEF cs
<1>4. /\ v \in Page /\ v.calls = cs
      /\ SameShown(v, u) /\ SameTimer(v, u) /\ SameDialog(v, u)
      /\ v.updateInFlight = u.updateInFlight /\ SameLogin(v, u)
    BY <1>1, <1>2, <1>3, SetCalls
<1>5. Half(v)
    BY <1>4, HalfKept
<1> QED
    BY <1>3, <1>4, <1>5 DEF cs

(* Only a start-up or a poll has one waiting for it.                       *)
Awaits(kind, then) == then \in {"check", "login"} => kind \in {"list", "config", "fleet"}

(* A request that is sent is one of Calls.                                 *)
LEMMA SentIsCall ==
    ASSUME NEW u \in Page, NEW kind \in Kinds, NEW then \in Thens, Awaits(kind, then)
    PROVE  [kind |-> kind, token |-> u.token, then |-> then] \in Calls
    BY DEF Page, Calls, Kinds, Thens, Awaits

(* Sending puts one request into a slot and changes nothing else.          *)
LEMMA Sent ==
    ASSUME NEW u, Half(u), NEW s \in Slots,
           NEW kind \in Kinds, NEW then \in Thens, Awaits(kind, then),
           NEW v, v = Send(u, s, kind, then)
    PROVE  /\ Half(v) /\ v.calls[s].kind = kind /\ v.calls[s].then = then
           /\ \A t \in Slots : t # s => v.calls[t] = u.calls[t]
           /\ v.updateInFlight = u.updateInFlight /\ SameLogin(v, u) /\ SameTimer(v, u)
<1> DEFINE c == [kind |-> kind, token |-> u.token, then |-> then]
<1>1. c \in Calls /\ c.kind = kind /\ c.then = then
    BY SentIsCall DEF Half
<1>2. v = WithCall(u, s, c)
    BY DEF Send, WithCall
<1> HIDE DEF c
<1>3. /\ Half(v) /\ v.calls[s] = c
      /\ \A t \in Slots : t # s => v.calls[t] = u.calls[t]
      /\ v.updateInFlight = u.updateInFlight /\ SameLogin(v, u) /\ SameTimer(v, u)
    BY <1>1, <1>2, CallPut
<1> QED
    BY <1>1, <1>3

(* Any request but a poll leaves the poll alone.                           *)
LEMMA SendGood ==
    ASSUME NEW u, Good(u), NEW s \in Slots, u.calls[s].kind # "fleet",
           NEW kind \in Kinds \ {"fleet"}, NEW then \in Thens, Awaits(kind, then),
           NEW v, v = Send(u, s, kind, then)
    PROVE  Good(v)
<1>1. /\ Half(v) /\ v.calls[s].kind = kind /\ v.updateInFlight = u.updateInFlight
      /\ \A t \in Slots : t # s => v.calls[t] = u.calls[t]
    BY Sent DEF Good
<1>2. \A t \in Slots : v.calls[t].kind = "fleet" <=> u.calls[t].kind = "fleet"
    BY <1>1
<1>3. Out(v, "fleet") = Out(u, "fleet")
    BY <1>2 DEF Out
<1> QED
    BY <1>1, <1>3 DEF Good, PollMatches

(* A status request starts when no other one is out.                       *)
LEMMA FleetGood ==
    ASSUME NEW u, Half(u), u.updateInFlight = TRUE, Out(u, "fleet") = {},
           NEW s \in Slots, NEW then \in Thens, NEW v, v = Send(u, s, "fleet", then)
    PROVE  Good(v)
<1>1. "fleet" \in Kinds /\ Awaits("fleet", then)
    BY DEF Kinds, Awaits
<1>2. /\ Half(v) /\ v.calls[s].kind = "fleet" /\ v.updateInFlight = u.updateInFlight
      /\ \A t \in Slots : t # s => v.calls[t] = u.calls[t]
    BY <1>1, Sent
<1>3. \A t \in Slots : u.calls[t].kind # "fleet"
    BY DEF Out
<1>4. Out(v, "fleet") = {s}
    BY <1>2, <1>3 DEF Out
<1> QED
    BY <1>2, <1>4 DEF Good, PollMatches

(* A free slot is one of Calls.                                            *)
LEMMA NoCallIsCall == NoCall \in Calls /\ NoCall.kind = "none" /\ NoCall.then = "none"
    BY DEF NoCall, Calls

(* An answer takes its request out of the slot.                            *)
LEMMA DoneHalf ==
    ASSUME NEW u, Half(u), NEW s \in Slots, NEW v, v = Done(u, s)
    PROVE  /\ Half(v) /\ v.calls[s].kind = "none"
           /\ \A t \in Slots : t # s => v.calls[t] = u.calls[t]
           /\ v.updateInFlight = u.updateInFlight /\ SameLogin(v, u) /\ SameTimer(v, u)
<1>1. v = WithCall(u, s, NoCall)
    BY DEF Done, WithCall
<1> QED
    BY <1>1, NoCallIsCall, CallPut

(* A request that is answered leaves the poll as it is, unless it was it.  *)
LEMMA DoneGood ==
    ASSUME NEW u, Good(u), NEW s \in Slots, u.calls[s].kind # "fleet",
           NEW v, v = Done(u, s)
    PROVE  Good(v)
<1>1. /\ Half(v) /\ v.calls[s].kind = "none" /\ v.updateInFlight = u.updateInFlight
      /\ \A t \in Slots : t # s => v.calls[t] = u.calls[t]
    BY DoneHalf DEF Good
<1>2. \A t \in Slots : v.calls[t].kind = "fleet" <=> u.calls[t].kind = "fleet"
    BY <1>1
<1>3. Out(v, "fleet") = Out(u, "fleet")
    BY <1>2 DEF Out
<1> QED
    BY <1>1, <1>3 DEF Good, PollMatches

(* The status request that is answered was the only one.                   *)
LEMMA DoneFleet ==
    ASSUME NEW u, Good(u), NEW s \in Slots, u.calls[s].kind = "fleet",
           NEW v, v = Done(u, s)
    PROVE  Half(v) /\ Out(v, "fleet") = {}
<1>1. /\ Half(v) /\ v.calls[s].kind = "none"
      /\ \A t \in Slots : t # s => v.calls[t] = u.calls[t]
    BY DoneHalf DEF Good
<1>2. \A t \in Slots : u.calls[t].kind = "fleet" => t = s
    BY DEF Good, PollMatches, Out
<1>3. \A t \in Slots : v.calls[t].kind # "fleet"
    BY <1>1, <1>2
<1> QED
    BY <1>1, <1>3 DEF Out

(* However the status request ended, its flag is cleared.                  *)
LEMMA FleetDoneGood ==
    ASSUME NEW u, Half(u), Out(u, "fleet") = {}, NEW ok \in BOOLEAN, NEW data,
           NEW v, v = FleetDone(u, ok, data)
    PROVE  Good(v) /\ v.calls = u.calls /\ SameLogin(v, u) /\ SameTimer(v, u)
<1> DEFINE w == IF ok /\ u.authenticated THEN UpdateCards(u, u.pis, data) ELSE u
<1>1. Half(w) /\ SamePoll(w, u) /\ SameLogin(w, u) /\ SameTimer(w, u)
    <2>1. CASE ok /\ u.authenticated
        BY <2>1, UpdateCardsHalf
    <2>2. CASE ~(ok /\ u.authenticated)
        BY <2>2 DEF SamePoll, SameLogin, SameTimer
    <2> QED
        BY <2>1, <2>2
<1>2. v = [w EXCEPT !.updateInFlight = FALSE]
    BY DEF FleetDone
<1> HIDE DEF w
<1>3. w \in Page
    BY <1>1 DEF Half
<1>4. /\ v \in Page /\ v.updateInFlight = FALSE /\ v.calls = w.calls
      /\ SameShown(v, w) /\ SameTimer(v, w) /\ SameDialog(v, w) /\ SameLogin(v, w)
    BY <1>2, <1>3, SetFlight
<1>5. Half(v)
    BY <1>1, <1>4, HalfKept
<1>6. Out(v, "fleet") = {}
    BY <1>1, <1>4 DEF SamePoll, Out
<1>7. v.calls = u.calls /\ SameLogin(v, u) /\ SameTimer(v, u)
    BY <1>1, <1>4 DEF SamePoll, SameLogin, SameTimer
<1> QED
    BY <1>4, <1>5, <1>6, <1>7 DEF Good, PollMatches

(* The login button is no part of Good.                                    *)
LEMMA BusyGood ==
    ASSUME NEW u, Good(u), NEW b \in BOOLEAN, NEW v, v = [u EXCEPT !.loginBusy = b]
    PROVE  Good(v) /\ SamePoll(v, u)
<1>1. u \in Page
    BY DEF Good, Half
<1>2. /\ v \in Page
      /\ SameShown(v, u) /\ SameTimer(v, u) /\ SameDialog(v, u) /\ SamePoll(v, u)
    BY <1>1, SetBusy
<1> QED
    BY <1>2, HalfKept, GoodKept DEF Good

(* What waits for the end of a poll keeps the invariant.                   *)
LEMMA AfterPollGood ==
    ASSUME NEW u, Good(u), NEW then, NEW v, v = AfterPoll(u, then)
    PROVE  Good(v)
<1> DEFINE w == StartPolling(u)
<1>1. Half(w) /\ SamePoll(w, u)
    BY StartPollingHalf DEF Good
<1>2. Good(w)
    BY <1>1, GoodKept
<1>3. CASE then = "check"
    BY <1>2, <1>3 DEF AfterPoll
<1>4. CASE then = "login"
    <2>1. v = [w EXCEPT !.loginBusy = FALSE]
        BY <1>4 DEF AfterPoll
    <2> HIDE DEF w
    <2> QED
        BY <1>2, <2>1, BusyGood
<1>5. CASE then \notin {"check", "login"}
    BY <1>5 DEF AfterPoll
<1> QED
    BY <1>3, <1>4, <1>5

(* A poll starts only when no other one is out.                            *)
LEMMA PollStatusesGood ==
    ASSUME NEW u, Good(u), NEW s \in Slots, NEW then \in Thens,
           NEW v, v = PollStatuses(u, s, then)
    PROVE  Good(v)
<1>1. CASE ~u.authenticated \/ u.updateInFlight \/ u.hidden \/ u.pis = {}
    <2>1. v = AfterPoll(u, then)
        BY <1>1 DEF PollStatuses
    <2> QED
        BY <2>1, AfterPollGood
<1>2. CASE ~(~u.authenticated \/ u.updateInFlight \/ u.hidden \/ u.pis = {})
    <2>1. v = Send([u EXCEPT !.updateInFlight = TRUE], s, "fleet", then) /\ ~u.updateInFlight
        BY <1>2 DEF PollStatuses
    <2> DEFINE w == [u EXCEPT !.updateInFlight = TRUE]
    <2>2. u \in Page
        BY DEF Good, Half
    <2>3. /\ w \in Page /\ w.updateInFlight = TRUE /\ w.calls = u.calls
          /\ SameShown(w, u) /\ SameTimer(w, u) /\ SameDialog(w, u)
        BY <2>2, SetFlight
    <2>4. v = Send(w, s, "fleet", then)
        BY <2>1
    <2> HIDE DEF w
    <2>5. Half(w)
        BY <2>3, HalfKept DEF Good
    <2>6. Out(w, "fleet") = {}
        BY <2>1, <2>3 DEF Good, PollMatches, Out
    <2> QED
        BY <2>3, <2>4, <2>5, <2>6, FleetGood
<1> QED
    BY <1>1, <1>2

-----------------------------------------------------------------------------
(* The continuations.                                                      *)

(* startDashboard sends two requests, for which two slots are free.        *)
LEMMA StartDashboardGood ==
    ASSUME NEW u, Good(u), NEW s \in Slots, NEW t \in Slots, s # t,
           u.calls[s].kind = "none", u.calls[t].kind = "none",
           NEW then \in Thens, NEW v, v = StartDashboard(u, then)
    PROVE  Good(v)
<1> DEFINE w == Send(u, Slot(u), "list", then)
<1>1. Room(u)
    BY DEF Room, Out
<1>2. Slot(u) \in Slots /\ u.calls[Slot(u)].kind = "none"
    BY <1>1, SlotIsFree
<1>3. /\ Good(w)
      /\ \A x \in Slots : x # Slot(u) => w.calls[x] = u.calls[x]
    <2>1. "list" \in Kinds \ {"fleet"} /\ Awaits("list", then) /\ Half(u)
        BY DEF Kinds, Awaits, Good
    <2>2. Good(w)
        BY <1>2, <2>1, SendGood
    <2>3. \A x \in Slots : x # Slot(u) => w.calls[x] = u.calls[x]
        BY <1>2, <2>1, Sent
    <2> QED
        BY <2>2, <2>3
<1>4. v = Send(w, Slot(w), "config", then)
    BY DEF StartDashboard
<1> HIDE DEF w
<1>5. Room(w)
    BY <1>3 DEF Room, Out
<1>6. Slot(w) \in Slots /\ w.calls[Slot(w)].kind = "none"
    BY <1>5, SlotIsFree
<1> QED
    BY <1>3, <1>4, <1>6, SendGood DEF Kinds, Awaits

(* The requests, when nobody awaits the other one of a start-up.           *)
Alone(u, c) ==
    [s \in Slots |-> IF s \in Partner(u, c, "config")
                     THEN [u.calls[s] EXCEPT !.then = "none"] ELSE u.calls[s]]

(* The request nobody awaits any more stays out.                           *)
LEMMA AloneIsCalls ==
    ASSUME NEW u \in Page, NEW c
    PROVE  /\ Alone(u, c) \in [Slots -> Calls]
           /\ \A s \in Slots : Alone(u, c)[s].kind = u.calls[s].kind
<1> DEFINE cs == Alone(u, c)
<1>1. \A s \in Slots : cs[s] \in Calls /\ cs[s].kind = u.calls[s].kind
    <2> SUFFICES ASSUME NEW s \in Slots
                 PROVE  cs[s] \in Calls /\ cs[s].kind = u.calls[s].kind
        OBVIOUS
    <2>1. u.calls[s] \in Calls
        BY DEF Page
    <2>2. s \in Partner(u, c, "config") => u.calls[s].kind = "config"
        BY DEF Partner, Out
    <2>3. u.calls[s].kind = "config" =>
             /\ [u.calls[s] EXCEPT !.then = "none"] \in Calls
             /\ [u.calls[s] EXCEPT !.then = "none"].kind = u.calls[s].kind
        BY <2>1 DEF Calls
    <2> QED
        BY <2>1, <2>2, <2>3 DEF Alone
<1>2. cs \in [Slots -> Calls]
    BY <1>1 DEF Alone
<1> QED
    BY <1>1, <1>2

(* startDashboard without its list still polls.                            *)
LEMMA StartFailedGood ==
    ASSUME NEW u, Good(u), NEW c, NEW v, v = StartFailed(u, c)
    PROVE  Good(v)
<1> DEFINE cs == Alone(u, c)
           alone == [u EXCEPT !.calls = cs]
           ticks == IF u.authenticated THEN StartPolling(alone) ELSE alone
<1>1. u \in Page /\ Half(u) /\ u.calls \in [Slots -> Calls]
    BY DEF Good, Half, Page
<1>2. cs \in [Slots -> Calls] /\ \A s \in Slots : cs[s].kind = u.calls[s].kind
    BY <1>1, AloneIsCalls
<1>4. v = IF c.then = "login" THEN [ticks EXCEPT !.loginBusy = FALSE] ELSE ticks
    BY <1>1 DEF StartFailed, Alone
<1> HIDE DEF cs
<1>5. /\ alone \in Page /\ alone.calls = cs /\ alone.updateInFlight = u.updateInFlight
      /\ SameShown(alone, u) /\ SameTimer(alone, u) /\ SameDialog(alone, u)
    BY <1>1, <1>2, SetCalls
<1> HIDE DEF alone
<1>6. Half(alone)
    BY <1>1, <1>5, HalfKept
<1>7. Out(alone, "fleet") = Out(u, "fleet")
    BY <1>2, <1>5 DEF Out
<1>8. Good(alone)
    BY <1>5, <1>6, <1>7 DEF Good, PollMatches
<1>9. Good(ticks)
    <2>1. CASE u.authenticated
        <3>1. Half(StartPolling(alone)) /\ SamePoll(StartPolling(alone), alone)
            BY <1>6, StartPollingHalf
        <3> QED
            BY <1>8, <2>1, <3>1, GoodKept
    <2>2. CASE ~u.authenticated
        BY <1>8, <2>2
    <2> QED
        BY <2>1, <2>2
<1> HIDE DEF ticks
<1>10. CASE c.then = "login"
    <2>1. v = [ticks EXCEPT !.loginBusy = FALSE]
        BY <1>4, <1>10
    <2> QED
        BY <1>9, <2>1, BusyGood
<1>11. CASE c.then # "login"
    BY <1>4, <1>9, <1>11
<1> QED
    BY <1>10, <1>11

(* The dialog is closed.                                                   *)
LEMMA CloseDialogGood ==
    ASSUME NEW u, Good(u), NEW v, v = [u EXCEPT !.confirm = NoDevice]
    PROVE  Good(v) /\ SameTimer(v, u) /\ SamePoll(v, u) /\ SameLogin(v, u)
<1>1. u \in Page
    BY DEF Good, Half
<1>2. /\ v \in Page /\ v.confirm = NoDevice
      /\ SameShown(v, u) /\ SameTimer(v, u) /\ SamePoll(v, u) /\ SameLogin(v, u)
    BY <1>1, SetConfirm
<1>3. Half(v)
    BY <1>2 DEF Good, Half, CardsMatch, TimerMatches, DialogMatches, SameShown, SameTimer
<1> QED
    BY <1>2, <1>3, GoodKept

(* loadPiList, with a list or with an error.                               *)
LEMMA ListDoneGood ==
    ASSUME NEW u, Good(u), NEW s \in Slots, NEW c \in Calls, NEW ok \in BOOLEAN,
           NEW data \in SUBSET Devices, NEW v, v = ListDone(u, s, c, ok, data)
    PROVE  Good(v)
<1> DEFINE shown == SyncCards([u EXCEPT !.pis = data])
<1>0. c.then \in Thens
    BY DEF Calls, Thens
<1>1. CASE ok
    <2>1. Half(shown) /\ SamePoll(shown, u)
        BY SyncCardsHalf DEF Good
    <2>2. v = IF c.then = "none" \/ Partner(u, c, "config") # {} THEN shown
              ELSE PollStatuses(shown, s, c.then)
        BY <1>1 DEF ListDone
    <2> HIDE DEF shown
    <2>3. Good(shown)
        BY <2>1, GoodKept
    <2>4. Good(PollStatuses(shown, s, c.then))
        BY <1>0, <2>3, PollStatusesGood
    <2> QED
        BY <2>2, <2>3, <2>4
<1>2. CASE ~ok
    <2>1. CASE c.then \in {"check", "login"}
        <3>1. v = StartFailed(u, c)
            BY <1>2, <2>1 DEF ListDone
        <3> QED
            BY <3>1, StartFailedGood
    <2>2. CASE c.then = "delete"
        <3>1. v = [u EXCEPT !.confirm = NoDevice]
            BY <1>2, <2>2 DEF ListDone
        <3> QED
            BY <3>1, CloseDialogGood
    <2>3. CASE c.then \notin {"check", "login", "delete"}
        BY <1>2, <2>3 DEF ListDone
    <2> QED
        BY <2>1, <2>2, <2>3
<1> QED
    BY <1>1, <1>2

(* loadFanConfig.                                                          *)
LEMMA ConfigDoneGood ==
    ASSUME NEW u, Good(u), NEW s \in Slots, NEW c \in Calls, NEW v, v = ConfigDone(u, s, c)
    PROVE  Good(v)
<1>1. c.then \in Thens
    BY DEF Calls, Thens
<1>2. Good(PollStatuses(u, s, c.then))
    BY <1>1, PollStatusesGood
<1> QED
    BY <1>2 DEF ConfigDone

(* addPi and editPi: the list is loaded again.                             *)
LEMMA WrittenGood ==
    ASSUME NEW u, Good(u), NEW s \in Slots, u.calls[s].kind = "none", NEW ok \in BOOLEAN
    PROVE  Good(AddDone(u, s, ok)) /\ Good(EditDone(u, s, ok))
<1>1. Good(Send(u, s, "list", "add")) /\ Good(Send(u, s, "list", "edit"))
    BY SendGood DEF Kinds, Thens, Awaits
<1> QED
    BY <1>1 DEF AddDone, EditDone

(* deletePi closes its dialog and loads the list, or closes it only.       *)
LEMMA DeleteDoneGood ==
    ASSUME NEW u, Good(u), NEW s \in Slots, u.calls[s].kind = "none", NEW ok \in BOOLEAN,
           NEW v, v = DeleteDone(u, s, ok)
    PROVE  Good(v)
<1>1. CASE ok
    <2> DEFINE w == WithDialog(u, NoDevice, NoDevice)
    <2>1. u \in Page
        BY DEF Good, Half
    <2>2. /\ w \in Page /\ w.pendingDelete = NoDevice /\ w.confirm = NoDevice
          /\ SameShown(w, u) /\ SameTimer(w, u) /\ SamePoll(w, u)
        BY <2>1, SetDialog, Constants
    <2>3. v = Send(w, s, "list", "delete")
        BY <1>1 DEF DeleteDone, WithDialog
    <2> HIDE DEF w
    <2>4. Half(w)
        BY <2>2 DEF Good, Half, CardsMatch, TimerMatches, DialogMatches, SameShown, SameTimer
    <2>5. Good(w) /\ w.calls[s].kind = "none"
        BY <2>2, <2>4, GoodKept DEF SamePoll
    <2> QED
        BY <2>3, <2>5, SendGood DEF Kinds, Thens, Awaits
<1>2. CASE ~ok
    <2>1. v = [u EXCEPT !.confirm = NoDevice]
        BY <1>2 DEF DeleteDone
    <2> QED
        BY <2>1, CloseDialogGood
<1> QED
    BY <1>1, <1>2

(* verifySession starts the dashboard, or asks for a login.                *)
LEMMA CheckDoneGood ==
    ASSUME NEW u, Good(u), NEW ok \in BOOLEAN, NEW s \in Slots, u.calls[s].kind = "none",
           ok => \E t \in Slots : t # s /\ u.calls[t].kind = "none",
           NEW v, v = CheckDone(u, ok)
    PROVE  Good(v)
<1>1. CASE ok
    <2> DEFINE w == [u EXCEPT !.authenticated = TRUE]
    <2>1. u \in Page
        BY DEF Good, Half
    <2>2. /\ w \in Page
          /\ SameShown(w, u) /\ SameTimer(w, u) /\ SameDialog(w, u) /\ SamePoll(w, u)
        BY <2>1, SetSignedIn
    <2>3. v = StartDashboard(w, "check")
        BY <1>1 DEF CheckDone
    <2> HIDE DEF w
    <2>4. Good(w)
        BY <2>2, HalfKept, GoodKept DEF Good
    <2>5. PICK t \in Slots : t # s /\ u.calls[t].kind = "none"
        BY <1>1
    <2>6. w.calls[s].kind = "none" /\ w.calls[t].kind = "none"
        BY <2>2, <2>5 DEF SamePoll
    <2> QED
        BY <2>3, <2>4, <2>5, <2>6, StartDashboardGood DEF Thens
<1>2. CASE ~ok
    <2>1. v = RequireLogin(u)
        BY <1>2 DEF CheckDone
    <2> QED
        BY <2>1, RequireLoginHalf, GoodKept DEF Good
<1> QED
    BY <1>1, <1>2

(* The token of a new session is a token.                                  *)
LEMMA NewTokenIsToken ==
    ASSUME NewTokens # {}
    PROVE  Min(NewTokens) \in Tokens \cup {NoToken}
<1>1. NewTokens \in SUBSET Nat
    BY BoundsAssumption DEF NewTokens, Tokens
<1>2. \E n \in NewTokens : \A m \in NewTokens : n <= m
    BY <1>1, LeastNumber
<1>3. Min(NewTokens) \in NewTokens
    BY <1>2 DEF Min
<1> QED
    BY <1>3 DEF NewTokens

(* handleLogin starts the dashboard, or frees its button.                  *)
LEMMA LoginDoneGood ==
    ASSUME NEW u, Good(u), NEW ok \in BOOLEAN, NEW s \in Slots, u.calls[s].kind = "none",
           ok => NewTokens # {} /\ \E t \in Slots : t # s /\ u.calls[t].kind = "none",
           NEW v, v = LoginDone(u, ok)
    PROVE  Good(v)
<1>1. CASE ok
    <2> DEFINE new == Min(NewTokens)
               w == WithSession(u, TRUE, new)
    <2>1. u \in Page
        BY DEF Good, Half
    <2>2. new \in Tokens \cup {NoToken}
        BY <1>1, NewTokenIsToken
    <2>3. v = StartDashboard(w, "login")
        BY <1>1 DEF LoginDone, WithSession
    <2> HIDE DEF new
    <2>4. /\ w \in Page
          /\ SameShown(w, u) /\ SameTimer(w, u) /\ SameDialog(w, u) /\ SamePoll(w, u)
        BY <2>1, <2>2, SetSession
    <2> HIDE DEF w
    <2>5. Good(w)
        BY <2>4, HalfKept, GoodKept DEF Good
    <2>6. PICK t \in Slots : t # s /\ u.calls[t].kind = "none"
        BY <1>1
    <2>7. w.calls[s].kind = "none" /\ w.calls[t].kind = "none"
        BY <2>4, <2>6 DEF SamePoll
    <2> QED
        BY <2>3, <2>5, <2>6, <2>7, StartDashboardGood DEF Thens
<1>2. CASE ~ok
    <2>1. v = [u EXCEPT !.loginBusy = FALSE]
        BY <1>2 DEF LoginDone
    <2> QED
        BY <2>1, BusyGood
<1> QED
    BY <1>1, <1>2

(* The page when the handler that awaits request s goes on.                *)
LEMMA AnsweredGood ==
    ASSUME Good(ui), NEW s \in Slots, ui.calls[s].kind # "none",
           NEW how, Starts(s, how) => Room(ui),
           NEW u, u = AuthFetch(Done(ui, s), how)
    PROVE  /\ Half(u) /\ u.calls[s].kind = "none"
           /\ ui.calls[s].kind # "fleet" => Good(u)
           /\ ui.calls[s].kind = "fleet" => Out(u, "fleet") = {}
           /\ Starts(s, how) => \E t \in Slots : t # s /\ u.calls[t].kind = "none"
<1> DEFINE d == Done(ui, s)
<1>1. /\ Half(d) /\ d.calls[s].kind = "none"
      /\ \A t \in Slots : t # s => d.calls[t] = ui.calls[t]
    BY DoneHalf DEF Good
<1>2. Half(u) /\ SamePoll(u, d)
    BY <1>1, AuthFetchHalf
<1>3. ui.calls[s].kind # "fleet" => Good(d)
    BY DoneGood
<1>4. ui.calls[s].kind = "fleet" => Out(d, "fleet") = {}
    BY DoneFleet
<1> HIDE DEF d
<1>5. ui.calls[s].kind # "fleet" => Good(u)
    BY <1>2, <1>3, GoodKept
<1>6. ui.calls[s].kind = "fleet" => Out(u, "fleet") = {}
    BY <1>2, <1>4 DEF SamePoll, Out
<1>7. ASSUME Starts(s, how)
      PROVE  \E t \in Slots : t # s /\ u.calls[t].kind = "none"
    <2>1. PICK t \in Slots : ui.calls[t].kind = "none"
        BY <1>7 DEF Room, Out
    <2>2. t # s
        BY <2>1
    <2> QED
        BY <1>1, <1>2, <2>1, <2>2 DEF SamePoll
<1> QED
    BY <1>1, <1>2, <1>5, <1>6, <1>7 DEF SamePoll

(* Whichever handler goes on, with whatever answer.                        *)
LEMMA ResumeGood ==
    ASSUME Good(ui), NEW s \in Slots, ui.calls[s].kind # "none",
           NEW how, Starts(s, how) => Room(ui),
           how = "ok" /\ ui.calls[s].kind = "login" => NewTokens # {},
           NEW data \in SUBSET Devices, NEW v, v = Resume(s, how, data)
    PROVE  Good(v)
<1> DEFINE c  == ui.calls[s]
           u  == AuthFetch(Done(ui, s), how)
           ok == how = "ok"
<1>1. c \in Calls /\ c.kind \in Kinds /\ c.kind # "none"
    BY DEF Good, Half, Page, Calls, Kinds
<1>2. ok \in BOOLEAN
    OBVIOUS
<1>3. Half(u)
    BY AnsweredGood
<1>4. ok /\ c.kind \in {"login", "check"} => Starts(s, how)
    BY DEF Starts
<1>5. u.calls[s].kind = "none"
    BY AnsweredGood
<1>6. v = CASE c.kind = "login"  -> LoginDone(u, ok)
            [] c.kind = "check"  -> CheckDone(u, ok)
            [] c.kind = "logout" -> RequireLogin(u)
            [] c.kind = "list"   -> ListDone(u, s, c, ok, data)
            [] c.kind = "config" -> ConfigDone(u, s, c)
            [] c.kind = "save"   -> u
            [] c.kind = "fleet"  -> AfterPoll(FleetDone(u, ok, data), c.then)
            [] c.kind = "add"    -> AddDone(u, s, ok)
            [] c.kind = "edit"   -> EditDone(u, s, ok)
            [] c.kind = "delete" -> DeleteDone(u, s, ok)
    BY DEF Resume
<1>7. c.kind # "fleet" => Good(u)
    BY AnsweredGood
<1>8. c.kind = "fleet" => Out(u, "fleet") = {}
    BY AnsweredGood
<1>9. ok /\ c.kind \in {"login", "check"} => \E t \in Slots : t # s /\ u.calls[t].kind = "none"
    BY <1>4, AnsweredGood
<1>10. ok /\ c.kind = "login" => NewTokens # {}
    OBVIOUS
<1> HIDE DEF c, u, ok
<1>11. CASE c.kind = "login"
    <2>1. v = LoginDone(u, ok)
        BY <1>6, <1>11
    <2> QED
        BY <1>2, <1>5, <1>7, <1>9, <1>10, <1>11, <2>1, LoginDoneGood
<1>12. CASE c.kind = "check"
    <2>1. v = CheckDone(u, ok)
        BY <1>6, <1>12
    <2> QED
        BY <1>2, <1>5, <1>7, <1>9, <1>12, <2>1, CheckDoneGood
<1>13. CASE c.kind = "logout"
    <2>1. v = RequireLogin(u)
        BY <1>6, <1>13
    <2> QED
        BY <1>3, <1>7, <1>13, <2>1, RequireLoginHalf, GoodKept
<1>14. CASE c.kind = "list"
    <2>1. v = ListDone(u, s, c, ok, data)
        BY <1>6, <1>14
    <2> QED
        BY <1>1, <1>2, <1>7, <1>14, <2>1, ListDoneGood
<1>15. CASE c.kind = "config"
    <2>1. v = ConfigDone(u, s, c)
        BY <1>6, <1>15
    <2> QED
        BY <1>1, <1>7, <1>15, <2>1, ConfigDoneGood
<1>16. CASE c.kind = "save"
    BY <1>6, <1>7, <1>16
<1>17. CASE c.kind = "fleet"
    <2>1. v = AfterPoll(FleetDone(u, ok, data), c.then)
        BY <1>6, <1>17
    <2>2. Good(FleetDone(u, ok, data))
        BY <1>2, <1>3, <1>8, <1>17, FleetDoneGood
    <2> QED
        BY <2>1, <2>2, AfterPollGood
<1>18. CASE c.kind = "add"
    <2>1. v = AddDone(u, s, ok)
        BY <1>6, <1>18
    <2> QED
        BY <1>2, <1>5, <1>7, <1>18, <2>1, WrittenGood
<1>19. CASE c.kind = "edit"
    <2>1. v = EditDone(u, s, ok)
        BY <1>6, <1>19
    <2> QED
        BY <1>2, <1>5, <1>7, <1>19, <2>1, WrittenGood
<1>20. CASE c.kind = "delete"
    <2>1. v = DeleteDone(u, s, ok)
        BY <1>6, <1>20
    <2> QED
        BY <1>2, <1>5, <1>7, <1>20, <2>1, DeleteDoneGood
<1> QED
    BY <1>1, <1>11, <1>12, <1>13, <1>14, <1>15, <1>16, <1>17, <1>18, <1>19, <1>20 DEF Kinds

-----------------------------------------------------------------------------
(* The page, from loading it on.                                           *)

(* A page that was just loaded.                                            *)
LEMMA LoadedGood ==
    ASSUME NEW t \in Tokens \cup {NoToken}, NEW v, v = Loaded(t)
    PROVE  Good(v)
<1> DEFINE u == [authenticated |-> FALSE, token |-> t, loginBusy |-> FALSE,
                 timers |-> 0, clockTimer |-> FALSE, updateInFlight |-> FALSE, hidden |-> FALSE,
                 pis |-> {}, cards |-> [d \in Devices |-> "none"],
                 histories |-> [d \in Devices |-> 0],
                 pendingDelete |-> NoDevice, confirm |-> NoDevice,
                 calls |-> [s \in Slots |-> NoCall]]
<1>1. u \in Page
    BY NoCallIsCall, HistoryAssumption DEF Page
<1>2. CardsMatch(u) /\ TimerMatches(u) /\ DialogMatches(u)
    BY DEF CardsMatch, TimerMatches, DialogMatches
<1>3. \A s \in Slots : u.calls[s].kind = "none"
    BY NoCallIsCall
<1>4. u.updateInFlight = FALSE
    OBVIOUS
<1>5. v = IF t = NoToken THEN RequireLogin(u) ELSE Send(u, Slot(u), "check", "none")
    BY DEF Loaded
<1> HIDE DEF u
<1>6. Out(u, "fleet") = {}
    BY <1>3 DEF Out
<1>7. Good(u)
    BY <1>1, <1>2, <1>4, <1>6 DEF Good, Half, PollMatches
<1>8. CASE t = NoToken
    BY <1>5, <1>7, <1>8, RequireLoginHalf, GoodKept DEF Good
<1>9. CASE t # NoToken
    <2>1. 1 \in Slots
        BY BoundsAssumption DEF Slots
    <2>2. Room(u)
        BY <1>3, <2>1 DEF Room, Out
    <2>3. Slot(u) \in Slots /\ u.calls[Slot(u)].kind = "none"
        BY <2>2, SlotIsFree
    <2> QED
        BY <1>5, <1>7, <1>9, <2>3, SendGood DEF Kinds, Thens, Awaits
<1> QED
    BY <1>8, <1>9

(* A user's request goes into a free slot.                                 *)
LEMMA AskedGood ==
    ASSUME NEW u, Good(u), Room(u), NEW kind \in Kinds \ {"fleet"},
           NEW v, v = Send(u, Slot(u), kind, "none")
    PROVE  Good(v)
    BY SlotIsFree, SendGood DEF Thens, Awaits

(* Whatever the user does.                                                 *)
LEMMA UserGood ==
    ASSUME Good(ui), User
    PROVE  Good(ui')
<1>1. ui \in Page /\ Half(ui)
    BY DEF Good, Half
<1>2. CASE Reload
    <2>1. ui.token \in Tokens \cup {NoToken}
        BY <1>1 DEF Page
    <2> QED
        BY <1>2, <2>1, LoadedGood DEF Reload
<1>3. CASE SubmitLogin
    <2> DEFINE u == [ui EXCEPT !.loginBusy = TRUE]
    <2>1. Good(u) /\ SamePoll(u, ui)
        BY BusyGood
    <2>2. Slot(ui) \in Slots /\ ui.calls[Slot(ui)].kind = "none"
        BY <1>3, SlotIsFree DEF SubmitLogin
    <2>3. ui' = Send(u, Slot(ui), "login", "none")
        BY <1>3 DEF SubmitLogin
    <2> HIDE DEF u
    <2>4. u.calls[Slot(ui)].kind = "none"
        BY <2>1, <2>2 DEF SamePoll
    <2> QED
        BY <2>1, <2>2, <2>3, <2>4, SendGood DEF Kinds, Thens, Awaits
<1>4. CASE Logout
    BY <1>4, AskedGood DEF Logout, Kinds
<1>5. CASE OpenPiManager
    BY <1>5, AskedGood DEF OpenPiManager, Kinds
<1>6. CASE SubmitAdd
    BY <1>6, AskedGood DEF SubmitAdd, Kinds
<1>7. CASE SubmitEdit
    BY <1>7, AskedGood DEF SubmitEdit, Kinds
<1>8. CASE OpenFanSettings
    BY <1>8, AskedGood DEF OpenFanSettings, Kinds
<1>9. CASE SaveFanConfig
    BY <1>9, AskedGood DEF SaveFanConfig, Kinds
<1>10. CASE AskDelete
    <2>1. PICK d \in Devices : ui' = WithDialog(ui, d, d)
        BY <1>1, <1>10 DEF AskDelete, WithDialog, Page
    <2>2. /\ ui' \in Page /\ ui'.pendingDelete = d /\ ui'.confirm = d
          /\ SameShown(ui', ui) /\ SameTimer(ui', ui) /\ SamePoll(ui', ui)
        BY <1>1, <2>1, SetDialog
    <2>3. Half(ui')
        BY <1>1, <2>2 DEF Half, CardsMatch, TimerMatches, DialogMatches, SameShown, SameTimer
    <2> QED
        BY <2>2, <2>3, GoodKept
<1>11. CASE CancelDelete
    BY <1>11, CloseDialogGood DEF CancelDelete
<1>12. CASE ConfirmDelete
    <2>1. CASE ui.pendingDelete = NoDevice
        BY <1>12, <2>1, CloseDialogGood DEF ConfirmDelete
    <2>2. CASE ui.pendingDelete # NoDevice
        BY <1>12, <2>2, AskedGood DEF ConfirmDelete, Kinds
    <2> QED
        BY <2>1, <2>2
<1>13. CASE Hide
    <2>1. ui' = [ui EXCEPT !.hidden = TRUE]
        BY <1>13 DEF Hide
    <2>2. /\ ui' \in Page
          /\ SameShown(ui', ui) /\ SameTimer(ui', ui) /\ SameDialog(ui', ui) /\ SamePoll(ui', ui)
        BY <1>1, <2>1, SetHidden
    <2> QED
        BY <1>1, <2>2, HalfKept, GoodKept
<1>14. CASE Show
    <2> DEFINE u == [ui EXCEPT !.hidden = FALSE]
    <2>1. /\ u \in Page
          /\ SameShown(u, ui) /\ SameTimer(u, ui) /\ SameDialog(u, ui) /\ SamePoll(u, ui)
        BY <1>1, SetHidden
    <2>2. Slot(ui) \in Slots
        BY <1>14, SlotIsFree DEF Show
    <2>3. ui' = PollStatuses(u, Slot(ui), "none")
        BY <1>14 DEF Show
    <2> HIDE DEF u
    <2>4. Good(u)
        BY <1>1, <2>1, HalfKept, GoodKept
    <2> QED
        BY <2>2, <2>3, <2>4, PollStatusesGood DEF Thens
<1> QED
    BY <1>2, <1>3, <1>4, <1>5, <1>6, <1>7, <1>8, <1>9, <1>10, <1>11, <1>12, <1>13, <1>14 DEF User

-----------------------------------------------------------------------------
(* What somebody waits for.  Owed(u, then) says of a page that it need not  *)
(* wait in vain, when a handler that then waits for is about to go on.      *)

(* What a login waits for.                                                 *)
LoginAwaited(u) ==
    \E s \in Slots : u.calls[s].kind = "login" \/ u.calls[s].then = "login"

(* What a start-up waits for.                                              *)
StartAwaited(u) == \E s \in Slots : u.calls[s].then \in {"check", "login"}

(* A signed-in page without its interval.                                  *)
Unpolled(u) == u.authenticated = TRUE /\ u.clockTimer = FALSE

Owed(u, then) ==
    /\ u.loginBusy = TRUE => then = "login" \/ LoginAwaited(u)
    /\ Unpolled(u) => then \in {"check", "login"} \/ StartAwaited(u)

(* A step that sends and ends no request, and leaves the page no less      *)
(* polled.                                                                 *)
LEMMA OwedKept ==
    ASSUME NEW u, NEW then, Owed(u, then), NEW v,
           v.calls = u.calls, v.loginBusy = u.loginBusy, Unpolled(v) => Unpolled(u)
    PROVE  Owed(v, then)
    BY DEF Owed, LoginAwaited, StartAwaited

(* A step that touches neither the requests nor the session nor the timer. *)
LEMMA OwedSame ==
    ASSUME NEW u, NEW then, Owed(u, then), NEW v,
           v.calls = u.calls, SameLogin(v, u), SameTimer(v, u)
    PROVE  Owed(v, then)
    BY OwedKept DEF SameLogin, SameTimer, Unpolled

(* What waits for something else waits for a request that is out.          *)
LEMMA OwedByOthers ==
    ASSUME NEW u, NEW then, then \notin {"check", "login"}
    PROVE  Owed(u, then) <=> Owed(u, "none")
    BY DEF Owed

(* A slot that is free keeps nobody waiting.                               *)
LEMMA FreeSlot ==
    ASSUME NEW u \in Page, NEW s \in Slots, u.calls[s].kind = "none"
    PROVE  u.calls[s].then = "none"
<1>1. u.calls[s] \in Calls
    BY DEF Page
<1>2. u.calls[s] = NoCall
    BY <1>1 DEF Calls
<1> QED
    BY <1>2, NoCallIsCall

(* A request that is sent is what its caller waits for.                    *)
LEMMA PutOwed ==
    ASSUME NEW u \in Page, NEW s \in Slots, u.calls[s].kind = "none",
           NEW then, Owed(u, then), NEW v, v.calls[s].then = then,
           \A t \in Slots : t # s => v.calls[t] = u.calls[t],
           SameLogin(v, u), SameTimer(v, u)
    PROVE  Owed(v, "none")
<1>1. u.calls[s].then = "none"
    BY FreeSlot
<1>2. LoginAwaited(u) => LoginAwaited(v)
    BY <1>1 DEF LoginAwaited
<1>3. StartAwaited(u) => StartAwaited(v)
    BY <1>1 DEF StartAwaited
<1>4. then = "login" => LoginAwaited(v)
    BY DEF LoginAwaited
<1>5. then \in {"check", "login"} => StartAwaited(v)
    BY DEF StartAwaited
<1> QED
    BY <1>2, <1>3, <1>4, <1>5 DEF Owed, Unpolled, SameLogin, SameTimer

(* A request that is sent for whoever waits is waited for.                 *)
LEMMA SendOwed ==
    ASSUME NEW u, Good(u), NEW s \in Slots, u.calls[s].kind = "none",
           NEW kind \in Kinds \ {"fleet"}, NEW then \in Thens, Awaits(kind, then),
           Owed(u, then), NEW v, v = Send(u, s, kind, then)
    PROVE  Owed(v, "none")
<1>1. u \in Page
    BY DEF Good, Half
<1>2. /\ SameLogin(v, u) /\ SameTimer(v, u) /\ v.calls[s].then = then
      /\ \A t \in Slots : t # s => v.calls[t] = u.calls[t]
    BY Sent DEF Good
<1> QED
    BY <1>1, <1>2, PutOwed

(* The end of a poll starts the timer, or frees the login button.          *)
LEMMA AfterPollOwed ==
    ASSUME NEW u, Good(u), NEW then, Owed(u, then), NEW v, v = AfterPoll(u, then)
    PROVE  Owed(v, "none")
<1> DEFINE w == StartPolling(u)
<1>1. Half(w) /\ SamePoll(w, u) /\ SameLogin(w, u) /\ w.clockTimer = TRUE
    BY StartPollingHalf DEF Good
<1>2. CASE then = "check"
    <2>1. v = w
        BY <1>2 DEF AfterPoll
    <2> HIDE DEF w
    <2>2. v.calls = u.calls /\ v.loginBusy = u.loginBusy /\ ~Unpolled(v)
        BY <1>1, <2>1 DEF SamePoll, SameLogin, Unpolled
    <2> QED
        BY <1>2, <2>2 DEF Owed, LoginAwaited
<1>3. CASE then = "login"
    <2>1. v = [w EXCEPT !.loginBusy = FALSE]
        BY <1>3 DEF AfterPoll
    <2> HIDE DEF w
    <2>2. w \in Page
        BY <1>1 DEF Half
    <2>3. v.loginBusy = FALSE /\ SameTimer(v, w)
        BY <2>1, <2>2, SetBusy
    <2> QED
        BY <1>1, <2>3 DEF Owed, Unpolled, SameTimer
<1>4. CASE then \notin {"check", "login"}
    BY <1>4, OwedByOthers DEF AfterPoll
<1> QED
    BY <1>2, <1>3, <1>4

(* A poll is waited for, or over at once.                                  *)
LEMMA PollStatusesOwed ==
    ASSUME NEW u, Good(u), NEW s \in Slots, u.calls[s].kind = "none",
           NEW then \in Thens, Owed(u, then), NEW v, v = PollStatuses(u, s, then)
    PROVE  Owed(v, "none")
<1>1. CASE ~u.authenticated \/ u.updateInFlight \/ u.hidden \/ u.pis = {}
    <2>1. v = AfterPoll(u, then)
        BY <1>1 DEF PollStatuses
    <2> QED
        BY <2>1, AfterPollOwed
<1>2. CASE ~(~u.authenticated \/ u.updateInFlight \/ u.hidden \/ u.pis = {})
    <2> DEFINE w == [u EXCEPT !.updateInFlight = TRUE]
    <2>1. v = Send(w, s, "fleet", then)
        BY <1>2 DEF PollStatuses
    <2>2. u \in Page
        BY DEF Good, Half
    <2>3. /\ w \in Page /\ w.calls = u.calls
          /\ SameShown(w, u) /\ SameTimer(w, u) /\ SameDialog(w, u) /\ SameLogin(w, u)
        BY <2>2, SetFlight
    <2> HIDE DEF w
    <2>4. Half(w)
        BY <2>3, HalfKept DEF Good
    <2>5. "fleet" \in Kinds /\ Awaits("fleet", then)
        BY DEF Kinds, Awaits
    <2>6. /\ SameLogin(v, w) /\ SameTimer(v, w) /\ v.calls[s].then = then
          /\ \A t \in Slots : t # s => v.calls[t] = w.calls[t]
        BY <2>1, <2>4, <2>5, Sent
    <2>7. Owed(w, then)
        BY <2>3, OwedSame
    <2>8. w.calls[s].kind = "none"
        BY <2>3
    <2> QED
        BY <2>3, <2>6, <2>7, <2>8, PutOwed
<1> QED
    BY <1>1, <1>2

(* A start-up waits for both of its requests.                              *)
LEMMA StartDashboardOwed ==
    ASSUME NEW u, Good(u), NEW s \in Slots, NEW t \in Slots, s # t,
           u.calls[s].kind = "none", u.calls[t].kind = "none",
           NEW then \in {"check", "login"}, Owed(u, then), NEW v, v = StartDashboard(u, then)
    PROVE  Owed(v, "none")
<1> DEFINE w == Send(u, Slot(u), "list", then)
<1>1. Room(u)
    BY DEF Room, Out
<1>2. Slot(u) \in Slots /\ u.calls[Slot(u)].kind = "none"
    BY <1>1, SlotIsFree
<1>3. then \in Thens /\ Awaits("list", then) /\ Awaits("config", then)
    BY DEF Thens, Awaits
<1>4. /\ Good(w)
      /\ \A x \in Slots : x # Slot(u) => w.calls[x] = u.calls[x]
    <2>1. "list" \in Kinds \ {"fleet"} /\ Half(u)
        BY DEF Kinds, Good
    <2>2. Good(w)
        BY <1>2, <1>3, <2>1, SendGood
    <2>3. \A x \in Slots : x # Slot(u) => w.calls[x] = u.calls[x]
        BY <1>2, <1>3, <2>1, Sent
    <2> QED
        BY <2>2, <2>3
<1>5. Owed(w, "none")
    BY <1>2, <1>3, SendOwed DEF Kinds
<1>6. v = Send(w, Slot(w), "config", then)
    BY DEF StartDashboard
<1> HIDE DEF w
<1>7. Room(w)
    BY <1>4 DEF Room, Out
<1>8. Slot(w) \in Slots /\ w.calls[Slot(w)].kind = "none"
    BY <1>7, SlotIsFree
<1>9. Owed(w, then)
    BY <1>5 DEF Owed
<1> QED
    BY <1>3, <1>4, <1>6, <1>8, <1>9, SendOwed DEF Kinds

(* The other request of a start-up goes on with it.                        *)
LEMMA PartnerOwed ==
    ASSUME NEW u, NEW c, Owed(u, c.then), NEW kind, Partner(u, c, kind) # {}
    PROVE  Owed(u, "none")
<1>1. PICK s \in Slots : u.calls[s].then = c.then
    BY DEF Partner, Out
<1>2. c.then = "login" => LoginAwaited(u)
    BY <1>1 DEF LoginAwaited
<1>3. c.then \in {"check", "login"} => StartAwaited(u)
    BY <1>1 DEF StartAwaited
<1> QED
    BY <1>2, <1>3 DEF Owed

(* When the list could not be loaded, the page polls, or the login button  *)
(* is free again, or whoever waits does not wait for this start-up.        *)
LEMMA StartFailedOwed ==
    ASSUME NEW u, Good(u), NEW c, c.then \in {"check", "login"}, Owed(u, c.then),
           NEW v, v = StartFailed(u, c)
    PROVE  Owed(v, "none")
<1> DEFINE cs == Alone(u, c)
           alone == [u EXCEPT !.calls = cs]
           ticks == IF u.authenticated THEN StartPolling(alone) ELSE alone
<1>1. u \in Page /\ Half(u) /\ u.calls \in [Slots -> Calls]
    BY DEF Good, Half, Page
<1>2. v = IF c.then = "login" THEN [ticks EXCEPT !.loginBusy = FALSE] ELSE ticks
    BY <1>1 DEF StartFailed, Alone
<1>3. cs \in [Slots -> Calls]
    BY <1>1, AloneIsCalls
<1>4. c.then = "check" /\ LoginAwaited(u) =>
         \E s \in Slots : cs[s].kind = "login" \/ cs[s].then = "login"
    <2> SUFFICES ASSUME c.then = "check", NEW s \in Slots,
                        u.calls[s].kind = "login" \/ u.calls[s].then = "login"
                 PROVE  cs[s].kind = "login" \/ cs[s].then = "login"
        BY DEF LoginAwaited
    <2>1. s \notin Partner(u, c, "config")
        BY DEF Partner, Out
    <2> QED
        BY <2>1 DEF Alone
<1> HIDE DEF cs
<1>5. /\ alone \in Page /\ alone.calls = cs
      /\ SameShown(alone, u) /\ SameTimer(alone, u) /\ SameDialog(alone, u) /\ SameLogin(alone, u)
    BY <1>1, <1>3, SetCalls
<1> HIDE DEF alone
<1>6. Half(alone)
    BY <1>1, <1>5, HalfKept
<1>7. /\ ticks \in Page /\ ticks.calls = cs /\ SameLogin(ticks, u) /\ ~Unpolled(ticks)
    <2>1. CASE u.authenticated
        <3> DEFINE w == StartPolling(alone)
        <3>1. Half(w) /\ SamePoll(w, alone) /\ SameLogin(w, alone) /\ w.clockTimer = TRUE
            BY <1>6, StartPollingHalf
        <3>2. ticks = w
            BY <2>1
        <3> HIDE DEF w, ticks
        <3> QED
            BY <1>5, <3>1, <3>2 DEF SamePoll, SameLogin, Unpolled, Half
    <2>2. CASE ~u.authenticated
        <3>1. ticks = alone
            BY <2>2
        <3>2. alone.authenticated # TRUE
            BY <1>1, <1>5, <2>2 DEF SameLogin
        <3> HIDE DEF ticks
        <3> QED
            BY <1>5, <3>1, <3>2 DEF Unpolled
    <2> QED
        BY <2>1, <2>2
<1> HIDE DEF ticks
<1>8. CASE c.then = "login"
    <2>1. v = [ticks EXCEPT !.loginBusy = FALSE]
        BY <1>2, <1>8
    <2>2. v.loginBusy = FALSE /\ SameTimer(v, ticks) /\ v.authenticated = ticks.authenticated
        BY <1>7, <2>1, SetBusy
    <2> QED
        BY <1>7, <2>2 DEF Owed, Unpolled, SameTimer
<1>9. CASE c.then = "check"
    <2>1. v = ticks
        BY <1>2, <1>9
    <2>2. LoginAwaited(u) => LoginAwaited(v)
        BY <1>4, <1>7, <1>9, <2>1 DEF LoginAwaited
    <2> QED
        BY <1>7, <1>9, <2>1, <2>2 DEF Owed, SameLogin
<1> QED
    BY <1>8, <1>9

(* loadPiList goes on to the poll, waits for the other request, or gives   *)
(* up.                                                                     *)
LEMMA ListDoneOwed ==
    ASSUME NEW u, Good(u), NEW s \in Slots, u.calls[s].kind = "none", NEW c \in Calls,
           NEW ok \in BOOLEAN, NEW data \in SUBSET Devices, Owed(u, c.then),
           NEW v, v = ListDone(u, s, c, ok, data)
    PROVE  Owed(v, "none")
<1> DEFINE shown == SyncCards([u EXCEPT !.pis = data])
<1>0. c.then \in Thens
    BY DEF Calls, Thens
<1>1. CASE ok
    <2>1. Half(shown) /\ SamePoll(shown, u) /\ SameLogin(shown, u) /\ SameTimer(shown, u)
        BY SyncCardsHalf DEF Good
    <2>2. v = IF c.then = "none" \/ Partner(u, c, "config") # {} THEN shown
              ELSE PollStatuses(shown, s, c.then)
        BY <1>1 DEF ListDone
    <2> HIDE DEF shown
    <2>3. Good(shown)
        BY <2>1, GoodKept
    <2>4. Owed(shown, c.then) /\ shown.calls[s].kind = "none"
        BY <2>1, OwedSame DEF SamePoll
    <2>5. Owed(PollStatuses(shown, s, c.then), "none")
        BY <1>0, <2>3, <2>4, PollStatusesOwed
    <2>6. CASE Partner(u, c, "config") # {}
        <3>1. Owed(u, "none")
            BY <2>6, PartnerOwed
        <3> QED
            BY <2>1, <2>2, <2>6, <3>1, OwedSame DEF SamePoll
    <2>7. CASE c.then = "none"
        BY <2>2, <2>4, <2>7
    <2> QED
        BY <2>2, <2>5, <2>6, <2>7
<1>2. CASE ~ok
    <2>1. CASE c.then \in {"check", "login"}
        <3>1. v = StartFailed(u, c)
            BY <1>2, <2>1 DEF ListDone
        <3> QED
            BY <2>1, <3>1, StartFailedOwed
    <2>2. CASE c.then = "delete"
        <3>1. v = [u EXCEPT !.confirm = NoDevice]
            BY <1>2, <2>2 DEF ListDone
        <3>2. SamePoll(v, u) /\ SameTimer(v, u) /\ SameLogin(v, u)
            BY <3>1, CloseDialogGood
        <3>3. Owed(v, c.then)
            BY <3>2, OwedSame DEF SamePoll
        <3> QED
            BY <2>2, <3>3, OwedByOthers
    <2>3. CASE c.then \notin {"check", "login", "delete"}
        BY <1>2, <2>3, OwedByOthers DEF ListDone
    <2> QED
        BY <2>1, <2>2, <2>3
<1> QED
    BY <1>1, <1>2

(* loadFanConfig goes on to the poll or leaves it to the other request.    *)
LEMMA ConfigDoneOwed ==
    ASSUME NEW u, Good(u), NEW s \in Slots, u.calls[s].kind = "none", NEW c \in Calls,
           Owed(u, c.then), NEW v, v = ConfigDone(u, s, c)
    PROVE  Owed(v, "none")
<1>1. c.then \in Thens
    BY DEF Calls, Thens
<1>2. Owed(PollStatuses(u, s, c.then), "none")
    BY <1>1, PollStatusesOwed
<1>3. CASE Partner(u, c, "list") # {}
    BY <1>3, PartnerOwed DEF ConfigDone
<1>4. CASE c.then = "none"
    BY <1>4 DEF ConfigDone
<1> QED
    BY <1>2, <1>3, <1>4 DEF ConfigDone

(* addPi, editPi and deletePi wait for nothing that starts the page.       *)
LEMMA WrittenOwed ==
    ASSUME NEW u, Good(u), NEW s \in Slots, u.calls[s].kind = "none", NEW ok \in BOOLEAN,
           Owed(u, "none")
    PROVE  Owed(AddDone(u, s, ok), "none") /\ Owed(EditDone(u, s, ok), "none")
<1>1. /\ Owed(u, "add") /\ Owed(u, "edit")
      /\ Awaits("list", "add") /\ Awaits("list", "edit")
    BY OwedByOthers DEF Awaits
<1>2. "list" \in Kinds \ {"fleet"} /\ "add" \in Thens /\ "edit" \in Thens
    BY DEF Kinds, Thens
<1>3. Owed(Send(u, s, "list", "add"), "none") /\ Owed(Send(u, s, "list", "edit"), "none")
    BY <1>1, <1>2, SendOwed
<1> QED
    BY <1>3 DEF AddDone, EditDone

(* deletePi waits for nothing that starts the page.                        *)
LEMMA DeleteDoneOwed ==
    ASSUME NEW u, Good(u), NEW s \in Slots, u.calls[s].kind = "none", NEW ok \in BOOLEAN,
           Owed(u, "none"), NEW v, v = DeleteDone(u, s, ok)
    PROVE  Owed(v, "none")
<1>1. CASE ok
    <2> DEFINE w == WithDialog(u, NoDevice, NoDevice)
    <2>1. u \in Page
        BY DEF Good, Half
    <2>2. /\ w \in Page /\ w.pendingDelete = NoDevice /\ w.confirm = NoDevice
          /\ SameShown(w, u) /\ SameTimer(w, u) /\ SamePoll(w, u) /\ SameLogin(w, u)
        BY <2>1, SetDialog, Constants
    <2>3. v = Send(w, s, "list", "delete")
        BY <1>1 DEF DeleteDone, WithDialog
    <2> HIDE DEF w
    <2>4. Half(w)
        BY <2>2 DEF Good, Half, CardsMatch, TimerMatches, DialogMatches, SameShown, SameTimer
    <2>5. Good(w) /\ w.calls[s].kind = "none"
        BY <2>2, <2>4, GoodKept DEF SamePoll
    <2>6. Owed(w, "none")
        BY <2>2, OwedSame DEF SamePoll
    <2>7. Owed(w, "delete") /\ Awaits("list", "delete")
        BY <2>6, OwedByOthers DEF Awaits
    <2> QED
        BY <2>3, <2>5, <2>7, SendOwed DEF Kinds, Thens
<1>2. CASE ~ok
    <2>1. v = [u EXCEPT !.confirm = NoDevice]
        BY <1>2 DEF DeleteDone
    <2>2. SamePoll(v, u) /\ SameTimer(v, u) /\ SameLogin(v, u)
        BY <2>1, CloseDialogGood
    <2> QED
        BY <2>2, OwedSame DEF SamePoll
<1> QED
    BY <1>1, <1>2

(* A page that asks for a login need not poll.                             *)
LEMMA RequireLoginOwed ==
    ASSUME NEW u, Half(u), NEW then, Owed(u, then), NEW v, v = RequireLogin(u)
    PROVE  Owed(v, then)
<1>1. SamePoll(v, u) /\ v.authenticated = FALSE /\ v.loginBusy = u.loginBusy
    BY RequireLoginHalf
<1> QED
    BY <1>1, OwedKept DEF SamePoll, Unpolled

(* The dialog keeps nobody waiting.                                        *)
LEMMA ClosedOwed ==
    ASSUME NEW u, Good(u), Owed(u, "none"), NEW v, v = [u EXCEPT !.confirm = NoDevice]
    PROVE  Owed(v, "none")
<1>1. SamePoll(v, u) /\ SameTimer(v, u) /\ SameLogin(v, u)
    BY CloseDialogGood
<1> QED
    BY <1>1, OwedSame DEF SamePoll

(* verifySession waits for its start-up, or asks for a login.              *)
LEMMA CheckDoneOwed ==
    ASSUME NEW u, Good(u), NEW ok \in BOOLEAN, NEW s \in Slots, u.calls[s].kind = "none",
           ok => \E t \in Slots : t # s /\ u.calls[t].kind = "none",
           Owed(u, "none"), NEW v, v = CheckDone(u, ok)
    PROVE  Owed(v, "none")
<1>1. CASE ok
    <2> DEFINE w == [u EXCEPT !.authenticated = TRUE]
    <2>1. u \in Page
        BY DEF Good, Half
    <2>2. /\ w \in Page /\ w.loginBusy = u.loginBusy
          /\ SameShown(w, u) /\ SameTimer(w, u) /\ SameDialog(w, u) /\ SamePoll(w, u)
        BY <2>1, SetSignedIn
    <2>3. v = StartDashboard(w, "check")
        BY <1>1 DEF CheckDone
    <2> HIDE DEF w
    <2>4. Good(w)
        BY <2>2, HalfKept, GoodKept DEF Good
    <2>5. PICK t \in Slots : t # s /\ u.calls[t].kind = "none"
        BY <1>1
    <2>6. w.calls[s].kind = "none" /\ w.calls[t].kind = "none"
        BY <2>2, <2>5 DEF SamePoll
    <2>7. Owed(w, "check")
        BY <2>2 DEF Owed, LoginAwaited, SamePoll
    <2> QED
        BY <2>3, <2>4, <2>5, <2>6, <2>7, StartDashboardOwed
<1>2. CASE ~ok
    <2>1. v = RequireLogin(u)
        BY <1>2 DEF CheckDone
    <2> QED
        BY <2>1, RequireLoginOwed DEF Good
<1> QED
    BY <1>1, <1>2

(* What awaits the answer to a login is its handler.                       *)
LEMMA LoginDoneOwed ==
    ASSUME NEW u, Good(u), NEW ok \in BOOLEAN, NEW s \in Slots, u.calls[s].kind = "none",
           ok => NewTokens # {} /\ \E t \in Slots : t # s /\ u.calls[t].kind = "none",
           Unpolled(u) => StartAwaited(u), NEW v, v = LoginDone(u, ok)
    PROVE  Owed(v, "none")
<1>1. CASE ok
    <2> DEFINE w == WithSession(u, TRUE, Min(NewTokens))
    <2>1. Min(NewTokens) \in Tokens \cup {NoToken}
        BY <1>1, NewTokenIsToken
    <2>2. u \in Page
        BY DEF Good, Half
    <2>3. v = StartDashboard(w, "login")
        BY <1>1 DEF LoginDone, WithSession
    <2>4. /\ w \in Page
          /\ SameShown(w, u) /\ SameTimer(w, u) /\ SameDialog(w, u) /\ SamePoll(w, u)
        BY <2>1, <2>2, SetSession
    <2> HIDE DEF w
    <2>5. Good(w)
        BY <2>4, HalfKept, GoodKept DEF Good
    <2>6. PICK t \in Slots : t # s /\ u.calls[t].kind = "none"
        BY <1>1
    <2>7. w.calls[s].kind = "none" /\ w.calls[t].kind = "none"
        BY <2>4, <2>6 DEF SamePoll
    <2>8. Owed(w, "login")
        BY DEF Owed
    <2> QED
        BY <2>3, <2>5, <2>6, <2>7, <2>8, StartDashboardOwed
<1>2. CASE ~ok
    <2>1. u \in Page /\ v = [u EXCEPT !.loginBusy = FALSE]
        BY <1>2 DEF LoginDone, Good, Half
    <2>2. /\ v.loginBusy = FALSE /\ v.authenticated = u.authenticated
          /\ SameTimer(v, u) /\ SamePoll(v, u)
        BY <2>1, SetBusy
    <2>3. Unpolled(v) => StartAwaited(v)
        BY <2>2 DEF Unpolled, StartAwaited, SameTimer, SamePoll
    <2> QED
        BY <2>2, <2>3 DEF Owed
<1> QED
    BY <1>1, <1>2

(* With the request that is answered, what its handler is waited for by is *)
(* all that is no longer waited for.                                       *)
LEMMA AnsweredOwed ==
    ASSUME Good(ui), Owed(ui, "none"), NEW s \in Slots,
           NEW how, NEW u, u = AuthFetch(Done(ui, s), how)
    PROVE  /\ ui.calls[s].kind # "login" => Owed(u, ui.calls[s].then)
           /\ ui.calls[s].then \notin {"check", "login"} => (Unpolled(u) => StartAwaited(u))
<1> DEFINE d == Done(ui, s)
           c == ui.calls[s]
<1>1. /\ Half(d) /\ SameLogin(d, ui) /\ SameTimer(d, ui)
      /\ \A t \in Slots : t # s => d.calls[t] = ui.calls[t]
    BY DoneHalf DEF Good
<1> HIDE DEF d
<1>2. c.kind # "login" /\ c.then # "login" => (LoginAwaited(ui) => LoginAwaited(d))
    BY <1>1 DEF LoginAwaited
<1>3. c.then \notin {"check", "login"} => (StartAwaited(ui) => StartAwaited(d))
    BY <1>1 DEF StartAwaited
<1>4. (Unpolled(d) => Unpolled(ui)) /\ (d.loginBusy = TRUE => ui.loginBusy = TRUE)
    BY <1>1 DEF Unpolled, SameLogin, SameTimer
<1>5. c.kind # "login" => Owed(d, c.then)
    BY <1>2, <1>3, <1>4 DEF Owed
<1>6. c.then \notin {"check", "login"} => (Unpolled(d) => StartAwaited(d))
    BY <1>3, <1>4 DEF Owed
<1>7. CASE how = "denied"
    <2>1. u = RequireLogin(d)
        BY <1>7 DEF AuthFetch, d
    <2>2. u.authenticated = FALSE
        BY <1>1, <2>1, RequireLoginHalf
    <2>3. c.kind # "login" => Owed(u, c.then)
        BY <1>1, <1>5, <2>1, RequireLoginOwed
    <2> QED
        BY <2>2, <2>3 DEF Unpolled
<1>8. CASE how # "denied"
    <2>1. u = d
        BY <1>8 DEF AuthFetch, d
    <2> QED
        BY <1>5, <1>6, <2>1
<1> QED
    BY <1>7, <1>8

(* Whichever handler goes on, nobody is left waiting for it.               *)
LEMMA ResumeOwed ==
    ASSUME Good(ui), Owed(ui, "none"), NEW s \in Slots, ui.calls[s].kind # "none",
           NEW how, Starts(s, how) => Room(ui),
           how = "ok" /\ ui.calls[s].kind = "login" => NewTokens # {},
           NEW data \in SUBSET Devices, NEW v, v = Resume(s, how, data)
    PROVE  Owed(v, "none")
<1> DEFINE c  == ui.calls[s]
           u  == AuthFetch(Done(ui, s), how)
           ok == how = "ok"
<1>1. c \in Calls /\ c.kind \in Kinds /\ c.kind # "none" /\ ok \in BOOLEAN
    BY DEF Good, Half, Page, Calls, Kinds
<1>2. Half(u) /\ u.calls[s].kind = "none"
    BY AnsweredGood
<1>3. ok /\ c.kind \in {"login", "check"} => \E t \in Slots : t # s /\ u.calls[t].kind = "none"
    BY AnsweredGood DEF Starts
<1>4. ok /\ c.kind = "login" => NewTokens # {}
    OBVIOUS
<1>5. c.kind # "fleet" => Good(u)
    BY AnsweredGood
<1>6. c.kind = "fleet" => Out(u, "fleet") = {}
    BY AnsweredGood
<1>7. v = CASE c.kind = "login"  -> LoginDone(u, ok)
            [] c.kind = "check"  -> CheckDone(u, ok)
            [] c.kind = "logout" -> RequireLogin(u)
            [] c.kind = "list"   -> ListDone(u, s, c, ok, data)
            [] c.kind = "config" -> ConfigDone(u, s, c)
            [] c.kind = "save"   -> u
            [] c.kind = "fleet"  -> AfterPoll(FleetDone(u, ok, data), c.then)
            [] c.kind = "add"    -> AddDone(u, s, ok)
            [] c.kind = "edit"   -> EditDone(u, s, ok)
            [] c.kind = "delete" -> DeleteDone(u, s, ok)
    BY DEF Resume
<1>8. c.kind # "login" => Owed(u, c.then)
    BY AnsweredOwed
<1>9. c.then \notin {"check", "login"} => (Unpolled(u) => StartAwaited(u))
    BY AnsweredOwed
<1>10. c.kind \notin {"list", "config", "fleet"} => c.then \notin {"check", "login"}
    BY <1>1 DEF Calls
<1> HIDE DEF c, u, ok
<1>11. c.kind \notin {"login", "list", "config", "fleet"} => Owed(u, "none")
    BY <1>8, <1>10, OwedByOthers
<1>12. CASE c.kind = "login"
    <2>1. v = LoginDone(u, ok)
        BY <1>7, <1>12
    <2> QED
        BY <1>1, <1>2, <1>3, <1>4, <1>5, <1>9, <1>10, <1>12, <2>1, LoginDoneOwed
<1>13. CASE c.kind = "check"
    <2>1. v = CheckDone(u, ok)
        BY <1>7, <1>13
    <2> QED
        BY <1>1, <1>2, <1>3, <1>5, <1>11, <1>13, <2>1, CheckDoneOwed
<1>14. CASE c.kind = "logout"
    <2>1. v = RequireLogin(u)
        BY <1>7, <1>14
    <2> QED
        BY <1>2, <1>11, <1>14, <2>1, RequireLoginOwed
<1>15. CASE c.kind = "list"
    <2>1. v = ListDone(u, s, c, ok, data)
        BY <1>7, <1>15
    <2> QED
        BY <1>1, <1>2, <1>5, <1>8, <1>15, <2>1, ListDoneOwed
<1>16. CASE c.kind = "config"
    <2>1. v = ConfigDone(u, s, c)
        BY <1>7, <1>16
    <2> QED
        BY <1>1, <1>2, <1>5, <1>8, <1>16, <2>1, ConfigDoneOwed
<1>17. CASE c.kind = "save"
    BY <1>7, <1>11, <1>17
<1>18. CASE c.kind = "fleet"
    <2> DEFINE w == FleetDone(u, ok, data)
    <2>1. v = AfterPoll(w, c.then)
        BY <1>7, <1>18
    <2>2. Good(w) /\ w.calls = u.calls /\ SameLogin(w, u) /\ SameTimer(w, u)
        BY <1>1, <1>2, <1>6, <1>18, FleetDoneGood
    <2> HIDE DEF w
    <2>3. Owed(w, c.then)
        BY <1>8, <1>18, <2>2, OwedSame
    <2> QED
        BY <2>1, <2>2, <2>3, AfterPollOwed
<1>19. CASE c.kind = "add"
    <2>1. v = AddDone(u, s, ok)
        BY <1>7, <1>19
    <2> QED
        BY <1>1, <1>2, <1>5, <1>11, <1>19, <2>1, WrittenOwed
<1>20. CASE c.kind = "edit"
    <2>1. v = EditDone(u, s, ok)
        BY <1>7, <1>20
    <2> QED
        BY <1>1, <1>2, <1>5, <1>11, <1>20, <2>1, WrittenOwed
<1>21. CASE c.kind = "delete"
    <2>1. v = DeleteDone(u, s, ok)
        BY <1>7, <1>21
    <2> QED
        BY <1>1, <1>2, <1>5, <1>11, <1>21, <2>1, DeleteDoneOwed
<1> QED
    BY <1>1, <1>12, <1>13, <1>14, <1>15, <1>16, <1>17, <1>18, <1>19, <1>20, <1>21 DEF Kinds

(* Nobody waits on a page that was just loaded.                            *)
LEMMA LoadedOwed ==
    ASSUME NEW t \in Tokens \cup {NoToken}, NEW v, v = Loaded(t)
    PROVE  Owed(v, "none")
<1> DEFINE u == [authenticated |-> FALSE, token |-> t, loginBusy |-> FALSE,
                 timers |-> 0, clockTimer |-> FALSE, updateInFlight |-> FALSE, hidden |-> FALSE,
                 pis |-> {}, cards |-> [d \in Devices |-> "none"],
                 histories |-> [d \in Devices |-> 0],
                 pendingDelete |-> NoDevice, confirm |-> NoDevice,
                 calls |-> [s \in Slots |-> NoCall]]
<1>1. Half(u) /\ u.loginBusy = FALSE /\ u.authenticated = FALSE
    BY NoCallIsCall, HistoryAssumption
       DEF Half, Page, CardsMatch, TimerMatches, DialogMatches
<1>2. \A s \in Slots : u.calls[s].kind = "none"
    BY NoCallIsCall
<1>3. v = IF t = NoToken THEN RequireLogin(u) ELSE Send(u, Slot(u), "check", "none")
    BY DEF Loaded
<1> HIDE DEF u
<1>4. CASE t = NoToken
    <2>1. v.authenticated = FALSE /\ v.loginBusy = FALSE
        BY <1>1, <1>3, <1>4, RequireLoginHalf
    <2> QED
        BY <2>1 DEF Owed, Unpolled
<1>5. CASE t # NoToken
    <2>1. 1 \in Slots
        BY BoundsAssumption DEF Slots
    <2>2. Room(u)
        BY <1>2, <2>1 DEF Room, Out
    <2>3. Slot(u) \in Slots
        BY <2>2, SlotIsFree
    <2>4. "check" \in Kinds /\ "none" \in Thens /\ Awaits("check", "none")
        BY DEF Kinds, Thens, Awaits
    <2>5. SameLogin(v, u)
        BY <1>1, <1>3, <1>5, <2>3, <2>4, Sent
    <2> QED
        BY <1>1, <2>5 DEF Owed, Unpolled, SameLogin
<1> QED
    BY <1>4, <1>5

(* A user's request keeps nobody from waiting.                             *)
LEMMA AskedOwed ==
    ASSUME NEW u, Good(u), Room(u), NEW kind \in Kinds \ {"fleet"},
           Owed(u, "none"), NEW v, v = Send(u, Slot(u), kind, "none")
    PROVE  Owed(v, "none")
<1>1. Slot(u) \in Slots /\ u.calls[Slot(u)].kind = "none"
    BY SlotIsFree
<1>2. "none" \in Thens /\ Awaits(kind, "none")
    BY DEF Thens, Awaits
<1> QED
    BY <1>1, <1>2, SendOwed

(* Whatever the user does, whoever waits still waits for a request.        *)
LEMMA UserOwed ==
    ASSUME Good(ui), Owed(ui, "none"), User
    PROVE  Owed(ui', "none")
<1>1. ui \in Page /\ Half(ui)
    BY DEF Good, Half
<1>2. CASE Reload
    <2>1. ui.token \in Tokens \cup {NoToken}
        BY <1>1 DEF Page
    <2> QED
        BY <1>2, <2>1, LoadedOwed DEF Reload
<1>3. CASE SubmitLogin
    <2> DEFINE u == [ui EXCEPT !.loginBusy = TRUE]
    <2>1. Good(u)
        BY BusyGood
    <2>2. Slot(ui) \in Slots
        BY <1>3, SlotIsFree DEF SubmitLogin
    <2>3. ui' = Send(u, Slot(ui), "login", "none") /\ ~ui.authenticated
        BY <1>3 DEF SubmitLogin
    <2>4. u.authenticated = ui.authenticated
        BY <1>1, SetBusy
    <2> HIDE DEF u
    <2>5. "login" \in Kinds /\ "none" \in Thens /\ Awaits("login", "none")
        BY DEF Kinds, Thens, Awaits
    <2>6. Half(u)
        BY <2>1 DEF Good
    <2>7. ui'.calls[Slot(ui)].kind = "login" /\ SameLogin(ui', u)
        BY <2>2, <2>3, <2>5, <2>6, Sent
    <2>8. LoginAwaited(ui')
        BY <2>2, <2>7 DEF LoginAwaited
    <2>9. ~Unpolled(ui')
        BY <2>3, <2>4, <2>7 DEF SameLogin, Unpolled
    <2> QED
        BY <2>8, <2>9 DEF Owed
<1>4. CASE Logout
    BY <1>4, AskedOwed DEF Logout, Kinds
<1>5. CASE OpenPiManager
    BY <1>5, AskedOwed DEF OpenPiManager, Kinds
<1>6. CASE SubmitAdd
    BY <1>6, AskedOwed DEF SubmitAdd, Kinds
<1>7. CASE SubmitEdit
    BY <1>7, AskedOwed DEF SubmitEdit, Kinds
<1>8. CASE OpenFanSettings
    BY <1>8, AskedOwed DEF OpenFanSettings, Kinds
<1>9. CASE SaveFanConfig
    BY <1>9, AskedOwed DEF SaveFanConfig, Kinds
<1>10. CASE AskDelete
    <2>1. PICK d \in Devices : ui' = WithDialog(ui, d, d)
        BY <1>1, <1>10 DEF AskDelete, WithDialog, Page
    <2>2. SameTimer(ui', ui) /\ SamePoll(ui', ui) /\ SameLogin(ui', ui)
        BY <1>1, <2>1, SetDialog
    <2> QED
        BY <2>2, OwedSame DEF SamePoll
<1>11. CASE CancelDelete
    BY <1>11, ClosedOwed DEF CancelDelete
<1>12. CASE ConfirmDelete
    <2>1. CASE ui.pendingDelete = NoDevice
        BY <1>12, <2>1, ClosedOwed DEF ConfirmDelete
    <2>2. CASE ui.pendingDelete # NoDevice
        BY <1>12, <2>2, AskedOwed DEF ConfirmDelete, Kinds
    <2> QED
        BY <2>1, <2>2
<1>13. CASE Hide
    <2>1. ui' = [ui EXCEPT !.hidden = TRUE]
        BY <1>13 DEF Hide
    <2>2. SameTimer(ui', ui) /\ SamePoll(ui', ui) /\ SameLogin(ui', ui)
        BY <1>1, <2>1, SetHidden
    <2> QED
        BY <2>2, OwedSame DEF SamePoll
<1>14. CASE Show
    <2> DEFINE u == [ui EXCEPT !.hidden = FALSE]
    <2>1. /\ u \in Page /\ SameLogin(u, ui)
          /\ SameShown(u, ui) /\ SameTimer(u, ui) /\ SameDialog(u, ui) /\ SamePoll(u, ui)
        BY <1>1, SetHidden
    <2>2. Slot(ui) \in Slots /\ ui.calls[Slot(ui)].kind = "none"
        BY <1>14, SlotIsFree DEF Show
    <2>3. ui' = PollStatuses(u, Slot(ui), "none")
        BY <1>14 DEF Show
    <2> HIDE DEF u
    <2>4. Good(u)
        BY <1>1, <2>1, HalfKept, GoodKept
    <2>5. Owed(u, "none") /\ u.calls[Slot(ui)].kind = "none"
        BY <2>1, <2>2, OwedSame DEF SamePoll
    <2> QED
        BY <2>2, <2>3, <2>4, <2>5, PollStatusesOwed DEF Thens
<1> QED
    BY <1>2, <1>3, <1>4, <1>5, <1>6, <1>7, <1>8, <1>9, <1>10, <1>11, <1>12, <1>13, <1>14 DEF User

-----------------------------------------------------------------------------
(* The invariant.                                                          *)

(* Between two steps nobody is owed anything but by a request.             *)
Sound(u) == Good(u) /\ Owed(u, "none")

(* The invariant of the module is what the lemmas keep.                    *)
LEMMA IInvIsSound == IInv <=> Sound(ui)
<1>1. TypeOK /\ CardsAreList /\ OnePoll /\ OneTimer /\ ConfirmNamesTarget <=> Good(ui)
    BY DEF TypeOK, CardsAreList, OnePoll, OneTimer, ConfirmNamesTarget,
           Good, Half, CardsMatch, PollMatches, TimerMatches, DialogMatches
<1>2. TypeOK => (StartUpOut <=> Owed(ui, "none"))
    BY DEF TypeOK, Page, StartUpOut, Busy, Owed, Unpolled, LoginAwaited, StartAwaited
<1> QED
    BY <1>1, <1>2 DEF IInv, Sound, Good, Half, TypeOK

(* The same after a step.                                                  *)
LEMMA IInvIsSoundNext == IInv' <=> Sound(ui')
<1>1. (TypeOK /\ CardsAreList /\ OnePoll /\ OneTimer /\ ConfirmNamesTarget)' <=> Good(ui')
    BY DEF TypeOK, CardsAreList, OnePoll, OneTimer, ConfirmNamesTarget,
           Good, Half, CardsMatch, PollMatches, TimerMatches, DialogMatches
<1>2. TypeOK' => (StartUpOut' <=> Owed(ui', "none"))
    BY DEF TypeOK, Page, StartUpOut, Busy, Owed, Unpolled, LoginAwaited, StartAwaited
<1> QED
    BY <1>1, <1>2 DEF IInv, Sound, Good, Half, TypeOK

(* It holds of the page that was just loaded.                              *)
LEMMA InitIInv == Init => IInv
<1> SUFFICES ASSUME Init PROVE Sound(ui)
    BY IInvIsSound
<1>1. ui = Loaded(NoToken)
    BY DEF Init
<1> QED
    BY <1>1, LoadedGood, LoadedOwed DEF Sound

(* And every step keeps it.                                                *)
LEMMA NextIInv == IInv /\ [Next]_ui => IInv'
<1> SUFFICES ASSUME Sound(ui), [Next]_ui PROVE Sound(ui')
    BY IInvIsSound, IInvIsSoundNext
<1>0. Good(ui) /\ Owed(ui, "none")
    BY DEF Sound
<1>1. CASE User
    BY <1>0, <1>1, UserGood, UserOwed DEF Sound
<1>2. CASE Tick
    <2>1. /\ Slot(ui) \in Slots /\ ui.calls[Slot(ui)].kind = "none"
          /\ ui' = PollStatuses(ui, Slot(ui), "none")
        BY <1>2, SlotIsFree DEF Tick
    <2> QED
        BY <1>0, <2>1, PollStatusesGood, PollStatusesOwed DEF Thens, Sound
<1>3. CASE \E s \in Slots : Deliver(s)
    <2>1. PICK s \in Slots : Deliver(s)
        BY <1>3
    <2>2. PICK how \in {"ok", "denied", "refused"} :
              /\ Starts(s, how) => Room(ui)
              /\ how = "ok" /\ ui.calls[s].kind = "login" => NewTokens # {}
              /\ \E data \in IF how = "ok" /\ ui.calls[s].kind \in {"list", "fleet"}
                             THEN SUBSET Devices ELSE {{}} :
                    ui' = Resume(s, how, data)
        BY <2>1 DEF Deliver
    <2>3. PICK data \in SUBSET Devices : ui' = Resume(s, how, data)
        BY <2>2
    <2>4. ui.calls[s].kind # "none"
        BY <2>1 DEF Deliver
    <2> QED
        BY <1>0, <2>2, <2>3, <2>4, ResumeGood, ResumeOwed DEF Sound
<1>4. CASE \E s \in Slots : Lose(s) \/ Abort(s)
    <2>1. PICK s \in Slots : Lose(s) \/ Abort(s)
        BY <1>4
    <2>2. ui.calls[s].kind # "none" /\ ui' = Resume(s, "failed", {})
        BY <2>1 DEF Lose, Abort, Failed
    <2>3. ~Starts(s, "failed")
        BY DEF Starts
    <2> QED
        BY <1>0, <2>2, <2>3, ResumeGood, ResumeOwed DEF Sound
<1>5. CASE UNCHANGED ui
    BY <1>5
<1> QED
    BY <1>1, <1>2, <1>3, <1>4, <1>5 DEF Next

(* The invariant of the page holds, whatever the user, the server and the  *)
(* network do and when.                                                    *)
THEOREM IInvHolds == Spec => []IInv
    BY InitIInv, NextIInv, PTL DEF Spec

(* The page keeps its types, whatever the server answers and when.         *)
THEOREM TypeCorrect == Spec => []TypeOK
<1>1. IInv => TypeOK
    BY DEF IInv
<1> QED
    BY <1>1, IInvHolds, PTL

(* The page shows a card for each Pi of the list it loaded last and for no *)
(* other, and no history of a Pi that was removed.                         *)
THEOREM CardsFollowList == Spec => []CardsAreList
<1>1. IInv => CardsAreList
    BY DEF IInv
<1> QED
    BY <1>1, IInvHolds, PTL

(* updateInFlight is set exactly while one status request is out.          *)
THEOREM OnePollAtATime == Spec => []OnePoll
<1>1. IInv => OnePoll
    BY DEF IInv
<1> QED
    BY <1>1, IInvHolds, PTL

(* However start-ups, logouts and refusals overlap, no interval runs that  *)
(* the page has forgotten.                                                 *)
THEOREM NoForgottenTimer == Spec => []OneTimer
<1>1. IInv => OneTimer
    BY DEF IInv
<1> QED
    BY <1>1, IInvHolds, PTL

(* The Pi that is removed is the one the open dialog names.                *)
THEOREM DialogIsHonest == Spec => []ConfirmNamesTarget
<1>1. IInv => ConfirmNamesTarget
    BY DEF IInv
<1> QED
    BY <1>1, IInvHolds, PTL

(* Whichever request of a start-up is answered last, lost or refused, and  *)
(* whoever signs out in between, a disabled login button and a signed-in   *)
(* page that does not poll always have a request out whose end goes on     *)
(* with them: the safe half of StartUpEnds.                                *)
THEOREM StartUpNeverStuck == Spec => []StartUpOut
<1>1. IInv => StartUpOut
    BY DEF IInv
<1> QED
    BY <1>1, IInvHolds, PTL

-----------------------------------------------------------------------------
(* The rules of the forms.                                                 *)

(* Of all numbers, fractions included, the form's check and the server's   *)
(* rules accept the same curves but for one rule that only the server has: *)
(* min_duty is an integer (exact_integer).                                 *)
THEOREM FormIsConfig ==
    ASSUME NEW u \in Nat \ {0}, NEW f \in FanForm
    PROVE  ServerAccepts(f, u) <=> FormAccepts(f, u) /\ Whole(f.min_duty, u)
<1>1. f.gpio \in Int /\ f.start_temp \in Int /\ f.full_temp \in Int
      /\ f.min_duty \in Int /\ f.hysteresis \in Int
    BY DEF FanForm
<1>2. ASSUME NEW g \in FormGpios, f.gpio = g * u
      PROVE  Whole(f.gpio, u)
    BY <1>2 DEF Whole, FormGpios
<1>3. AllowedGpios = FormGpios
    BY DEF AllowedGpios, FormGpios
<1>4. /\ f.start_temp \in 20 * u .. 75 * u
         <=> ~(f.start_temp < 20 * u \/ f.start_temp > 75 * u)
      /\ f.full_temp \in (f.start_temp + 5 * u) .. 90 * u
         <=> ~(f.full_temp < f.start_temp + 5 * u \/ f.full_temp > 90 * u)
      /\ f.min_duty \in 35 * u .. 100 * u
         <=> ~(f.min_duty < 35 * u \/ f.min_duty > 100 * u)
      /\ f.hysteresis \in 0 .. 10 * u <=> ~(f.hysteresis < 0 \/ f.hysteresis > 10 * u)
    BY <1>1
<1> QED
    BY <1>2, <1>3, <1>4, Zenon DEF ServerAccepts, FormAccepts

(* What the inputs let through (min, max and step) meets the rule the      *)
(* check leaves out: no curve that the page sends is answered 400 for its  *)
(* numbers, and none that the server would take is refused by the check.   *)
THEOREM FormSendsConfig ==
    ASSUME NEW u \in Nat \ {0}, NEW f \in FanForm, InputsAllow(f, u)
    PROVE  FormAccepts(f, u) <=> ServerAccepts(f, u)
BY FormIsConfig, Zenon DEF InputsAllow

(* A fraction the server keeps may be one the inputs do not let through:   *)
(* a curve edited by hand, 40.5 degrees to start say, is shown and can not *)
(* be sent back as it is (step="1").                                       *)
THEOREM HalfDegreeNotSent ==
    \E f \in FanForm : ServerAccepts(f, 2) /\ FormAccepts(f, 2) /\ ~InputsAllow(f, 2)
<1> DEFINE f == [gpio |-> 28, start_temp |-> 81, full_temp |-> 120, min_duty |-> 90, hysteresis |-> 4]
<1>1. f \in FanForm
    BY DEF FanForm
<1>2. /\ f.gpio = 28 /\ f.start_temp = 81 /\ f.full_temp = 120 /\ f.min_duty = 90
      /\ f.hysteresis = 4
    OBVIOUS
<1> HIDE DEF f
<1>3. Whole(f.gpio, 2) /\ Whole(f.min_duty, 2)
    <2>1. 28 = 14 * 2 /\ 90 = 45 * 2
        OBVIOUS
    <2> QED
        BY <1>2, <2>1 DEF Whole
<1>4. ~Whole(f.start_temp, 2)
    BY <1>2 DEF Whole
<1>5. \E g \in AllowedGpios : f.gpio = g * 2
    BY <1>2 DEF AllowedGpios
<1>6. ServerAccepts(f, 2)
    BY <1>2, <1>3, <1>5 DEF ServerAccepts
<1> QED
    BY <1>1, <1>4, <1>6, FormIsConfig DEF InputsAllow

(* In whole degrees these are the rules the controller is modelled with.   *)
THEOREM WholeDegrees ==
    ASSUME NEW f \in FanForm
    PROVE  ServerAccepts(f, 1) <=> ValidConfig(AsConfig(f))
<1>1. f.gpio \in Int /\ f.start_temp \in Int /\ f.full_temp \in Int
      /\ f.min_duty \in Int /\ f.hysteresis \in Int
    BY DEF FanForm
<1>2. AsConfig(f) \in Config
    BY <1>1 DEF AsConfig, Config
<1>3. /\ AsConfig(f).gpio = f.gpio /\ AsConfig(f).start_temp = f.start_temp
      /\ AsConfig(f).full_temp = f.full_temp /\ AsConfig(f).min_duty = f.min_duty
      /\ AsConfig(f).hysteresis = f.hysteresis /\ ~AsConfig(f).force
    BY DEF AsConfig
<1>4. ValidConfig(AsConfig(f)) <=>
         /\ f.gpio \in AllowedGpios
         /\ f.start_temp \in 20 .. 75
         /\ f.full_temp \in (f.start_temp + 5) .. 90
         /\ f.min_duty \in 35 .. 100
         /\ f.hysteresis \in 0 .. 10
    BY <1>2, <1>3 DEF ValidConfig
<1>5. Whole(f.gpio, 1) /\ Whole(f.min_duty, 1)
    BY <1>1 DEF Whole
<1>6. f.gpio \in AllowedGpios <=> \E g \in AllowedGpios : f.gpio = g * 1
    BY <1>1 DEF AllowedGpios
<1> QED
    BY <1>1, <1>4, <1>5, <1>6 DEF ServerAccepts

(* loadPiList rejects no list for an entry of it that the server accepted. *)
THEOREM ListLoads ==
    ASSUME NEW ip, NEW port, NormalEntry(ip, port)
    PROVE  FormAcceptsEntry(ip, port)
<1>1. port \in Int /\ port >= 1024 /\ port <= 65535
    BY SMT DEF NormalEntry, Private
<1>2. \A i \in 1 .. 4 : ip[i] \in 0 .. 255
    BY DEF NormalEntry, Private
<1>3. \A i \in 1 .. 4 : ip[i] >= 0 /\ ip[i] <= 255
    BY <1>2
<1> QED
    BY <1>1, <1>3 DEF FormAcceptsEntry

(* The curve the controller falls back to passes the rules for a curve,    *)
(* so a status published in fail-safe is not refused by clean_remote_status. *)
THEOREM FailSafeIsShown ==
    ASSUME NEW gpio \in AllowedGpios
    PROVE  ValidConfig(AsConfig([FailSafeConfig EXCEPT !.gpio = gpio]))
<1> DEFINE c == [FailSafeConfig EXCEPT !.gpio = gpio]
<1>1. /\ c.gpio = gpio /\ c.start_temp = 20 /\ c.full_temp = 25 /\ c.min_duty = 100
      /\ c.hysteresis = 0
    BY DEF FailSafeConfig
<1>2. gpio \in Int
    BY DEF AllowedGpios
<1> HIDE DEF c
<1>3. AsConfig(c) = [gpio |-> gpio, start_temp |-> 20, full_temp |-> 25, min_duty |-> 100,
                     hysteresis |-> 0, force |-> FALSE]
    BY <1>1 DEF AsConfig
<1>4. AsConfig(c) \in Config
    BY <1>2, <1>3 DEF Config
<1> QED
    BY <1>3, <1>4 DEF ValidConfig, c
=============================================================================
