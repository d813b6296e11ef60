---------------------------- MODULE ContestPages ----------------------------
(***************************************************************************)
(* The pages of a contestant in one tab of the browser: the router         *)
(* (ui/src/utils/router.ts), the list of kims (pages/main.tsx), the        *)
(* contest (pages/solve.tsx) and the login (pages/login.tsx), with one kim *)
(* that is not virtual, and the answers the server has and scores.         *)
(*                                                                         *)
(* A navigation unmounts the page that is current, which may refuse, makes *)
(* the next one current, and mounts it, which waits for a request.  While  *)
(* it does, another navigation may begin; the first mount goes on all the  *)
(* same when its answer comes.  What redirect starts is a timer of 0 ms,   *)
(* which goes off before the user or an interval of 200 ms does anything.  *)
(*                                                                         *)
(* The two requests of a mount are one.  The clocks of the server and of   *)
(* the contestant differ.  What the server makes of tokens, and when       *)
(* exactly it accepts an answer, is the matter of Contest.                 *)
(***************************************************************************)
EXTENDS Grading

CONSTANTS Tasks,    \* 1..n
          Cells,    \* how many cells the answer of each task has
          Typed,    \* what is typed in the cells of an answer
          Juries,   \* right cells and the policy of each task, that may be entered
          Budgets   \* bound: navigations of the user and of intervals that leaked, steps in
            \* the contest, and failures

\* A kim without tasks has none to show first, and nothing to answer.
SomeTasks == IsFiniteSet(Tasks) /\ 1 \in Tasks

ASSUME ContestPagesAssumption ==
  SomeTasks /\ Cells \in [Tasks -> Nat \ {0}] /\ Budgets \subseteq [go : Nat, answer : Nat, fail : Nat]

VARIABLES
  role,     \* the account of the contestant: may be an administrator's
  time,     \* of the contest, by the clock of the server
  clock,    \* the same by the contestant's: "running" until it is "over"
  ended,    \* the participation was ended
  jury,     \* the tasks' right answers
  answers,  \* users_answers: the last of each task, and its score
  tab,      \* what the tab has and shows
  sends,    \* answers in flight
  budget,   \* what may still happen
  typed     \* history: the cells that the stored answer was made of

vars == <<role, time, clock, ended, jury, answers, tab, sends, budget, typed>>
world == <<role, time, clock, ended, jury>>

Nothing == 0
LoginForm == -1
Plain(cells) == \A i \in DOMAIN cells : ToSet(cells[i]) \cap Wide = {}
Blank(t) == [i \in 1..Cells[t] |-> <<>>]

\* Page and its subclasses; at says how far mount has come; given is the answer of
\* each task in settings.  troubled and fresh are history: the answers are not the
\* server's; the shown cells were not changed.
NewPage(url, at, unloadable) ==
  [url |-> url, at |-> at, unloadable |-> unloadable, interval |-> FALSE, lastStatus |-> 1,
   currentPos |-> 1, given |-> [t \in Tasks |-> <<>>],
   inputs |-> [t \in Tasks |-> Blank(t)], hasAnswers |-> [t \in Tasks |-> FALSE],
   answerCount |-> 0, troubled |-> FALSE, fresh |-> TRUE]

\* back is where the login that was sent leads to.
\* overtaken is history: pages whose mount was not done when they were unmounted.
NewTab(user) ==
  [user |-> user, pages |-> <<>>, current |-> Nothing, main |-> Nothing, shade |-> TRUE,
   timers |-> <<>>, address |-> "", back |-> "", loggingIn |-> FALSE, loggingOut |-> FALSE,
   ending |-> Nothing, overtaken |-> {}]

IsSolve(b, i) == i > 0 /\ b.pages[i].url = "solve"
ShownSolve(b) == IsSolve(b, b.main)

-----------------------------------------------------------------------------
\* unload
Leaves(b) == b.current = Nothing \/ b.pages[b.current].unloadable

\* Fault: the interval goes on.
UnmountedOnly(b) == [b EXCEPT !.current = Nothing]

\* unmount of a page that leaves.
Unmounted(b) ==
  IF b.current = Nothing THEN b
  ELSE [b EXCEPT !.pages[b.current].interval = FALSE, !.current = Nothing,
                 !.overtaken = IF b.pages[b.current].at \in {"asked", "served", "refused"}
                               THEN @ \cup {b.current} ELSE @]

Redirect(b, url) == [b EXCEPT !.timers = Append(@, url)]

\* The login page, where requireAuth leads to, and the parameter it is given.
LoginUrls == {"login", "login?back=", "login?back=solve"}
LoginFor(url) == IF url = "solve" THEN "login?back=solve" ELSE "login?back="
BackOf(url) == IF url = "login?back=solve" THEN "solve" ELSE ""

\* requireAuth and the beginning of mount, or showLoginPage.
Enter(b, url) ==
  LET opened(page) == [b EXCEPT !.pages = Append(@, page), !.current = Len(b.pages) + 1,
                                !.address = url]
  IN CASE url = "#update-header" -> b
       [] url = "#logout" -> [b EXCEPT !.loggingOut = TRUE]
       [] url \in LoginUrls /\ b.user # "none" -> Redirect([b EXCEPT !.address = url], "")
       [] url \in LoginUrls /\ b.user = "none" ->
            [b EXCEPT !.address = url, !.main = LoginForm, !.shade = FALSE]
       [] url \in {"", "solve"} /\ b.user = "none" ->
            Redirect(opened(NewPage(url, "failed", TRUE)), LoginFor(url))
       [] url \in {"", "solve"} /\ b.user # "none" ->
            opened(NewPage(url, "asked", url = "" \/ b.user = "admin"))

goTo(b, url) ==
  IF Leaves(b) THEN Enter([Unmounted(b) EXCEPT !.main = Nothing, !.shade = TRUE], url)
  ELSE [b EXCEPT !.shade = FALSE]

-----------------------------------------------------------------------------
\* The first navigation of a tab that is opened at the list of kims.
Init ==
  /\ role \in {"contestant", "admin"}
  /\ time \in {"before", "running"} /\ clock = "running" /\ ended = FALSE
  /\ jury \in Juries
  /\ answers = [t \in Tasks |-> [bytes |-> <<>>, score |-> <<0, 1>>]]
  /\ typed = [t \in Tasks |-> Blank(t)]
  /\ tab \in {goTo(NewTab("none"), ""), goTo(NewTab(role), "")}
  /\ sends = {}
  /\ budget \in Budgets

Spends(kind) == budget[kind] > 0 /\ budget' = [budget EXCEPT ![kind] = @ - 1]
Step(b) == tab' = b /\ UNCHANGED <<world, answers, sends, typed>>

ServerClock ==
  /\ time # "over"
  /\ time' = IF time = "before" THEN "running" ELSE "over"
  /\ UNCHANGED <<role, clock, ended, jury, answers, tab, sends, budget, typed>>

Clock ==
  /\ time # "before" /\ clock = "running"
  /\ clock' = "over"
  /\ UNCHANGED <<role, time, ended, jury, answers, tab, sends, budget, typed>>

\* The timer of a redirect.
Timer ==
  /\ tab.timers # <<>>
  /\ Step(goTo([tab EXCEPT !.timers = Tail(@)], Head(tab.timers)))
  /\ UNCHANGED budget

\* Links, the back button, and the button of the header.
Go(url) ==
  /\ tab.timers = <<>> /\ Spends("go")
  /\ url = "#logout" => tab.user # "none"
  /\ Step(Redirect(tab, url))

\* The tab is loaded again, whatever beforeunload asked.
Reload ==
  /\ Spends("go")
  /\ tab' = goTo(NewTab(tab.user), tab.address)
  /\ sends' = {[s EXCEPT !.page = Nothing] : s \in sends}
  /\ UNCHANGED <<world, answers, typed>>

\* The request of a mount is handled: the tasks are given to who may take part.
Serve(i) ==
  /\ tab.pages[i].at = "asked"
  /\ \/ /\ IsSolve(tab, i) => time = "running" /\ ~ended
        /\ Step([tab EXCEPT !.pages[i].at = "served",
                            !.pages[i].given = [t \in Tasks |-> answers[t].bytes],
                            !.pages[i].troubled = sends # {}])
        /\ UNCHANGED budget
     \/ /\ IsSolve(tab, i) => time = "running" /\ ~ended
        /\ Spends("fail") /\ Step([tab EXCEPT !.pages[i].at = "refused"])
     \/ /\ IsSolve(tab, i) /\ (time # "running" \/ ended)
        /\ Step([tab EXCEPT !.pages[i].at = "refused"]) /\ UNCHANGED budget

\* What is left of a page when its mount throws.
Failed(b, i) == [b EXCEPT !.pages[i].at = "failed"]

\* updateCountdown of a KimEntry; goTo is called from its interval.
CountMain(b, i) ==
  LET status == CASE time = "before" -> 0 [] time = "running" -> 1 [] OTHER -> 2
      gone == IF status = 1 /\ b.pages[i].lastStatus = 0 THEN goTo(b, "solve") ELSE b
  IN [gone EXCEPT !.pages[i].lastStatus = status]

\* The rest of mount of MainPage.
MountMain(b, i) ==
  IF b.pages[i].at = "refused" THEN [Failed(b, i) EXCEPT !.shade = FALSE]
  ELSE [CountMain(b, i) EXCEPT !.pages[i].at = "shown", !.pages[i].interval = TRUE,
                               !.main = i, !.shade = FALSE]

\* Fault: the page may not be left after the end.
CountSolveOnly(b, i) == IF clock = "over" THEN Redirect(b, "") ELSE b

\* updateCountdown of the contest.
CountSolve(b, i) ==
  IF clock = "over" THEN Redirect([b EXCEPT !.pages[i].unloadable = TRUE], "") ELSE b

\* showTask
ShowTask(p, t) ==
  [p EXCEPT !.currentPos = t, !.fresh = TRUE, !.inputs[t] = Flushed(@, p.given[t])]

\* The rest of mount of KimSolvePage.
MountSolve(b, i) ==
  LET has == [t \in Tasks |-> b.pages[i].given[t] # <<>>]
      made == [b.pages[i] EXCEPT
                 !.at = "shown", !.interval = TRUE, !.hasAnswers = has,
                 !.answerCount = Cardinality({t \in Tasks : has[t]}),
                 !.inputs = [t \in Tasks |-> Flushed(Blank(t), b.pages[i].given[t])]]
  IN IF b.pages[i].at = "refused" THEN Failed(b, i)
     ELSE IF clock = "over" THEN CountSolve(Failed(b, i), i)
     ELSE [b EXCEPT !.pages[i] = ShowTask(made, 1), !.main = i, !.shade = FALSE]

Mount(i) ==
  /\ tab.pages[i].at \in {"served", "refused"}
  /\ Step(IF IsSolve(tab, i) THEN MountSolve(tab, i) ELSE MountMain(tab, i))
  /\ UNCHANGED budget

\* An interval nobody stops starts a navigation again and again.
Interval(i) ==
  LET counted == IF IsSolve(tab, i) THEN CountSolve(tab, i) ELSE CountMain(tab, i)
  IN /\ tab.pages[i].interval /\ tab.timers = <<>> /\ counted # tab
     /\ Step(counted)
     /\ IF i \in tab.overtaken THEN Spends("go") ELSE UNCHANGED budget

-----------------------------------------------------------------------------
\* The form of the login, and its answer.
Login ==
  /\ tab.main = LoginForm /\ ~tab.loggingIn
  /\ Step([tab EXCEPT !.loggingIn = TRUE, !.shade = TRUE, !.back = BackOf(tab.address)])
  /\ UNCHANGED budget

LoggedIn ==
  LET over == [tab EXCEPT !.loggingIn = FALSE]
  IN /\ tab.loggingIn
     /\ \/ /\ Step(Redirect(goTo([over EXCEPT !.user = role], "#update-header"), tab.back))
           /\ UNCHANGED budget
        \/ Spends("fail") /\ Step([over EXCEPT !.shade = FALSE])

\* The rest of logout.
LoggedOut ==
  LET over == [tab EXCEPT !.loggingOut = FALSE]
      gone == goTo([over EXCEPT !.user = "none"], "#update-header")
  IN /\ tab.loggingOut
     /\ \/ Step(Redirect(gone, "login")) /\ UNCHANGED budget
        \/ Spends("fail") /\ Step(over)

\* The button that ends the participation, and its answer, which may be lost.
End ==
  /\ ShownSolve(tab) /\ tab.ending = Nothing /\ Spends("go")
  /\ Step([tab EXCEPT !.ending = tab.main])

Ended ==
  LET over == [tab EXCEPT !.ending = Nothing]
  IN /\ tab.ending # Nothing
     /\ \/ /\ ended' = TRUE
           /\ tab' = goTo([over EXCEPT !.pages[tab.ending].unloadable = TRUE], "")
           /\ UNCHANGED budget
        \/ ended' \in BOOLEAN /\ (ended => ended') /\ tab' = over /\ Spends("fail")
     /\ UNCHANGED <<role, time, clock, jury, answers, sends, typed>>

-----------------------------------------------------------------------------
InContest(p) ==
  /\ ShownSolve(tab) /\ tab.timers = <<>> /\ Spends("answer")
  /\ Step([tab EXCEPT !.pages[tab.main] = p])

\* A task is chosen from the list or by the arrows; something is typed.
Choose(t) ==
  /\ ShownSolve(tab) /\ t # tab.pages[tab.main].currentPos
  /\ InContest(ShowTask(tab.pages[tab.main], t))

TypeCells(cells) ==
  LET p == tab.pages[tab.main]
  IN /\ ShownSolve(tab) /\ Len(cells) = Cells[p.currentPos] /\ cells # p.inputs[p.currentPos]
     /\ InContest([p EXCEPT !.inputs[p.currentPos] = cells, !.fresh = FALSE])

\* Fault: the answer that was there is not subtracted.
CountedUp(p, bytes) ==
  [p EXCEPT !.hasAnswers[p.currentPos] = bytes # <<>>,
            !.answerCount = @ + (IF bytes # <<>> THEN 1 ELSE 0)]

\* sendAnswer: the button of the task and the number of answers.
Counted(p, bytes) ==
  LET One(has) == IF has THEN 1 ELSE 0
  IN [p EXCEPT !.hasAnswers[p.currentPos] = bytes # <<>>,
               !.answerCount = @ - One(p.hasAnswers[p.currentPos]) + One(bytes # <<>>)]

\* The button that saves; another request for the same task makes their order matter.
Send ==
  LET i == tab.main
      p == tab.pages[i]
      t == p.currentPos
      bytes == Encoded(p.inputs[t])
      overlaps == \E s \in sends : s.task = t
  IN /\ ShownSolve(tab) /\ tab.timers = <<>> /\ Spends("answer")
     /\ tab' = [tab EXCEPT !.shade = TRUE,
                  !.pages[i] = [Counted(p, bytes) EXCEPT !.given[t] = bytes,
                                                         !.troubled = @ \/ overlaps]]
     /\ sends' = sends \cup {[page |-> i, task |-> t, bytes |-> bytes, cells |-> p.inputs[t],
                              outcome |-> "none"]}
     /\ UNCHANGED <<world, answers, typed>>

\* handle_answer: it is stored with its score, or refused.  Pages that are not the
\* sender's do not know of it.
ServeAnswer(s) ==
  LET t == s.task
      right == Reopened(ComputedAnswer(jury[t].cells), Cells[t])
      pages == [j \in DOMAIN tab.pages |-> [tab.pages[j] EXCEPT !.troubled = @ \/ j # s.page]]
  IN /\ s.outcome = "none"
     /\ \/ /\ time = "running" /\ ~ended
           /\ answers' = [answers EXCEPT ![t] =
                [bytes |-> s.bytes, score |-> check_and_grade(s.bytes, right, jury[t].policy)]]
           /\ typed' = [typed EXCEPT ![t] = s.cells]
           /\ tab' = [tab EXCEPT !.pages = pages]
           /\ sends' = (sends \ {s}) \cup {[s EXCEPT !.outcome = "ok"]}
        \/ /\ time # "running" \/ ended
           /\ sends' = (sends \ {s}) \cup {[s EXCEPT !.outcome = "error"]}
           /\ UNCHANGED <<answers, typed, tab>>
     /\ UNCHANGED <<world, budget>>

\* The rest of sendAnswer; the request or its answer may be lost.
Sent(s) ==
  LET told == [tab EXCEPT !.shade = FALSE]
  IN /\ sends' = sends \ {s}
     /\ \/ s.outcome # "none" /\ UNCHANGED budget
        \/ s.outcome # "error" /\ Spends("fail")
     /\ tab' = IF s.page = Nothing THEN tab
               ELSE [told EXCEPT !.pages[s.page].troubled =
                       @ \/ s.outcome # "ok" \/ budget' # budget]
     /\ UNCHANGED <<world, answers, typed>>

Next ==
  \/ ServerClock \/ Clock \/ Timer \/ Reload
  \/ \E url \in {"", "solve", "login", "#logout"} : Go(url)
  \/ \E i \in DOMAIN tab.pages : Serve(i) \/ Mount(i) \/ Interval(i)
  \/ Login \/ LoggedIn \/ LoggedOut \/ End \/ Ended
  \/ \E t \in Tasks : Choose(t)
  \/ \E cells \in Typed : TypeCells(cells)
  \/ Send \/ \E s \in sends : ServeAnswer(s) \/ Sent(s)

\* Timers and intervals go off.
Fairness ==
  /\ WF_vars(Timer)
  /\ WF_vars(\E i \in DOMAIN tab.pages : Interval(i))

Spec == Init /\ [][Next]_vars /\ Fairness

-----------------------------------------------------------------------------
\* The page in the document is the one the router would unmount, and no interval of
\* another one runs, unless a navigation overtook the mount of the page before it.
PagesAreOwned ==
  tab.overtaken = {} =>
    /\ tab.main \in {Nothing, LoginForm, tab.current}
    /\ tab.main = LoginForm => tab.current = Nothing
    /\ \A i \in DOMAIN tab.pages : tab.pages[i].interval => i = tab.current

\* When the contest is over by the clock of the contestant, its page is left, if its
\* interval is not one of those that leaked.
LeftAtTheEnd == (clock = "over") ~> (ShownSolve(tab) => tab.main \in tab.overtaken)

\* The page of the contest marks and counts the tasks that have an answer at the
\* server, unless a request failed, or two were under way for one task, or another page
\* sent one.
AnswersAreMarked ==
  LET p == tab.pages[tab.main]
  IN ShownSolve(tab) =>
       \/ p.troubled
       \/ \E s \in sends : s.page = tab.main
       \/ /\ p.answerCount = Cardinality({u \in Tasks : answers[u].bytes # <<>>})
          /\ \A u \in Tasks : p.hasAnswers[u] = (answers[u].bytes # <<>>)

\* As far as its answers are marked, the cells the page shows afresh are also those that
\* the answer at the server was made of.
AnswersAreStored ==
  LET p == tab.pages[tab.main]
      t == p.currentPos
  IN /\ AnswersAreMarked
     /\ ShownSolve(tab) =>
          \/ p.troubled
          \/ \E s \in sends : s.page = tab.main
          \/ p.fresh /\ Plain(typed[t]) /\ Last(typed[t]) # <<>> => p.inputs[t] = typed[t]

\* An answer has the score its cells deserve, if the last of the right cells is not
\* empty and no character takes two bytes.
GradedAsDeserved ==
  \A t \in Tasks :
    LET right == jury[t].cells
    IN answers[t].bytes # <<>> /\ Plain(typed[t]) /\ Plain(right) /\ Last(right) # <<>> =>
         answers[t].score = Deserved(typed[t], right, jury[t].policy)
=============================================================================
