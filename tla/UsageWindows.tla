---------------------------- MODULE UsageWindows ----------------------------
(***************************************************************************)
(* The usage windows of one subscription: when each began and what was     *)
(* charged in it.  Every request reads the row on its way in, begins the   *)
(* windows if none has begun, and empties those that are over, each by an  *)
(* UPDATE of its own that does not ask whether the row is still as read.   *)
(* Charges come when requests end.                                         *)
(*                                                                         *)
(* The daily window begins with a day; the weekly and the monthly one roll *)
(* and are the same but for their length: "rolling" stands for both.       *)
(***************************************************************************)
EXTENDS Naturals

CONSTANTS
  Visits,         \* requests on their way in
  Charges,        \* amounts charged; a usage is the set of those it sums
  TicksPerDay,
  RollingLength,  \* ticks in a rolling window
  MaxClock,       \* bound: the last tick
  NotBegun,       \* no window start
  NoVisit

ASSUME WindowsAssumption ==
  /\ TicksPerDay \in Nat \ {0}
  /\ RollingLength \in Nat \ {0}
  /\ MaxClock \in Nat

VARIABLES
  clock,
  window,   \* in the row: when each window began
  usage,    \* in the row: what it sums
  charges,  \* the charges that have been made
  visit,    \* the row a request has read, where it is, and the time it took
  opened    \* history: when the window that runs was begun

windowVars == <<clock, window, usage, charges, visit, opened>>

Windows == {"daily", "rolling"}
Times == 0 .. MaxClock
Starts == Times \cup {NotBegun}

\* "overtaken": windows another request has begun since the row was read.
Visiting == [at : {"activate", "daily", "rolling"}, window : [Windows -> Starts],
             now : Times, overtaken : SUBSET Windows]

WindowsTypeOK ==
  /\ clock \in Times
  /\ window \in [Windows -> Starts]
  /\ usage \in [Windows -> SUBSET Charges]
  /\ charges \subseteq Charges
  /\ visit \in [Visits -> Visiting \cup {NoVisit}]
  /\ opened \in [Windows -> Starts]

WindowsInit ==
  /\ clock = 0
  /\ window = [w \in Windows |-> NotBegun]
  /\ usage = [w \in Windows |-> {}]
  /\ charges = {}
  /\ visit = [q \in Visits |-> NoVisit]
  /\ opened = window

StartOfDay(t) == t - (t % TicksPerDay)

\* A window that began at "start" is over.
Over(w, start) ==
  IF w = "daily" THEN StartOfDay(start) < StartOfDay(clock) ELSE clock - start >= RollingLength

\* Mutant of NeedsReset: a window counts as over on the day it began.
NeedsResetSameDay(w, start) ==
  start # NotBegun /\ (IF w = "daily" THEN StartOfDay(start) <= StartOfDay(clock) ELSE Over(w, start))

NeedsReset(w, start) == start # NotBegun /\ Over(w, start)

\* Mutant of NewStart: the window is emptied and keeps its start.
KeptStart(w, now) == window[w]

NewStart(w, now) == IF w = "daily" THEN StartOfDay(now) ELSE now

-----------------------------------------------------------------------------
\* The middleware reads the subscription.
ReadsSubscription(q) ==
  /\ visit[q] = NoVisit
  /\ visit' = [visit EXCEPT ![q] =
       [at |-> "activate", window |-> window, now |-> 0, overtaken |-> {}]]
  /\ UNCHANGED <<clock, window, usage, charges, opened>>

\* The visits other than q learn that the windows W have been begun anew.
Overtakes(q, W, then) ==
  visit' = [p \in Visits |->
    IF p = q THEN then
    ELSE IF visit[p] = NoVisit THEN NoVisit
    ELSE [visit[p] EXCEPT !.overtaken = @ \cup W]]

\* The windows begin with the first request.  An error is logged, and the visit
\* goes on to CheckAndResetWindows, which takes the time.
CheckAndActivateWindow(q) ==
  /\ visit[q] # NoVisit
  /\ visit[q].at = "activate"
  /\ LET then == [visit[q] EXCEPT !.at = "daily", !.now = clock] IN
     \/ /\ \A w \in Windows : visit[q].window[w] = NotBegun
        /\ window' = [w \in Windows |-> StartOfDay(clock)]
        /\ opened' = [w \in Windows |-> StartOfDay(clock)]
        /\ Overtakes(q, Windows, then)
     \/ /\ visit' = [visit EXCEPT ![q] = then]
        /\ UNCHANGED <<window, opened>>
  /\ UNCHANGED <<clock, usage, charges>>

AfterWindow(q) ==
  IF visit[q].at = "daily" THEN [visit[q] EXCEPT !.at = "rolling"] ELSE NoVisit

\* ResetDailyUsage, ResetWeeklyUsage or ResetMonthlyUsage, by the row as read.
ResetWindow(q) ==
  LET w == visit[q].at IN
  /\ NeedsReset(w, visit[q].window[w])
  /\ window' = [window EXCEPT ![w] = NewStart(w, visit[q].now)]
  /\ usage' = [usage EXCEPT ![w] = {}]
  /\ opened' = [opened EXCEPT ![w] = IF w = "daily" THEN StartOfDay(visit[q].now) ELSE visit[q].now]
  /\ Overtakes(q, {w}, AfterWindow(q))
  /\ UNCHANGED <<clock, charges>>

KeepWindow(q) ==
  /\ ~NeedsReset(visit[q].at, visit[q].window[visit[q].at])
  /\ visit' = [visit EXCEPT ![q] = AfterWindow(q)]
  /\ UNCHANGED <<clock, window, usage, charges, opened>>

\* The first UPDATE that fails ends it, and so does a crash.
ResetFails(q) ==
  /\ visit' = [visit EXCEPT ![q] = NoVisit]
  /\ UNCHANGED <<clock, window, usage, charges, opened>>

CheckAndResetWindows(q) ==
  /\ visit[q] # NoVisit
  /\ visit[q].at \in Windows
  /\ ResetWindow(q) \/ KeepWindow(q) \/ ResetFails(q)

\* IncrementUsage adds to all windows in one statement, whatever their state.
IncrementUsage(c) ==
  /\ c \notin charges
  /\ charges' = charges \cup {c}
  /\ usage' = [w \in Windows |-> usage[w] \cup {c}]
  /\ UNCHANGED <<clock, window, visit, opened>>

TimeGoesOn ==
  /\ clock < MaxClock
  /\ clock' = clock + 1
  /\ UNCHANGED <<window, usage, charges, visit, opened>>

WindowsNext ==
  \/ \E q \in Visits :
       ReadsSubscription(q) \/ CheckAndActivateWindow(q) \/ CheckAndResetWindows(q)
  \/ \E c \in Charges : IncrementUsage(c)
  \/ TimeGoesOn

WindowsSpec == WindowsInit /\ [][WindowsNext]_windowVars

\* What was charged stays in the sum of a window until that window is over; the
\* one exception is a request that emptied it by a row it had read before
\* another request began the window that runs (CheckAndResetWindows).
UsageLostOnlyByOverlap ==
  [][\A w \in Windows :
       ~(usage[w] \subseteq usage'[w]) =>
         \/ opened[w] # NotBegun /\ Over(w, opened[w])
         \/ \E q \in Visits :
              /\ visit[q] # NoVisit
              /\ visit[q].at = w
              /\ w \in visit[q].overtaken
              /\ visit'[q] = AfterWindow(q)]_windowVars
=============================================================================
