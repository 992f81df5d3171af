---------------------------- MODULE ClockAnswers ----------------------------
(***************************************************************************)
(* What becomes of a time of day that a dispatcher names on the phone.     *)
(*                                                                         *)
(* services/timeutil.py parses what was said and anchors it on the day     *)
(* that puts it nearest to the mission's cutoff; engine/constraints.py     *)
(* anchors the requirement in the same way and compares the two, and a     *)
(* deadline with the present as well.                                      *)
(*                                                                         *)
(* A moment counts slots of 1 / PerHour of an hour on the operation's wall *)
(* clock; a clock reading is a moment's place in its day.  The zone is     *)
(* fixed: the code subtracts wall clocks of one zone, and so does this.    *)
(***************************************************************************)
EXTENDS Integers, FiniteSets

CONSTANTS
    PerHour,        \* slots of an hour
    Window,         \* bound: how far ahead of now an explicit cutoff lies
    MaxElapsed      \* bound: how long the mission is watched

ASSUME ClockAssumption ==
    PerHour \in Nat \ {0} /\ Window \in Nat \ {0} /\ MaxElapsed \in Nat

Day == 24 * PerHour
Noon == 12 * PerHour
Clocks == 0..(Day - 1)

\* What cannot be read as a time.
NoClock == -1

VARIABLES
    now,        \* utcnow
    elapsed,    \* how long ago the mission was created
    cutoff,     \* mission.recovery_cutoff
    phase,      \* "new", "calling", or "heard"
    asked,      \* when the call was placed
    heard,      \* the evidence: a clock reading, or NoClock
    meant,      \* the moment the dispatcher meant; the program never knows it
    verdict     \* the last evaluation: its operator, requirement, moment and status

vars == <<now, elapsed, cutoff, phase, asked, heard, meant, verdict>>

Operators == {"lte", "lt", "gte", "gt", "eq", "neq"}
Deadlines == {"lte", "lt"}

NoVerdict == [op |-> "lte", required |-> NoClock, at |-> 0, status |-> "not_evaluated"]

-----------------------------------------------------------------------------
(* services/timeutil.py                                                    *)

Midnight(moment) == moment - (moment % Day)

\* wall_clock: the reading of a moment.
WallClock(moment) == moment % Day

\* today_at: a reading on the date of now, be it over already.
TodayAt(clock) == Midnight(now) + clock

\* A time as it is said: an hour, a slot of it, "am", "pm" or neither, and whether the
\* hour is a word.
Phrase(hour, slot, half, word) == [hour |-> hour, slot |-> slot, half |-> half, word |-> word]

\* Fault: pm adds twelve hours to twelve too, and nothing looks at the range.
ParseTime_TwelvePm(said) ==
    LET h == said.hour + IF said.half = "pm" THEN 12 ELSE 0
    IN h * PerHour + said.slot

\* parse_time: a word gives a full hour, and its "am" is not looked at.
ParseTime(said) ==
    LET pm == said.half = "pm" /\ said.hour < 12
        am == said.half = "am" /\ said.hour = 12 /\ ~ said.word
        h == IF pm THEN said.hour + 12 ELSE IF am THEN 0 ELSE said.hour
    IN IF h \notin 0..23 THEN NoClock
       ELSE h * PerHour + IF said.word THEN 0 ELSE said.slot

Distance(a, b) == IF a > b THEN a - b ELSE b - a

\* Of two moments, the one nearer to a third, or the earlier when both are as near.
AsNear(a, b, to) ==
    \/ Distance(a, to) < Distance(b, to)
    \/ Distance(a, to) = Distance(b, to) /\ a <= b

\* A reading on the day, of three, that puts it nearest to a moment.
Nearest(clock, to) ==
    LET moments == {Midnight(to) + clock + k * Day : k \in {-1, 0, 1}}
    IN CHOOSE m \in moments : \A o \in moments : AsNear(m, o, to)

\* Fault: the reading is taken on the cutoff's own date.
CombineCutoff_SameDate(clock) == Midnight(cutoff) + clock

\* Fault: the reading is taken nearest to now.
CombineCutoff_NearNow(clock) == Nearest(clock, now)

\* combine_cutoff.
CombineCutoff(clock) == Nearest(clock, cutoff)

-----------------------------------------------------------------------------
(* engine/constraints.py                                                   *)

Compare(op, observed, required) ==
    CASE op = "lte" -> observed <= required
      [] op = "lt"  -> observed < required
      [] op = "gte" -> observed >= required
      [] op = "gt"  -> observed > required
      [] op = "eq"  -> observed = required
      [] op = "neq" -> observed # required

\* A requirement that names no time is the cutoff itself.
Due(required) == IF required = NoClock THEN cutoff ELSE CombineCutoff(required)

\* Fault: a deadline is not compared with the present.
StatusOf_PastToo(op, required) ==
    IF heard = NoClock THEN "uncertain"
    ELSE IF Compare(op, CombineCutoff(heard), Due(required)) THEN "satisfied" ELSE "violated"

\* evaluate_constraint, for validated evidence of a constraint on a time.
StatusOf(op, required) ==
    IF heard = NoClock THEN "uncertain"
    ELSE LET observed == CombineCutoff(heard) IN
         IF op \in Deadlines /\ observed < now THEN "violated"
         ELSE IF Compare(op, observed, Due(required)) THEN "satisfied" ELSE "violated"

-----------------------------------------------------------------------------
TypeOK ==
    /\ now \in Nat /\ elapsed \in 0..MaxElapsed /\ cutoff \in Nat
    /\ phase \in {"new", "calling", "heard"} /\ asked \in Nat
    /\ heard \in Clocks \cup {NoClock}
    /\ meant \in Nat
    /\ verdict \in [op : Operators, required : Clocks \cup {NoClock}, at : Nat,
                    status : {"not_evaluated", "uncertain", "satisfied", "violated"}]

\* create_exception_and_mission: an explicit cutoff, or a reading of today's clock.
Init ==
    /\ now \in Day..(2 * Day - 1)
    /\ elapsed = 0
    /\ cutoff \in {TodayAt(c) : c \in Clocks} \cup (now + 1)..(now + Window)
    /\ phase = "new" /\ asked = 0
    /\ heard = NoClock
    /\ meant = 0
    /\ verdict = NoVerdict

Tick ==
    /\ elapsed < MaxElapsed
    /\ now' = now + 1 /\ elapsed' = elapsed + 1
    /\ UNCHANGED <<cutoff, phase, asked, heard, meant, verdict>>

\* check_deadline lets the mission start, and a call is placed.
Call ==
    /\ phase = "new" /\ now < cutoff
    /\ phase' = "calling" /\ asked' = now
    /\ UNCHANGED <<now, elapsed, cutoff, heard, meant, verdict>>

\* The ways of saying a moment that name the half of the day.  "Twelve am" and a word
\* with minutes are not among them: parse_time takes them for noon and the full hour.
Phrases(moment) ==
    LET hour == WallClock(moment) \div PerHour
        slot == WallClock(moment) % PerHour
        half == IF hour < 12 THEN "am" ELSE "pm"
        of12 == IF hour % 12 = 0 THEN 12 ELSE hour % 12
    IN {Phrase(hour, slot, "none", FALSE), Phrase(of12, slot, half, FALSE)}
       \cup IF slot = 0 /\ hour # 0 THEN {Phrase(of12, slot, half, TRUE)} ELSE {}

\* The dispatcher names a moment of the next twenty-four hours, or none.
Answer ==
    /\ phase = "calling" /\ phase' = "heard"
    /\ \/ \E m \in now..(now + Day - 1) : \E said \in Phrases(m) :
             heard' = ParseTime(said) /\ meant' = m
       \/ heard' = NoClock /\ meant' = 0
    /\ UNCHANGED <<now, elapsed, cutoff, asked, verdict>>

\* evaluate_mission comes back to the same evidence after every call: the template's
\* requirement is the cutoff's own reading; one that names no time is the cutoff, too.
Evaluate(op, required) ==
    /\ phase = "heard"
    /\ verdict # NoVerdict => verdict.op = op /\ verdict.required = required
    /\ verdict' = [op |-> op, required |-> required, at |-> now,
                   status |-> StatusOf(op, required)]
    /\ UNCHANGED <<now, elapsed, cutoff, phase, asked, heard, meant>>

Next ==
    \/ Tick \/ Call \/ Answer
    \/ \E op \in Operators : \E required \in {WallClock(cutoff), NoClock} :
          Evaluate(op, required)

Spec == Init /\ [][Next]_vars

-----------------------------------------------------------------------------
\* _margin_seconds: the margin the outcome reports.
Margin == cutoff - CombineCutoff(heard)

\* The cutoff is at most half a day away when the call is placed.
ShortWindow == cutoff - asked <= Noon

\* A time that was said gets the verdict of the moment that was meant, and a deadline
\* is met by no moment that is over (constraints.py:157, timeutil.py:193), in a window
\* of half a day, for every way of saying it and however late it is judged.  A
\* lower bound or an equality is right for moments within half a day of the cutoff.
VerdictIsRight ==
    /\ verdict.status \in {"satisfied", "violated"}
    /\ ShortWindow
    /\ verdict.op \in Deadlines \/ Distance(meant, cutoff) < Noon
    => (verdict.status = "satisfied" <=>
            /\ Compare(verdict.op, meant, cutoff)
            /\ verdict.op \in Deadlines => verdict.at <= meant)

\* The margin of a recovery is the time there really is between what was promised and
\* the cutoff, across midnight too (test_constraints.py:164).
MarginIsTrue ==
    verdict.status = "satisfied" /\ verdict.op = "lte" /\ ShortWindow =>
        Margin >= 0 /\ Margin = cutoff - meant

\* The same answer, judged again later, never gets better: a violation that started a
\* replan is not taken back, whatever midnight passes between the two evaluations.
VerdictOnlyWorsens == [][verdict.status = "violated" => verdict'.status = "violated"]_vars
=============================================================================
