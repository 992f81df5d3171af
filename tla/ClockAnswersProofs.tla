------------------------- MODULE ClockAnswersProofs -------------------------
(***************************************************************************)
(* A time that was said gets the verdict of the moment that was meant, for *)
(* every division of the hour, every cutoff and however long it takes to   *)
(* judge it.  The argument: what is said is read as the clock of what was  *)
(* meant (ReadsTheClock), and less than half a day from the cutoff that    *)
(* clock is anchored on the very moment (AnchoredRight); further away it   *)
(* is anchored whole days off, and then a deadline fails either way.       *)
(***************************************************************************)
EXTENDS ClockAnswers, TLAPS

-----------------------------------------------------------------------------
(* Arithmetic *)

\* Division with a remainder.
LEMMA DivMod == \A x \in Nat, d \in Nat \ {0} :
    /\ x % d \in 0..(d - 1) /\ x \div d \in Nat
    /\ x = d * (x \div d) + (x % d)
BY Z3

\* Multiplication is monotone.
LEMMA Mono == \A a, b \in Int, d \in Nat : a <= b => d * a <= d * b
BY Z3

\* Two multiples of d are at least d apart.
LEMMA Multiples == \A a, b \in Int, d \in Nat \ {0} : d * a < d * b => d * a <= d * b - d
<1> SUFFICES ASSUME NEW a \in Int, NEW b \in Int, NEW d \in Nat \ {0}, d * a < d * b
             PROVE  d * a <= d * b - d
  OBVIOUS
<1>1. a <= b - 1
  <2>1. CASE b <= a
    BY <2>1, Mono
  <2> QED BY <2>1
<1>2. d * a <= d * (b - 1)
  BY <1>1, Mono
<1>3. d * (b - 1) = d * b - d
  BY Z3
<1> QED BY <1>2, <1>3

\* A day is two halves and not empty.
LEMMA DayFacts ==
    /\ PerHour \in Nat \ {0}
    /\ Day \in Nat \ {0} /\ Noon \in Nat \ {0}
    /\ Day = 24 * PerHour /\ Day = Noon + Noon
BY ClockAssumption DEF Day, Noon

\* A moment is its midnight and its clock reading.
LEMMA Midnights ==
    ASSUME NEW x \in Nat
    PROVE  /\ WallClock(x) \in Clocks
           /\ Midnight(x) \in Nat /\ x = Midnight(x) + WallClock(x)
           /\ \E q \in Nat : Midnight(x) = Day * q
<1>1. /\ x % Day \in 0..(Day - 1) /\ x \div Day \in Nat
      /\ x = Day * (x \div Day) + (x % Day)
  BY DivMod, DayFacts
<1>2. Day * (x \div Day) \in Nat
  BY <1>1, DayFacts
<1>3. Midnight(x) = Day * (x \div Day)
  <2> DEFINE part == Day * (x \div Day)
             rest == x % Day
  <2>1. part \in Nat /\ rest \in Int /\ x = part + rest
    BY <1>1, <1>2
  <2>2. Midnight(x) = x - rest
    BY DEF Midnight
  <2> HIDE DEF part, rest
  <2>3. Midnight(x) = part
    BY <2>1, <2>2
  <2> QED BY <2>3 DEF part
<1>4. WallClock(x) = x % Day /\ WallClock(x) \in Clocks
  BY <1>1 DEF WallClock, Clocks
<1>5. Midnight(x) \in Nat
  BY <1>2, <1>3
<1>6. x = Midnight(x) + WallClock(x)
  BY <1>1, <1>3, <1>4
<1>7. \E q \in Nat : Midnight(x) = Day * q
  BY <1>1, <1>3
<1> QED BY <1>4, <1>5, <1>6, <1>7

-----------------------------------------------------------------------------
(* Anchoring *)

Anchors(clock, to) == {Midnight(to) + clock + k * Day : k \in {-1, 0, 1}}

\* The three days a reading may be anchored on.
LEMMA ThreeDays ==
    ASSUME NEW clock \in Clocks, NEW to \in Nat
    PROVE  LET b == Midnight(to) + clock
           IN  b \in Int /\ Anchors(clock, to) = {b - Day, b, b + Day}
<1> DEFINE b == Midnight(to) + clock
<1>1. b \in Int /\ Day \in Nat
  BY Midnights, DayFacts DEF Clocks
<1>2. Anchors(clock, to) = {b + k * Day : k \in {-1, 0, 1}}
  BY DEF Anchors
<1> HIDE DEF b
<1>3. /\ b + (-1) * Day = b - Day /\ b + 0 * Day = b /\ b + 1 * Day = b + Day
  BY <1>1
<1>4. Anchors(clock, to) = {b - Day, b, b + Day}
  BY <1>2, <1>3
<1> QED BY <1>1, <1>4 DEF b

\* Of the three days one is nearest.
LEMMA NearestIs ==
    ASSUME NEW clock \in Clocks, NEW to \in Nat
    PROVE  /\ Nearest(clock, to) \in Anchors(clock, to)
           /\ Anchors(clock, to) \subseteq Int
           /\ \A o \in Anchors(clock, to) : AsNear(Nearest(clock, to), o, to)
<1> DEFINE b == Midnight(to) + clock
<1>1. b \in Int /\ Day \in Nat
  BY Midnights, DayFacts DEF Clocks
<1>2. Anchors(clock, to) = {b - Day, b, b + Day}
  BY ThreeDays
<1> HIDE DEF b
<1>3. \E n \in Anchors(clock, to) : \A o \in Anchors(clock, to) : AsNear(n, o, to)
  <2>1. AsNear(b - Day, b, to) \/ AsNear(b, b - Day, to)
    BY <1>1 DEF AsNear, Distance
  <2>2. AsNear(b, b + Day, to) \/ AsNear(b + Day, b, to)
    BY <1>1 DEF AsNear, Distance
  <2>3. AsNear(b - Day, b + Day, to) \/ AsNear(b + Day, b - Day, to)
    BY <1>1 DEF AsNear, Distance
  <2>4. AsNear(b - Day, b - Day, to) /\ AsNear(b, b, to) /\ AsNear(b + Day, b + Day, to)
    BY <1>1 DEF AsNear, Distance
  <2>5. AsNear(b - Day, b, to) /\ AsNear(b, b + Day, to) => AsNear(b - Day, b + Day, to)
    BY <1>1 DEF AsNear, Distance
  <2>6. AsNear(b + Day, b, to) /\ AsNear(b, b - Day, to) => AsNear(b + Day, b - Day, to)
    BY <1>1 DEF AsNear, Distance
  <2> QED BY <1>2, <2>1, <2>2, <2>3, <2>4, <2>5, <2>6
<1>4. Nearest(clock, to) = CHOOSE n \in Anchors(clock, to) :
                              \A o \in Anchors(clock, to) : AsNear(n, o, to)
  BY DEF Nearest, Anchors
<1>5. Anchors(clock, to) \subseteq Int
  BY <1>1, <1>2
<1> QED BY <1>3, <1>4, <1>5

\* Midnights are whole days apart.
LEMMA DaysApart ==
    ASSUME NEW x \in Nat, NEW y \in Nat, Midnight(x) < Midnight(y)
    PROVE  Midnight(x) <= Midnight(y) - Day
<1>1. PICK p \in Nat : Midnight(x) = Day * p
  BY Midnights
<1>2. PICK q \in Nat : Midnight(y) = Day * q
  BY Midnights
<1>3. Day * p < Day * q => Day * p <= Day * q - Day
  BY Multiples, DayFacts
<1> QED BY <1>1, <1>2, <1>3

\* The next midnight but one is more than a day away.
LEMMA NotTwoDays ==
    ASSUME NEW x \in Nat, NEW y \in Nat, Midnight(x) + Day < Midnight(y)
    PROVE  Midnight(x) + Day + Day <= Midnight(y)
<1>1. PICK p \in Nat : Midnight(x) = Day * p
  BY Midnights
<1>2. PICK q \in Nat : Midnight(y) = Day * q
  BY Midnights
<1>3. Day * (p + 1) < Day * q => Day * (p + 1) <= Day * q - Day
  BY Multiples, DayFacts
<1>4. Day * (p + 1) = Day * p + Day
  BY DayFacts
<1>5. Day * p \in Int /\ Day * q \in Int /\ Day \in Int
  BY <1>1, <1>2, DayFacts
<1>6. Day * p + Day < Day * q => Day * p + Day <= Day * q - Day
  BY <1>3, <1>4
<1>7. Midnight(x) + Day <= Midnight(y) - Day
  BY <1>1, <1>2, <1>6
<1>8. Midnight(x) \in Int /\ Midnight(y) \in Int
  BY <1>1, <1>2, <1>5
<1> QED BY <1>5, <1>7, <1>8

\* Of moments whole days apart, one less than half a day away is the nearest.
LEMMA Closest ==
    ASSUME NEW m \in Int, NEW t \in Int, NEW h \in Int, NEW n \in Int,
           h > 0, m - t < h, t - m <= h,
           n \in {m - 4 * h, m - 2 * h, m, m + 2 * h, m + 4 * h},
           AsNear(n, m, t)
    PROVE  n = m
BY DEF AsNear, Distance

\* A moment less than half a day from another is found again from its clock alone.
LEMMA AnchoredRight ==
    ASSUME NEW moment \in Nat, NEW to \in Nat, moment - to < Noon, to - moment <= Noon
    PROVE  Nearest(WallClock(moment), to) = moment
<1> DEFINE n == Nearest(WallClock(moment), to)
           c == WallClock(moment)
           mm == Midnight(moment)
           mt == Midnight(to)
           b == mt + c
<1>1. c \in Clocks
  BY Midnights
<1>2. n \in Anchors(c, to) /\ n \in Int /\ \A o \in Anchors(c, to) : AsNear(n, o, to)
  BY <1>1, NearestIs
<1>3. /\ moment = mm + c /\ to = mt + WallClock(to)
      /\ c \in 0..(Day - 1) /\ WallClock(to) \in 0..(Day - 1)
      /\ mm \in Nat /\ mt \in Nat
  BY Midnights DEF Clocks
<1>4. mm < mt => mm <= mt - Day
  BY DaysApart
<1>5. mt < mm => mt <= mm - Day
  BY DaysApart
<1>6. ~ (mm + Day < mt)
  <2>1. mm + Day < mt => mm + Day + Day <= mt
    BY NotTwoDays
  <2> HIDE DEF mm, mt, c
  <2> QED BY <1>3, <2>1, DayFacts
<1>7. ~ (mt + Day < mm)
  <2>1. mt + Day < mm => mt + Day + Day <= mm
    BY NotTwoDays
  <2> HIDE DEF mm, mt, c
  <2> QED BY <1>3, <2>1, DayFacts
<1>8. b \in Int /\ Anchors(c, to) = {b - Day, b, b + Day}
  BY <1>1, ThreeDays
<1> HIDE DEF b
<1>9. b = mt + c
  BY DEF b
<1> HIDE DEF mm, mt, c, n
<1>10. mm = mt - Day \/ mm = mt \/ mm = mt + Day
  BY <1>3, <1>4, <1>5, <1>6, <1>7, DayFacts
<1>11. Day = 2 * Noon /\ Noon \in Int /\ Noon > 0 /\ c \in Int
  BY <1>3, DayFacts
<1>12. b \in {moment + Day, moment, moment - Day}
  BY <1>3, <1>9, <1>10, <1>11
<1>13. moment \in Anchors(c, to)
  BY <1>3, <1>8, <1>11, <1>12
<1>14. n \in {moment - 4 * Noon, moment - 2 * Noon, moment, moment + 2 * Noon, moment + 4 * Noon}
  BY <1>2, <1>8, <1>11, <1>12
<1>15. n = moment
  BY <1>2, <1>11, <1>13, <1>14, Closest
<1> QED BY <1>15 DEF n, c

\* Elsewhere it is found whole days off: earlier by a day at least, if it is earlier.
LEMMA AnchoredDaysOff ==
    ASSUME NEW moment \in Nat, NEW to \in Nat, Nearest(WallClock(moment), to) < moment
    PROVE  Nearest(WallClock(moment), to) <= moment - Day
<1>1. WallClock(moment) \in Clocks
  BY Midnights
<1>2. Nearest(WallClock(moment), to) \in Anchors(WallClock(moment), to)
  BY <1>1, NearestIs
<1>3. PICK p \in Nat : Midnight(moment) = Day * p
  BY Midnights
<1>4. PICK q \in Nat : Midnight(to) = Day * q
  BY Midnights
<1>5. PICK k \in {-1, 0, 1} :
        Nearest(WallClock(moment), to) = Day * q + WallClock(moment) + k * Day
  BY <1>2, <1>4 DEF Anchors
<1>6. /\ moment = Day * p + WallClock(moment) /\ WallClock(moment) \in Int
      /\ Day * p \in Int /\ Day * q \in Int /\ Day * (q + k) \in Int
      /\ Day * q + k * Day = Day * (q + k)
  BY <1>3, Midnights, DayFacts DEF Clocks
<1>7. k * Day \in Int
  BY DayFacts
<1>8. Nearest(WallClock(moment), to) = Day * (q + k) + WallClock(moment)
  BY <1>5, <1>6, <1>7
<1>9. Day * (q + k) < Day * p => Day * (q + k) <= Day * p - Day
  BY Multiples, DayFacts
<1> QED BY <1>6, <1>8, <1>9, DayFacts

-----------------------------------------------------------------------------
(* Parsing *)

\* Every way of saying a moment is read as that moment's clock.
LEMMA ReadsTheClock ==
    ASSUME NEW m \in Nat, NEW said \in Phrases(m)
    PROVE  ParseTime(said) = WallClock(m)
<1> DEFINE w == WallClock(m)
           hour == w \div PerHour
           slot == w % PerHour
           half == IF hour < 12 THEN "am" ELSE "pm"
           of12 == IF hour % 12 = 0 THEN 12 ELSE hour % 12
<1>1. w \in 0..(Day - 1) /\ Day = 24 * PerHour /\ PerHour \in Nat \ {0} /\ w \in Nat
  BY Midnights, DayFacts DEF Clocks
<1>2. hour \in Nat /\ slot \in 0..(PerHour - 1) /\ w = PerHour * hour + slot
  BY <1>1, DivMod
<1>3. hour \in 0..23
  <2>1. 24 <= hour => PerHour * 24 <= PerHour * hour
    <3> HIDE DEF w, hour, slot
    <3> QED BY <1>1, <1>2, Mono
  <2>2. PerHour * 24 = 24 * PerHour /\ PerHour * hour \in Int
    BY <1>1, <1>2
  <2> HIDE DEF w, hour, slot
  <2> QED BY <1>1, <1>2, <2>1, <2>2
<1>4. said \in {Phrase(hour, slot, "none", FALSE), Phrase(of12, slot, half, FALSE)}
        \/ (slot = 0 /\ hour # 0 /\ said = Phrase(of12, slot, half, TRUE))
  <2>1. Phrases(m) = {Phrase(hour, slot, "none", FALSE), Phrase(of12, slot, half, FALSE)}
                     \cup IF slot = 0 /\ hour # 0 THEN {Phrase(of12, slot, half, TRUE)} ELSE {}
    BY DEF Phrases
  <2> HIDE DEF w, hour, slot, half, of12
  <2> QED BY <2>1
<1>5. hour * PerHour + slot = w
  <2> HIDE DEF w, hour, slot
  <2> QED BY <1>1, <1>2
<1> HIDE DEF w, hour, slot
<1>6. /\ hour < 12 => hour % 12 = hour
      /\ hour >= 12 => hour % 12 = hour - 12
  BY <1>3, Z3
<1>7. /\ hour = 0 => of12 = 12 /\ half = "am"
      /\ hour \in 1..11 => of12 = hour /\ half = "am"
      /\ hour = 12 => of12 = 12 /\ half = "pm"
      /\ hour \in 13..23 => of12 = hour - 12 /\ half = "pm"
  BY <1>3, <1>6
<1> HIDE DEF of12, half
<1>8. CASE said = Phrase(hour, slot, "none", FALSE)
  BY <1>3, <1>5, <1>8 DEF ParseTime, Phrase, w
<1>9. CASE said = Phrase(of12, slot, half, FALSE)
  BY <1>3, <1>5, <1>7, <1>9 DEF ParseTime, Phrase, w
<1>10. CASE slot = 0 /\ hour # 0 /\ said = Phrase(of12, slot, half, TRUE)
  BY <1>3, <1>5, <1>7, <1>10 DEF ParseTime, Phrase, w
<1> QED BY <1>4, <1>8, <1>9, <1>10

-----------------------------------------------------------------------------
(* The invariant *)

\* A clock that was heard is that of a moment less than a day ahead.
HeardInv ==
    /\ asked <= now
    /\ heard # NoClock =>
          /\ phase = "heard" /\ heard = WallClock(meant)
          /\ asked <= meant /\ meant < now + Day

\* A deadline whose anchored moment is over at some time.
Late(op, at) == op \in Deadlines /\ CombineCutoff(heard) < at

\* A verdict is what the evidence gave at the moment of the evaluation.
JudgedInv ==
    verdict.status \in {"satisfied", "violated"} =>
        /\ heard # NoClock
        /\ verdict.at <= now /\ meant < verdict.at + Day
        /\ verdict.required \in {WallClock(cutoff), NoClock}
        /\ verdict.status = "satisfied" <=>
              /\ ~ Late(verdict.op, verdict.at)
              /\ Compare(verdict.op, CombineCutoff(heard), Due(verdict.required))

AInv == TypeOK /\ HeardInv /\ JudgedInv

\* A reading is anchored on a whole number.
LEMMA AnchoredType ==
    ASSUME TypeOK, NEW clock \in Clocks
    PROVE  CombineCutoff(clock) \in Int
BY NearestIs DEF TypeOK, CombineCutoff

\* The requirement is the cutoff, named or not.
LEMMA DueIsCutoff ==
    ASSUME TypeOK, NEW required \in {WallClock(cutoff), NoClock}
    PROVE  Due(required) = cutoff
<1>1. cutoff \in Nat /\ cutoff - cutoff < Noon /\ cutoff - cutoff <= Noon
  BY DayFacts DEF TypeOK
<1>2. Nearest(WallClock(cutoff), cutoff) = cutoff
  BY <1>1, AnchoredRight
<1> QED BY <1>2 DEF Due, CombineCutoff

\* The status is one of four.
LEMMA StatusType ==
    \A op, required : StatusOf(op, required) \in {"uncertain", "satisfied", "violated"}
BY DEF StatusOf

\* What the status says.
LEMMA StatusSays ==
    ASSUME NEW op, NEW required, StatusOf(op, required) \in {"satisfied", "violated"}
    PROVE  /\ heard # NoClock
           /\ StatusOf(op, required) = "satisfied" <=>
                 /\ ~ Late(op, now)
                 /\ Compare(op, CombineCutoff(heard), Due(required))
BY DEF StatusOf, Late

\* It holds at first.
LEMMA InitAInv == Init => AInv
<1> SUFFICES ASSUME Init PROVE AInv
  OBVIOUS
<1>1. now \in Nat /\ elapsed = 0 /\ MaxElapsed \in Nat /\ Window \in Nat /\ Day \in Nat
  BY DayFacts, ClockAssumption DEF Init
<1>2. cutoff \in Nat
  <2>1. CASE cutoff \in {TodayAt(c) : c \in Clocks}
    <3>1. Midnight(now) \in Nat
      BY <1>1, Midnights
    <3>2. PICK c \in Clocks : cutoff = Midnight(now) + c
      BY <2>1 DEF TodayAt
    <3>3. c \in Nat
      BY <1>1 DEF Clocks
    <3> QED BY <3>1, <3>2, <3>3
  <2>2. CASE cutoff \in (now + 1)..(now + Window)
    BY <1>1, <2>2
  <2> QED BY <2>1, <2>2 DEF Init
<1>3. TypeOK
  BY <1>1, <1>2 DEF Init, TypeOK, NoVerdict, Operators
<1>4. HeardInv /\ JudgedInv
  BY <1>1 DEF Init, HeardInv, JudgedInv, NoVerdict
<1> QED BY <1>3, <1>4 DEF AInv

\* An answer is the clock of a moment less than a day ahead.
LEMMA AnswerSays ==
    ASSUME TypeOK, Answer
    PROVE  /\ meant' \in Nat /\ heard' \in Clocks \cup {NoClock}
           /\ heard' # NoClock => /\ heard' = WallClock(meant')
                                  /\ now <= meant' /\ meant' < now + Day
<1>1. CASE heard' = NoClock /\ meant' = 0
  BY <1>1
<1>2. CASE \E m \in now..(now + Day - 1) : \E said \in Phrases(m) :
              heard' = ParseTime(said) /\ meant' = m
  <2>1. PICK m \in now..(now + Day - 1) : \E said \in Phrases(m) :
               heard' = ParseTime(said) /\ meant' = m
    BY <1>2
  <2>2. m \in Nat /\ now <= m /\ m < now + Day
    BY DayFacts DEF TypeOK
  <2>3. heard' = WallClock(m) /\ meant' = m
    BY <2>1, <2>2, ReadsTheClock
  <2>4. WallClock(m) \in Clocks
    BY <2>2, Midnights
  <2> QED BY <2>2, <2>3, <2>4
<1> QED BY <1>1, <1>2 DEF Answer

\* A tick changes the time and nothing that was said or judged.
LEMMA TickAInv == AInv /\ Tick => AInv'
<1> SUFFICES ASSUME AInv, Tick PROVE AInv'
  OBVIOUS
<1>1. TypeOK /\ HeardInv /\ JudgedInv
  BY DEF AInv
<1>2. now' = now + 1 /\ now \in Nat
  BY <1>1 DEF Tick, TypeOK
<1>3. TypeOK'
  BY <1>1, ClockAssumption DEF TypeOK, Tick
<1>4. HeardInv'
  BY <1>1, <1>2, DayFacts DEF HeardInv, Tick, TypeOK, WallClock
<1>5. JudgedInv'
  <2>1. verdict' = verdict /\ heard' = heard /\ meant' = meant /\ cutoff' = cutoff
    BY DEF Tick
  <2>2. verdict.at <= now => verdict.at <= now'
    BY <1>1, <1>2 DEF TypeOK
  <2> QED BY <1>1, <2>1, <2>2
          DEF JudgedInv, Late, Due, CombineCutoff, WallClock, Nearest, Midnight, AsNear, Distance
<1> QED BY <1>3, <1>4, <1>5 DEF AInv

\* Before an answer there is no evidence and no verdict from it.
LEMMA CallAInv == AInv /\ (Call \/ Answer) => AInv'
<1> SUFFICES ASSUME AInv, Call \/ Answer PROVE AInv'
  OBVIOUS
<1>1. TypeOK /\ HeardInv /\ JudgedInv
  BY DEF AInv
<1>2. heard = NoClock
  BY <1>1 DEF HeardInv, Call, Answer
<1>3. verdict' = verdict /\ verdict.status \notin {"satisfied", "violated"}
  BY <1>1, <1>2 DEF JudgedInv, Call, Answer
<1>4. JudgedInv'
  BY <1>3 DEF JudgedInv
<1>5. CASE Call
  <2>1. TypeOK'
    BY <1>1, <1>5 DEF TypeOK, Call
  <2>2. HeardInv'
    BY <1>1, <1>2, <1>5 DEF HeardInv, Call, TypeOK
  <2> QED BY <1>4, <2>1, <2>2 DEF AInv
<1>6. CASE Answer
  <2>1. TypeOK'
    BY <1>1, <1>6, AnswerSays DEF TypeOK, Answer
  <2>2. HeardInv'
    <3>1. asked' = asked /\ now' = now /\ phase' = "heard" /\ asked <= now /\ asked \in Nat /\ now \in Nat
      BY <1>1, <1>6 DEF HeardInv, Answer, TypeOK
    <3>2. heard' # NoClock => heard' = WallClock(meant')
      BY <1>1, <1>6, AnswerSays
    <3>3. heard' # NoClock => asked' <= meant' /\ meant' < now' + Day
      BY <1>1, <1>6, <3>1, AnswerSays
    <3> QED BY <3>1, <3>2, <3>3 DEF HeardInv, WallClock, Day
  <2> QED BY <1>4, <2>1, <2>2 DEF AInv
<1> QED BY <1>5, <1>6

\* An evaluation judges what was heard, at the moment it is made.
LEMMA EvaluateAInv ==
    ASSUME AInv, NEW op \in Operators, NEW required \in {WallClock(cutoff), NoClock},
           Evaluate(op, required)
    PROVE  AInv'
<1>1. TypeOK /\ HeardInv
  BY DEF AInv
<1>2. verdict' = [op |-> op, required |-> required, at |-> now, status |-> StatusOf(op, required)]
  BY DEF Evaluate
<1>3. /\ verdict'.op = op /\ verdict'.required = required /\ verdict'.at = now
      /\ verdict'.status = StatusOf(op, required)
  BY <1>2
<1>4. /\ now' = now /\ elapsed' = elapsed /\ cutoff' = cutoff /\ phase' = phase
      /\ asked' = asked /\ heard' = heard /\ meant' = meant
  BY DEF Evaluate
<1>5. required \in Clocks \cup {NoClock}
  BY <1>1, Midnights DEF TypeOK
<1>6. TypeOK'
  BY <1>1, <1>2, <1>4, <1>5, StatusType DEF TypeOK
<1>7. HeardInv'
  BY <1>1, <1>4 DEF HeardInv, WallClock
<1>8. JudgedInv'
  <2>1. verdict'.status \in {"satisfied", "violated"} => heard # NoClock
    BY <1>3, StatusSays
  <2>2. verdict'.status \in {"satisfied", "violated"} =>
          (verdict'.status = "satisfied" <=>
              /\ ~ Late(op, now)
              /\ Compare(op, CombineCutoff(heard), Due(required)))
    BY <1>3, StatusSays
  <2>3. now <= now /\ heard # NoClock => meant < now + Day
    BY <1>1 DEF HeardInv, TypeOK
  <2>4. now <= now
    BY <1>1 DEF TypeOK
  <2> QED BY <1>3, <1>4, <2>1, <2>2, <2>3, <2>4
          DEF JudgedInv, Late, Due, CombineCutoff, WallClock, Nearest, Midnight, AsNear, Distance
<1> QED BY <1>6, <1>7, <1>8 DEF AInv

\* It is inductive.
LEMMA NextAInv == AInv /\ [Next]_vars => AInv'
<1> SUFFICES ASSUME AInv, [Next]_vars PROVE AInv'
  OBVIOUS
<1>1. CASE Tick
  BY <1>1, TickAInv
<1>2. CASE Call \/ Answer
  BY <1>2, CallAInv
<1>3. CASE \E op \in Operators : \E required \in {WallClock(cutoff), NoClock} : Evaluate(op, required)
  BY <1>3, EvaluateAInv
<1>4. CASE UNCHANGED vars
  BY <1>4 DEF vars, AInv, TypeOK, HeardInv, JudgedInv, Late, Due, CombineCutoff, WallClock,
              Nearest, Midnight, AsNear, Distance
<1> QED BY <1>1, <1>2, <1>3, <1>4 DEF Next

\* The invariant always holds.
LEMMA AlwaysAInv == Spec => []AInv
BY InitAInv, NextAInv, PTL DEF Spec

-----------------------------------------------------------------------------
(* The theorems *)

\* Every reading, moment and verdict is one the code can hold.
THEOREM TypeCorrect == Spec => []TypeOK
<1>1. AInv => TypeOK
  BY DEF AInv
<1> QED BY <1>1, AlwaysAInv, PTL

\* Where the anchor falls, from the invariant.
LEMMA AnchorFalls ==
    ASSUME AInv, heard # NoClock, ShortWindow
    PROVE  /\ CombineCutoff(heard) \in Int
           /\ meant - cutoff < Noon => CombineCutoff(heard) = meant
           /\ CombineCutoff(heard) < meant => CombineCutoff(heard) <= meant - Day
<1>1. /\ heard \in Clocks /\ heard = WallClock(meant) /\ meant \in Nat /\ cutoff \in Nat
      /\ asked \in Nat /\ asked <= meant /\ cutoff - asked <= Noon
  BY DEF AInv, TypeOK, HeardInv, ShortWindow
<1>2. cutoff - meant <= Noon
  BY <1>1, DayFacts
<1>3. CombineCutoff(heard) \in Int
  BY <1>1, AnchoredType DEF AInv
<1>4. meant - cutoff < Noon => CombineCutoff(heard) = meant
  BY <1>1, <1>2, AnchoredRight DEF CombineCutoff
<1>5. CombineCutoff(heard) < meant => CombineCutoff(heard) <= meant - Day
  BY <1>1, AnchoredDaysOff DEF CombineCutoff
<1> QED BY <1>3, <1>4, <1>5

\* What a verdict says of the anchor, from the invariant.
LEMMA VerdictSays ==
    ASSUME AInv, verdict.status \in {"satisfied", "violated"}
    PROVE  /\ heard # NoClock /\ meant < verdict.at + Day
           /\ verdict.op \in Operators
           /\ verdict.at \in Nat /\ meant \in Nat /\ cutoff \in Nat
           /\ verdict.status = "satisfied" <=>
                 /\ ~ Late(verdict.op, verdict.at)
                 /\ Compare(verdict.op, CombineCutoff(heard), cutoff)
<1>1. TypeOK /\ JudgedInv
  BY DEF AInv
<1>2. Due(verdict.required) = cutoff
  BY <1>1, DueIsCutoff DEF JudgedInv
<1> QED BY <1>1, <1>2 DEF JudgedInv, TypeOK

\* A moment past the required one meets no deadline.
LEMMA PastFails ==
    ASSUME NEW op \in Deadlines, NEW observed \in Int, NEW required \in Int,
           observed > required
    PROVE  ~ Compare(op, observed, required)
<1>1. CASE op = "lte"
  <2>1. Compare(op, observed, required) <=> observed <= required
    BY <1>1 DEF Compare
  <2> QED BY <2>1
<1>2. CASE op = "lt"
  <2>1. Compare(op, observed, required) <=> observed < required
    BY <1>2 DEF Compare
  <2> QED BY <2>1
<1> QED BY <1>1, <1>2 DEF Deadlines

\* A moment past the cutoff meets no deadline, and one that is over neither.
LEMMA VerdictRightNow == AInv => VerdictIsRight
<1> SUFFICES ASSUME AInv, verdict.status \in {"satisfied", "violated"}, ShortWindow,
                    verdict.op \in Deadlines \/ Distance(meant, cutoff) < Noon
             PROVE  verdict.status = "satisfied" <=>
                        /\ Compare(verdict.op, meant, cutoff)
                        /\ verdict.op \in Deadlines => verdict.at <= meant
  BY DEF VerdictIsRight
<1> DEFINE n == CombineCutoff(heard)
<1>1. /\ heard # NoClock /\ meant < verdict.at + Day
      /\ verdict.op \in Operators
      /\ verdict.at \in Nat /\ meant \in Nat /\ cutoff \in Nat
  BY VerdictSays
<1>2. verdict.status = "satisfied" <=>
        /\ ~ (verdict.op \in Deadlines /\ n < verdict.at)
        /\ Compare(verdict.op, n, cutoff)
  BY VerdictSays DEF Late
<1>3. n \in Int /\ (meant - cutoff < Noon => n = meant) /\ (n < meant => n <= meant - Day)
  BY <1>1, AnchorFalls
<1> HIDE DEF n
<1>4. CASE meant - cutoff < Noon
  <2>1. n = meant
    BY <1>3, <1>4
  <2>2. ~ (n < verdict.at) <=> verdict.at <= meant
    BY <1>1, <2>1
  <2> QED BY <1>2, <2>1, <2>2
<1>5. CASE ~ (meant - cutoff < Noon)
  <2>1. Noon > 0 /\ Noon \in Nat /\ Day \in Nat
    BY DayFacts
  <2>2. meant > cutoff /\ ~ (Distance(meant, cutoff) < Noon)
    BY <1>1, <1>5, <2>1 DEF Distance
  <2>3. verdict.op \in Deadlines
    BY <2>2
  <2>4. ~ Compare(verdict.op, meant, cutoff)
    BY <1>1, <2>2, <2>3, PastFails
  <2>5. n >= meant => ~ Compare(verdict.op, n, cutoff)
    <3>1. n >= meant => n > cutoff
      BY <1>1, <1>3, <2>2
    <3> QED BY <1>1, <1>3, <2>3, <3>1, PastFails
  <2>6. n < meant => n < verdict.at
    BY <1>1, <1>3, <2>1
  <2>7. n >= meant \/ n < meant
    BY <1>1, <1>3
  <2> QED BY <1>2, <2>3, <2>4, <2>5, <2>6, <2>7
<1> QED BY <1>4, <1>5

\* A time that was said gets the verdict of the moment that was meant.
THEOREM VerdictRight == Spec => []VerdictIsRight
BY AlwaysAInv, VerdictRightNow, PTL

\* The margin that is reported is the one there really is.
THEOREM MarginTrue == Spec => []MarginIsTrue
<1>1. AInv => MarginIsTrue
  <2> SUFFICES ASSUME AInv, verdict.status = "satisfied", verdict.op = "lte", ShortWindow
               PROVE  Margin >= 0 /\ Margin = cutoff - meant
    BY DEF MarginIsTrue
  <2>1. VerdictIsRight
    BY VerdictRightNow
  <2>2. heard # NoClock /\ meant \in Nat /\ cutoff \in Nat
    BY VerdictSays
  <2>3. Compare("lte", meant, cutoff)
    BY <2>1 DEF VerdictIsRight, Deadlines
  <2>4. meant <= cutoff
    BY <2>3 DEF Compare
  <2>5. meant - cutoff < Noon
    BY <2>2, <2>4, DayFacts
  <2>6. CombineCutoff(heard) = meant
    BY <2>2, <2>5, AnchorFalls
  <2> QED BY <2>2, <2>4, <2>6 DEF Margin
<1> QED BY <1>1, AlwaysAInv, PTL

\* A violation is not taken back by a later evaluation of the same answer.
THEOREM OnlyWorsens == Spec => VerdictOnlyWorsens
<1>1. AInv /\ [Next]_vars =>
        [verdict.status = "violated" => verdict'.status = "violated"]_vars
  <2> SUFFICES ASSUME AInv, Next, verdict.status = "violated"
               PROVE  verdict'.status = "violated"
    OBVIOUS
  <2>1. CASE Tick \/ Call \/ Answer
    BY <2>1 DEF Tick, Call, Answer
  <2>2. CASE \E op \in Operators : \E required \in {WallClock(cutoff), NoClock} :
                Evaluate(op, required)
    <3>1. PICK op \in Operators, required \in {WallClock(cutoff), NoClock} :
                 Evaluate(op, required)
      BY <2>2
    <3>2. verdict # NoVerdict
      BY DEF NoVerdict
    <3>3. verdict.op = op /\ verdict.required = required
      BY <3>1, <3>2 DEF Evaluate
    <3>4. verdict'.status = StatusOf(op, required)
      BY <3>1 DEF Evaluate
    <3>5. /\ heard # NoClock /\ verdict.at <= now
          /\ Late(op, verdict.at) \/ ~ Compare(op, CombineCutoff(heard), Due(required))
      BY <3>3 DEF AInv, JudgedInv
    <3>6. heard \in Clocks /\ now \in Nat /\ verdict.at \in Nat
      BY <3>5 DEF AInv, TypeOK
    <3>7. CombineCutoff(heard) \in Int
      BY <3>6, AnchoredType DEF AInv
    <3>8. Late(op, verdict.at) => Late(op, now)
      BY <3>5, <3>6, <3>7 DEF Late
    <3>9. StatusOf(op, required) \in {"satisfied", "violated"}
      BY <3>5 DEF StatusOf
    <3>10. StatusOf(op, required) # "satisfied"
      BY <3>5, <3>8, <3>9, StatusSays
    <3> QED BY <3>4, <3>9, <3>10
  <2> QED BY <2>1, <2>2 DEF Next
<1> QED BY <1>1, AlwaysAInv, PTL DEF Spec, VerdictOnlyWorsens
=============================================================================
