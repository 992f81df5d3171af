------------------------- MODULE CarrierCallsProofs -------------------------
(***************************************************************************)
(* The demo carriers, for any number of calls and memories of any size     *)
(* that reach as far back as a redelivery does (CarrierAssumption).        *)
(*                                                                         *)
(* A carrier speaks once, although the memory of handled events is bounded *)
(* and the command may be lost, late or carried out without an answer.     *)
(* What may be delivered again is the end of what is remembered (SeenInv): *)
(* so an event is handled only when it arrives for the first time          *)
(* (HandledOnce).  A line is answered once and says so with one event,     *)
(* whose one command is under way or has been tried (SpeakInv).            *)
(***************************************************************************)
EXTENDS CarrierCalls, SequenceTheorems, TLAPS

-----------------------------------------------------------------------------
(* The inductive invariant *)

\* What is remembered has arrived, and ends with what may be delivered again.
SeenInv ==
    /\ \A j \in 1..Len(seen) : seen[j] \in arrived
    /\ Len(recent) <= Len(seen)
    /\ \A j \in 1..Len(recent) : recent[j] = seen[Len(seen) - Len(recent) + j]

\* The event a carrier speaks upon, and its command.
Answered(c) == Event(c, "answered", 0)
SpeakInto(c) == [call |-> c, action |-> "speak", for |-> Answered(c)]

\* A line is answered once; who speaks, or has spoken, has heard so.
SpeakInv ==
    /\ \A e \in raised : e.type = "answered" => e = Answered(e.call)
    /\ \A cmd \in commands : cmd.action = "speak" =>
         cmd = SpeakInto(cmd.call) /\ Answered(cmd.call) \in arrived
    /\ \A c \in Calls :
         \/ spoken[c] = 0
         \/ /\ spoken[c] = 1 /\ Answered(c) \in arrived
            /\ SpeakInto(c) \notin commands

\* A call is remembered once, as in a dictionary.
Distinct(s) == \A i, j \in 1..Len(s) : s[i] = s[j] => i = j

CarrierInv == TypeOK /\ Distinct(playing) /\ SeenInv /\ SpeakInv

-----------------------------------------------------------------------------
(* The memories *)

LEMMA NewestSeq ==
    ASSUME NEW S, NEW s \in Seq(S), NEW n \in Nat, Len(s) <= n + 1
    PROVE  /\ Newest(s, n) \in Seq(S) /\ Len(Newest(s, n)) <= n
           /\ Len(s) <= n => Newest(s, n) = s
           /\ Len(s) = n + 1 => /\ Len(Newest(s, n)) = n
                                /\ \A j \in 1..n : Newest(s, n)[j] = s[j + 1]
<1>1. Len(s) \in Nat
  BY LenProperties
<1>2. CASE Len(s) <= n
  BY <1>1, <1>2 DEF Newest
<1>3. CASE Len(s) = n + 1
  <2>1. s # <<>> /\ Newest(s, n) = Tail(s)
    BY <1>1, <1>3, EmptySeq DEF Newest
  <2>2. /\ Tail(s) \in Seq(S) /\ Len(Tail(s)) = n
        /\ \A j \in 1..n : Tail(s)[j] = s[j + 1]
    BY <1>1, <1>3, <2>1, HeadTailProperties
  <2> QED BY <1>1, <1>3, <2>1, <2>2
<1> QED BY <1>1, <1>2, <1>3

LEMMA TrimSeq ==
    ASSUME NEW S, NEW s \in Seq(S), Len(s) <= Limit + 1
    PROVE  /\ Trim(s) \in Seq(S) /\ Len(Trim(s)) <= Limit
           /\ Len(s) <= Limit => Trim(s) = s
           /\ Len(s) = Limit + 1 => /\ Len(Trim(s)) = Limit
                                    /\ \A j \in 1..Limit : Trim(s)[j] = s[j + 1]
<1>1. Limit \in Nat
  BY CarrierAssumption
<1> QED BY <1>1, NewestSeq DEF Trim

LEMMA TrimDistinct ==
    ASSUME NEW S, NEW s \in Seq(S), Len(s) <= Limit + 1, Distinct(s)
    PROVE  Distinct(Trim(s))
<1> USE CarrierAssumption
<1>1. Len(s) \in Nat
  BY LenProperties
<1>2. CASE Len(s) <= Limit
  BY <1>2, TrimSeq
<1>3. CASE Len(s) = Limit + 1
  <2>1. Len(Trim(s)) = Limit /\ \A j \in 1..Limit : Trim(s)[j] = s[j + 1]
    BY <1>3, TrimSeq
  <2>2. ASSUME NEW i \in 1..Limit, NEW j \in 1..Limit, s[i + 1] = s[j + 1] PROVE i = j
    <3>1. i + 1 \in 1..Len(s) /\ j + 1 \in 1..Len(s)
      BY <1>3
    <3>2. i + 1 = j + 1
      BY <2>2, <3>1 DEF Distinct
    <3> QED BY <3>2
  <2> QED BY <2>1, <2>2 DEF Distinct
<1> QED BY <1>1, <1>2, <1>3

\* What is left when one entry is taken out.
LEMMA RemovedOne ==
    ASSUME NEW S, NEW s \in Seq(S), NEW i \in 1..Len(s)
    PROVE  /\ RemoveAt(s, i) \in Seq(S) /\ Len(RemoveAt(s, i)) = Len(s) - 1
           /\ \A j \in 1..(Len(s) - 1) : RemoveAt(s, i)[j] = s[IF j < i THEN j ELSE j + 1]
<1> DEFINE before == SubSeq(s, 1, i - 1)
           after == SubSeq(s, i + 1, Len(s))
<1>1. Len(s) \in Nat /\ \A j \in 1..Len(s) : s[j] \in S
  BY LenProperties, ElementOfSeq
<1>2. /\ before \in Seq(S) /\ Len(before) = i - 1
      /\ \A j \in 1..(i - 1) : before[j] = s[j]
  <2>1. /\ \A j \in 1..(i - 1) : s[j] \in S
        /\ i - 1 \in Int /\ (i - 1) - 1 + 1 = i - 1 /\ (1 <= i - 1 \/ i - 1 = 0)
    BY <1>1
  <2>2. \A j \in 1..(i - 1) : 1 + j - 1 = j
    BY <1>1
  <2>3. /\ before \in Seq(S) /\ Len(before) = IF 1 <= i - 1 THEN (i - 1) - 1 + 1 ELSE 0
        /\ \A j \in 1..((i - 1) - 1 + 1) : before[j] = s[1 + j - 1]
    BY <2>1, SubSeqProperties
  <2> QED BY <2>1, <2>2, <2>3
<1>3. /\ after \in Seq(S) /\ Len(after) = Len(s) - i
      /\ \A j \in 1..(Len(s) - i) : after[j] = s[i + j]
  <2>1. /\ \A j \in (i + 1)..Len(s) : s[j] \in S
        /\ i + 1 \in Int /\ Len(s) \in Int /\ Len(s) - (i + 1) + 1 = Len(s) - i
        /\ i + 1 <= Len(s) \/ Len(s) - i = 0
    BY <1>1
  <2>2. \A j \in 1..(Len(s) - i) : (i + 1) + j - 1 = i + j
    BY <1>1
  <2>3. ASSUME NEW m \in Int, m = i + 1
        PROVE  /\ SubSeq(s, m, Len(s)) \in Seq(S)
               /\ Len(SubSeq(s, m, Len(s))) = IF m <= Len(s) THEN Len(s) - m + 1 ELSE 0
               /\ \A j \in 1..(Len(s) - m + 1) : SubSeq(s, m, Len(s))[j] = s[m + j - 1]
    <3>1. \A j \in m..Len(s) : s[j] \in S
      BY <2>1, <2>3
    <3>2. ASSUME NEW n \in Int, n = Len(s)
          PROVE  /\ SubSeq(s, m, n) \in Seq(S)
                 /\ Len(SubSeq(s, m, n)) = IF m <= n THEN n - m + 1 ELSE 0
                 /\ \A j \in 1..(n - m + 1) : SubSeq(s, m, n)[j] = s[m + j - 1]
      <4>1. \A j \in m..n : s[j] \in S
        BY <3>1, <3>2
      <4> HIDE DEF before, after
      <4> QED BY <4>1, SubSeqProperties
    <3>3. Len(s) \in Int
      BY <1>1
    <3> QED BY <3>2, <3>3
  <2>4. /\ after \in Seq(S)
        /\ Len(after) = IF i + 1 <= Len(s) THEN Len(s) - (i + 1) + 1 ELSE 0
        /\ \A j \in 1..(Len(s) - (i + 1) + 1) : after[j] = s[(i + 1) + j - 1]
    BY <2>1, <2>3
  <2> QED BY <2>1, <2>2, <2>4
<1> HIDE DEF before, after
<1>4. /\ RemoveAt(s, i) = before \o after
      /\ RemoveAt(s, i) \in Seq(S)
      /\ Len(RemoveAt(s, i)) = Len(before) + Len(after)
      /\ \A j \in 1..(Len(before) + Len(after)) :
           RemoveAt(s, i)[j] = IF j <= Len(before) THEN before[j] ELSE after[j - Len(before)]
  <2>1. RemoveAt(s, i) = before \o after
    BY DEF RemoveAt, before, after
  <2>2. before \in Seq(S) /\ after \in Seq(S)
    BY <1>2, <1>3
  <2>3. /\ before \o after \in Seq(S)
        /\ Len(before \o after) = Len(before) + Len(after)
        /\ \A j \in 1..(Len(before) + Len(after)) :
             (before \o after)[j] = IF j <= Len(before) THEN before[j] ELSE after[j - Len(before)]
    BY <2>2, ConcatProperties
  <2> QED BY <2>1, <2>3
<1>5. Len(RemoveAt(s, i)) = Len(s) - 1
  BY <1>1, <1>2, <1>3, <1>4
<1>6. ASSUME NEW j \in 1..(Len(s) - 1)
      PROVE  RemoveAt(s, i)[j] = s[IF j < i THEN j ELSE j + 1]
  <2>1. CASE j < i
    <3>1. j \in 1..(i - 1) /\ j \in 1..(Len(before) + Len(after)) /\ j <= Len(before)
      BY <1>1, <1>2, <1>3, <2>1
    <3> QED BY <1>2, <1>4, <2>1, <3>1
  <2>2. CASE ~ (j < i)
    <3>1. /\ j \in 1..(Len(before) + Len(after)) /\ ~ (j <= Len(before))
          /\ j - Len(before) = j - i + 1 /\ j - i + 1 \in 1..(Len(s) - i)
          /\ i + (j - i + 1) = j + 1
      BY <1>1, <1>2, <1>3, <2>2
    <3>2. RemoveAt(s, i)[j] = after[j - i + 1]
      BY <1>4, <3>1
    <3>3. after[j - i + 1] = s[j + 1]
      BY <1>3, <3>1
    <3> QED BY <2>2, <3>2, <3>3
  <2> QED BY <2>1, <2>2
<1> QED BY <1>4, <1>5, <1>6

LEMMA RemovedFirst ==
    ASSUME NEW S, NEW s \in Seq(S), Len(s) <= Limit, Distinct(s), NEW c
    PROVE  /\ RemoveFirst(s, c) \in Seq(S) /\ Len(RemoveFirst(s, c)) <= Limit
           /\ Distinct(RemoveFirst(s, c))
<1> USE CarrierAssumption
<1>0. Len(s) \in Nat
  BY LenProperties
<1>1. CASE ~ \E i \in 1..Len(s) : s[i] = c
  BY <1>1 DEF RemoveFirst
<1>2. ASSUME NEW i \in 1..Len(s), s[i] = c
      PROVE  /\ RemoveFirst(s, c) \in Seq(S) /\ Len(RemoveFirst(s, c)) <= Limit
             /\ Distinct(RemoveFirst(s, c))
  <2>1. {k \in 1..Len(s) : s[k] = c} = {i}
    BY <1>2 DEF Distinct
  <2>2. Min({i}) = i
    BY DEF Min
  <2>3. RemoveFirst(s, c) = RemoveAt(s, i)
    BY <1>2, <2>1, <2>2 DEF RemoveFirst, SelectInSeq
  <2>4. /\ RemoveAt(s, i) \in Seq(S) /\ Len(RemoveAt(s, i)) = Len(s) - 1
        /\ \A j \in 1..(Len(s) - 1) : RemoveAt(s, i)[j] = s[IF j < i THEN j ELSE j + 1]
    BY RemovedOne
  <2>5. ASSUME NEW j \in 1..(Len(s) - 1), NEW k \in 1..(Len(s) - 1),
               RemoveAt(s, i)[j] = RemoveAt(s, i)[k]
        PROVE  j = k
    <3> DEFINE at(m) == IF m < i THEN m ELSE m + 1
    <3>1. at(j) \in 1..Len(s) /\ at(k) \in 1..Len(s)
      BY <1>0
    <3>2. s[at(j)] = s[at(k)]
      BY <2>4, <2>5
    <3>3. at(j) = at(k)
      <4> HIDE DEF at
      <4> QED BY <3>1, <3>2 DEF Distinct
    <3> QED BY <1>0, <3>3
  <2>6. Distinct(RemoveAt(s, i))
    BY <2>4, <2>5 DEF Distinct
  <2> QED BY <1>0, <2>3, <2>4, <2>6
<1> QED BY <1>1, <1>2

LEMMA RememberedType ==
    ASSUME TypeOK, Distinct(playing), NEW e \in raised
    PROVE  /\ Remembered(e) \in Seq(Ours) /\ Len(Remembered(e)) <= Limit
           /\ Distinct(Remembered(e))
<1> USE CarrierAssumption
<1>1. playing \in Seq(Ours) /\ Len(playing) <= Limit /\ Len(playing) \in Nat
  BY LenProperties DEF TypeOK
<1>2. CASE e.call \in Ours /\ ~ Contains(playing, e.call)
  <2> DEFINE s == Append(playing, e.call)
  <2>1. /\ s \in Seq(Ours) /\ Len(s) = Len(playing) + 1
        /\ \A i \in 1..Len(playing) : s[i] = playing[i]
        /\ s[Len(playing) + 1] = e.call
    BY <1>1, <1>2, AppendProperties
  <2>2. \A i \in 1..Len(playing) : playing[i] # e.call
    BY <1>2 DEF Contains
  <2>3. Distinct(s)
    <3> HIDE DEF s
    <3> SUFFICES ASSUME NEW i \in 1..(Len(playing) + 1), NEW j \in 1..(Len(playing) + 1),
                        s[i] = s[j]
                 PROVE  i = j
      BY <2>1 DEF Distinct
    <3>1. \A k \in 1..(Len(playing) + 1) : k \in 1..Len(playing) \/ k = Len(playing) + 1
      BY <1>1
    <3>2. CASE i \in 1..Len(playing) /\ j \in 1..Len(playing)
      BY <2>1, <3>2 DEF Distinct
    <3>3. CASE i \in 1..Len(playing) /\ j = Len(playing) + 1
      BY <2>1, <2>2, <3>3
    <3>4. CASE i = Len(playing) + 1 /\ j \in 1..Len(playing)
      BY <2>1, <2>2, <3>4
    <3> QED BY <3>1, <3>2, <3>3, <3>4
  <2> HIDE DEF s
  <2>4. Trim(s) \in Seq(Ours) /\ Len(Trim(s)) <= Limit /\ Distinct(Trim(s))
    <3>1. Len(s) <= Limit + 1
      BY <1>1, <2>1
    <3> QED BY <2>1, <2>3, <3>1, TrimSeq, TrimDistinct
  <2>5. Remembered(e) \in {Trim(s), playing}
    BY DEF Remembered, s
  <2> QED BY <1>1, <2>4, <2>5
<1>3. CASE ~ (e.call \in Ours /\ ~ Contains(playing, e.call))
  BY <1>1, <1>3 DEF Remembered
<1> QED BY <1>2, <1>3

-----------------------------------------------------------------------------
(* Events *)

\* An event that is not remembered has not arrived: what may be delivered again is.
LEMMA HandledOnce ==
    ASSUME TypeOK, SeenInv, NEW e \in raised, Delivers(e)
    PROVE  /\ AlreadyHandled(e) => UNCHANGED <<arrived, recent>>
           /\ ~ AlreadyHandled(e) =>
                /\ e \notin arrived /\ arrived' = arrived \cup {e}
                /\ recent' = Newest(Append(recent, e), Retries)
           /\ heard' \in [Calls -> SUBSET Ours]
<1>1. Len(recent) \in Nat /\ Len(seen) \in Nat
  BY LenProperties DEF TypeOK
<1>2. ASSUME AlreadyHandled(e) PROVE e \in arrived
  BY <1>2 DEF AlreadyHandled, Contains, SeenInv
<1>3. ASSUME e \in arrived PROVE AlreadyHandled(e)
  <2>1. PICK i \in 1..Len(recent) : recent[i] = e
    BY <1>3 DEF Delivers, Contains
  <2> DEFINE j == Len(seen) - Len(recent) + i
  <2>2. j \in 1..Len(seen)
    BY <1>1, <2>1 DEF SeenInv
  <2>3. seen[j] = e
    BY <2>1 DEF SeenInv
  <2> HIDE DEF j
  <2> QED BY <2>2, <2>3 DEF AlreadyHandled, Contains
<1>4. heard' \in [Calls -> SUBSET Ours]
  <2>1. heard \in [Calls -> SUBSET Ours]
    BY DEF TypeOK
  <2> QED BY <2>1 DEF Delivers
<1> QED BY <1>2, <1>3, <1>4 DEF Delivers

\* What a command does on the line.
LEMMA CommandEffect ==
    ASSUME TypeOK, NEW cmd \in commands, CarryOut(cmd)
    PROVE  /\ line' \in [Calls -> {"idle", "ringing", "answered", "speaking", "spoken", "over"}]
           /\ raised' \in {raised, raised \cup {Answered(cmd.call)},
                           raised \cup {Event(cmd.call, "hangup", 0)}}
           /\ \/ spoken' = spoken
              \/ cmd.action = "speak" /\ spoken' = [spoken EXCEPT ![cmd.call] = @ + 1]
<1>0. /\ line \in [Calls -> {"idle", "ringing", "answered", "speaking", "spoken", "over"}]
      /\ cmd.call \in Calls
  BY CarrierAssumption DEF TypeOK
<1>1. CASE cmd.action = "answer" /\ line[cmd.call] = "ringing"
  BY <1>0, <1>1 DEF CarryOut, Answered
<1>2. CASE cmd.action = "speak" /\ line[cmd.call] \in {"answered", "speaking", "spoken"}
  BY <1>0, <1>2 DEF CarryOut
<1>3. CASE cmd.action = "hangup" /\ line[cmd.call] # "over"
  BY <1>0, <1>3 DEF CarryOut
<1>4. CASE /\ ~ (cmd.action = "answer" /\ line[cmd.call] = "ringing")
           /\ ~ (cmd.action = "speak" /\ line[cmd.call] \in {"answered", "speaking", "spoken"})
           /\ ~ (cmd.action = "hangup" /\ line[cmd.call] # "over")
  BY <1>0, <1>4 DEF CarryOut, telnyxVars
<1> QED BY <1>1, <1>2, <1>3, <1>4

-----------------------------------------------------------------------------
(* The steps *)

\* What Telnyx does without being told answers no line and speaks into none.
LEMMA TelnyxStep ==
    ASSUME CarrierInv, NEW c \in Calls, Ring(c) \/ SpeakEnds(c) \/ CallerHangsUp(c)
    PROVE  CarrierInv'
<1>1. /\ UNCHANGED <<spoken, arrived, recent, heard, seen, playing, commands, failed>>
      /\ line' \in [Calls -> {"idle", "ringing", "answered", "speaking", "spoken", "over"}]
      /\ \E type \in {"initiated", "speak_ended", "hangup"}, n \in Nat :
           raised' = raised \cup {Event(c, type, n)}
  BY DEF CarrierInv, TypeOK, Ring, SpeakEnds, CallerHangsUp, memoryVars
<1>2. PICK type \in {"initiated", "speak_ended", "hangup"}, n \in Nat :
        raised' = raised \cup {Event(c, type, n)}
  BY <1>1
<1>3. /\ raised \subseteq raised' /\ raised' \subseteq [call : Calls, type : Types, nth : Nat]
      /\ Event(c, type, n).type # "answered"
  BY <1>2 DEF CarrierInv, TypeOK, Event, Types
<1>4. SeenInv'
  BY <1>1 DEF CarrierInv, SeenInv
<1>5. TypeOK'
  <2>1. seen \in Seq(raised') /\ arrived \subseteq raised'
    BY <1>3, SeqMonotonic DEF CarrierInv, TypeOK
  <2> QED BY <1>1, <1>3, <2>1 DEF CarrierInv, TypeOK
<1>6. SpeakInv'
  <2>1. ASSUME NEW e \in raised', e.type = "answered" PROVE e = Answered(e.call)
    BY <1>2, <1>3, <2>1 DEF CarrierInv, SpeakInv
  <2> QED BY <1>1, <2>1 DEF CarrierInv, SpeakInv
<1>7. Distinct(playing)'
  BY <1>1 DEF CarrierInv, Distinct
<1> QED BY <1>4, <1>5, <1>6, <1>7 DEF CarrierInv

\* An event that is delivered again leaves only the carrier's number behind.
LEMMA DuplicateStep ==
    ASSUME CarrierInv, NEW e \in raised, IgnoreDuplicate(e)
    PROVE  CarrierInv'
<1>1. /\ UNCHANGED <<line, spoken, raised, arrived, recent, seen, commands, failed>>
      /\ playing' = Remembered(e) /\ heard' \in [Calls -> SUBSET Ours]
  BY HandledOnce DEF CarrierInv, IgnoreDuplicate, telnyxVars
<1>2. /\ playing' \in Seq(Ours) /\ Len(playing') <= Limit /\ Distinct(playing)'
  BY <1>1, RememberedType DEF CarrierInv, Distinct
<1>3. SeenInv' /\ SpeakInv'
  BY <1>1 DEF CarrierInv, SeenInv, SpeakInv
<1>4. TypeOK'
  BY <1>1, <1>2 DEF CarrierInv, TypeOK
<1> QED BY <1>2, <1>3, <1>4 DEF CarrierInv

\* An event that is handled has arrived just now, and is the last one remembered.
LEMMA HandledSeen ==
    ASSUME CarrierInv, NEW e \in raised, HandleEvent(e)
    PROVE  /\ SeenInv'
           /\ seen' \in Seq(raised') /\ Len(seen') <= Limit
           /\ recent' \in Seq(arrived') /\ Len(recent') <= Retries
<1>0. Limit \in Nat \ {0} /\ Retries \in Nat /\ Retries <= Limit
  BY CarrierAssumption
<1>1. /\ arrived' = arrived \cup {e} /\ raised' = raised
      /\ seen' = Trim(Append(seen, e)) /\ recent' = Newest(Append(recent, e), Retries)
  BY HandledOnce DEF CarrierInv, HandleEvent, telnyxVars
<1>2. /\ seen \in Seq(raised) /\ recent \in Seq(arrived')
      /\ Len(seen) \in Nat /\ Len(recent) \in Nat
      /\ Len(seen) <= Limit /\ Len(recent) <= Retries /\ Len(recent) <= Len(seen)
  <2>1. recent \in Seq(arrived')
    BY <1>1, SeqMonotonic DEF CarrierInv, TypeOK
  <2> QED BY <2>1, LenProperties DEF CarrierInv, TypeOK, SeenInv
<1> DEFINE s == Append(seen, e)
           t == Append(recent, e)
           \* how many of the oldest entries go
           m == Len(s) - Len(seen')
           n == Len(t) - Len(recent')
<1>3. /\ s \in Seq(raised) /\ Len(s) = Len(seen) + 1
      /\ \A j \in 1..Len(seen) : s[j] = seen[j]
      /\ s[Len(seen) + 1] = e
  BY <1>2, AppendProperties
<1>4. /\ t \in Seq(arrived') /\ Len(t) = Len(recent) + 1
      /\ \A j \in 1..Len(recent) : t[j] = recent[j]
      /\ t[Len(recent) + 1] = e
  BY <1>1, <1>2, AppendProperties
<1>5. seen' = Trim(s) /\ recent' = Newest(t, Retries)
  BY <1>1
<1> HIDE DEF s, t
<1>6. /\ seen' \in Seq(raised) /\ Len(seen') \in Nat /\ Len(seen') <= Limit
      /\ m \in {0, 1} /\ (m = 0 \/ Len(seen') = Limit)
      /\ \A j \in 1..Len(seen') : seen'[j] = s[m + j]
  <2>1. CASE Len(s) <= Limit
    <3>1. seen' = s
      <4>1. Len(s) <= Limit + 1
        BY <1>0, <1>2, <1>3, <2>1
      <4> QED BY <1>3, <1>5, <2>1, <4>1, TrimSeq
    <3>2. m = 0 /\ Len(seen') \in Nat
      BY <1>2, <1>3, <3>1
    <3>3. \A j \in 1..Len(seen') : m + j = j
      BY <3>2
    <3> HIDE DEF m
    <3> QED BY <1>3, <2>1, <3>1, <3>2, <3>3
  <2>2. CASE Len(s) = Limit + 1
    <3>1. /\ seen' \in Seq(raised) /\ Len(seen') = Limit
          /\ \A j \in 1..Limit : seen'[j] = s[j + 1]
      BY <1>3, <1>5, <2>2, TrimSeq
    <3>2. m = 1
      BY <1>0, <2>2, <3>1
    <3>3. \A j \in 1..Limit : j + 1 = m + j
      BY <1>0, <3>2
    <3> HIDE DEF m
    <3> QED BY <1>0, <3>1, <3>2, <3>3
  <2> QED BY <1>0, <1>2, <1>3, <2>1, <2>2
<1>7. /\ recent' \in Seq(arrived') /\ Len(recent') \in Nat /\ Len(recent') <= Retries
      /\ n \in {0, 1} /\ (n = 0 \/ Len(recent') = Retries)
      /\ \A j \in 1..Len(recent') : recent'[j] = t[n + j]
  <2>1. CASE Len(t) <= Retries
    <3>1. recent' = t
      BY <1>0, <1>2, <1>4, <1>5, <2>1, NewestSeq
    <3>2. n = 0 /\ Len(recent') \in Nat
      BY <1>2, <1>4, <3>1
    <3>3. \A j \in 1..Len(recent') : n + j = j
      BY <3>2
    <3> HIDE DEF n
    <3> QED BY <1>4, <2>1, <3>1, <3>2, <3>3
  <2>2. CASE Len(t) = Retries + 1
    <3>1. /\ recent' \in Seq(arrived') /\ Len(recent') = Retries
          /\ \A j \in 1..Retries : recent'[j] = t[j + 1]
      BY <1>0, <1>4, <1>5, <2>2, NewestSeq
    <3>2. n = 1
      BY <1>0, <2>2, <3>1
    <3>3. \A j \in 1..Retries : j + 1 = n + j
      BY <1>0, <3>2
    <3> HIDE DEF n
    <3> QED BY <1>0, <3>1, <3>2, <3>3
  <2> QED BY <1>0, <1>2, <1>4, <2>1, <2>2
<1>8. Len(recent') <= Len(seen')
  <2>1. Len(seen') = Len(seen) + 1 \/ Len(seen') = Limit
    BY <1>2, <1>3, <1>6
  <2>2. Len(recent') <= Len(recent) + 1
    BY <1>2, <1>4, <1>7
  <2> QED BY <1>0, <1>2, <1>7, <2>1, <2>2
<1>9. \A j \in 1..Len(s) : s[j] \in arrived'
  BY <1>1, <1>2, <1>3 DEF CarrierInv, SeenInv
<1>10. ASSUME NEW j \in 1..Len(t) PROVE t[j] = s[Len(s) - Len(t) + j]
  <2>1. CASE j \in 1..Len(recent)
    <3>1. /\ Len(s) - Len(t) + j = Len(seen) - Len(recent) + j
          /\ Len(seen) - Len(recent) + j \in 1..Len(seen)
      BY <1>2, <1>3, <1>4, <2>1
    <3>2. t[j] = seen[Len(seen) - Len(recent) + j]
      BY <1>4, <2>1 DEF CarrierInv, SeenInv
    <3> QED BY <1>3, <3>1, <3>2
  <2>2. CASE j = Len(recent) + 1
    <3>1. Len(s) - Len(t) + j = Len(seen) + 1
      BY <1>2, <1>3, <1>4, <2>2
    <3> QED BY <1>3, <1>4, <2>2, <3>1
  <2> QED BY <1>2, <1>4, <2>1, <2>2
<1>11. \A j \in 1..Len(seen') : seen'[j] \in arrived'
  <2>1. \A j \in 1..Len(seen') : m + j \in 1..Len(s)
    BY <1>2, <1>3, <1>6
  <2> HIDE DEF m
  <2> QED BY <1>6, <1>9, <2>1
<1>12. ASSUME NEW j \in 1..Len(recent')
       PROVE  recent'[j] = seen'[Len(seen') - Len(recent') + j]
  <2> DEFINE i == Len(seen') - Len(recent') + j
  <2>1. i \in 1..Len(seen')
    BY <1>6, <1>7, <1>8
  <2>2. n + j \in 1..Len(t) /\ Len(s) - Len(t) + (n + j) = m + i
    BY <1>2, <1>3, <1>4, <1>6, <1>7
  <2>3. recent'[j] = t[n + j] /\ seen'[i] = s[m + i]
    <3> HIDE DEF n, m, i
    <3> QED BY <1>6, <1>7, <2>1
  <2>4. t[n + j] = s[Len(s) - Len(t) + (n + j)]
    <3> HIDE DEF n, m, i
    <3> QED BY <1>10, <2>2
  <2> HIDE DEF n, m
  <2> QED BY <2>2, <2>3, <2>4
<1> QED BY <1>1, <1>6, <1>7, <1>8, <1>11, <1>12 DEF SeenInv

LEMMA HandleStep ==
    ASSUME CarrierInv, NEW e \in raised, HandleEvent(e)
    PROVE  CarrierInv'
<1>1. /\ UNCHANGED <<line, spoken, raised, failed>>
      /\ arrived' = arrived \cup {e} /\ e \notin arrived
      /\ heard' \in [Calls -> SUBSET Ours]
  BY HandledOnce DEF CarrierInv, HandleEvent, telnyxVars
<1>2. /\ SeenInv'
      /\ seen' \in Seq(raised') /\ Len(seen') <= Limit
      /\ recent' \in Seq(arrived') /\ Len(recent') <= Retries
  BY HandledSeen
<1>3. playing' \in Seq(Ours) /\ Len(playing') <= Limit /\ Distinct(playing)'
  <2>1. /\ Remembered(e) \in Seq(Ours) /\ Len(Remembered(e)) <= Limit
        /\ Distinct(Remembered(e))
    BY RememberedType DEF CarrierInv
  <2>2. playing' \in {Remembered(e), RemoveFirst(Remembered(e), e.call)}
    BY DEF HandleEvent
  <2>3. Distinct(playing')
    BY <2>1, <2>2, RemovedFirst
  <2>4. playing' \in Seq(Ours) /\ Len(playing') <= Limit
    BY <2>1, <2>2, RemovedFirst
  <2> QED BY <2>3, <2>4 DEF Distinct
<1> DEFINE new == [call |-> e.call, action |-> ActionFor(e.type), for |-> e]
<1>4. /\ commands' \in {commands, commands \cup {new}}
      /\ commands' # commands => e.call \in Ours /\ e.type # "hangup"
  <2>1. Contains(playing, e.call) => e.call \in Ours
    BY ElementOfSeq DEF CarrierInv, TypeOK, Contains
  <2> QED BY <2>1 DEF HandleEvent, HasPersona
<1>5. e \in [call : Calls, type : Types, nth : Nat]
  BY DEF CarrierInv, TypeOK
<1>6. e.type # "hangup" => /\ ActionFor(e.type) \in {"answer", "speak", "hangup"}
                           /\ ActionFor(e.type) = "speak" => e.type = "answered"
  BY <1>5 DEF ActionFor, Types
<1>7. commands' \subseteq [call : Ours, action : {"answer", "speak", "hangup"}, for : raised]
  <2>1. commands \subseteq [call : Ours, action : {"answer", "speak", "hangup"}, for : raised]
    BY DEF CarrierInv, TypeOK
  <2> QED BY <1>4, <1>6, <2>1
<1>8. TypeOK'
  BY <1>1, <1>2, <1>3, <1>7 DEF CarrierInv, TypeOK
<1>9. arrived \subseteq arrived' /\ e \in arrived'
  BY <1>1
<1>10. ASSUME NEW cmd \in commands', cmd.action = "speak"
       PROVE  cmd = SpeakInto(cmd.call) /\ Answered(cmd.call) \in arrived'
  <2>1. CASE cmd \in commands
    BY <1>9, <1>10, <2>1 DEF CarrierInv, SpeakInv
  <2>2. CASE cmd \notin commands
    <3>1. cmd = new /\ e.type = "answered"
      BY <1>4, <1>6, <1>10, <2>2
    <3>2. e = Answered(e.call)
      BY <3>1 DEF CarrierInv, SpeakInv
    <3>3. cmd.call = e.call /\ cmd.action = "speak" /\ cmd.for = e
      BY <1>10, <3>1
    <3> QED BY <1>9, <1>10, <3>1, <3>2, <3>3 DEF SpeakInto
  <2> QED BY <2>1, <2>2
<1>11. ASSUME NEW c \in Calls, Answered(c) \in arrived, SpeakInto(c) \notin commands
       PROVE  SpeakInto(c) \notin commands'
  <2>1. SUFFICES ASSUME SpeakInto(c) = new PROVE FALSE
    BY <1>4, <1>11
  <2>2. e = Answered(c)
    BY <2>1 DEF SpeakInto
  <2> QED BY <1>1, <1>11, <2>2
<1>12. SpeakInv'
  <2> HIDE DEF new
  <2> QED BY <1>1, <1>9, <1>10, <1>11 DEF CarrierInv, SpeakInv
<1> QED BY <1>2, <1>3, <1>8, <1>12 DEF CarrierInv

\* A command leaves whether it is carried out or not, and with it the last one to speak.
LEMMA CommandStep ==
    ASSUME CarrierInv, NEW cmd \in commands, CommandSent(cmd) \/ CommandFails(cmd)
    PROVE  CarrierInv'
<1>0. cmd.call \in Ours /\ cmd.call \in Calls
  BY CarrierAssumption DEF CarrierInv, TypeOK
<1>1. /\ UNCHANGED <<arrived, recent, heard, seen, playing>> /\ commands' = commands \ {cmd}
      /\ failed' \subseteq Ours
      /\ line' \in [Calls -> {"idle", "ringing", "answered", "speaking", "spoken", "over"}]
      /\ raised' \in {raised, raised \cup {Answered(cmd.call)},
                      raised \cup {Event(cmd.call, "hangup", 0)}}
      /\ \/ spoken' = spoken
         \/ cmd.action = "speak" /\ spoken' = [spoken EXCEPT ![cmd.call] = @ + 1]
  BY <1>0, CommandEffect DEF CarrierInv, TypeOK, CommandSent, CommandFails, memoryVars, telnyxVars
<1>2. /\ raised \subseteq raised'
      /\ raised' \subseteq [call : Calls, type : Types, nth : Nat]
  BY <1>0, <1>1 DEF CarrierInv, TypeOK, Answered, Event, Types
<1>3. SeenInv'
  BY <1>1 DEF CarrierInv, SeenInv
<1>4. TypeOK'
  <2>1. spoken' \in [Calls -> Nat]
    <3>1. spoken \in [Calls -> Nat]
      BY DEF CarrierInv, TypeOK
    <3>2. [spoken EXCEPT ![cmd.call] = @ + 1] \in [Calls -> Nat]
      BY <1>0, <3>1
    <3> QED BY <1>1, <3>1, <3>2
  <2>2. seen \in Seq(raised') /\ arrived \subseteq raised'
    BY <1>2, SeqMonotonic DEF CarrierInv, TypeOK
  <2>3. commands' \subseteq [call : Ours, action : {"answer", "speak", "hangup"}, for : raised']
    BY <1>1, <1>2 DEF CarrierInv, TypeOK
  <2> QED BY <1>1, <1>2, <2>1, <2>2, <2>3 DEF CarrierInv, TypeOK
<1>5. ASSUME NEW e \in raised', e.type = "answered" PROVE e = Answered(e.call)
  <2>1. CASE e \in raised
    BY <1>5, <2>1 DEF CarrierInv, SpeakInv
  <2>2. CASE e \notin raised
    BY <1>1, <1>5, <2>2 DEF Answered, Event
  <2> QED BY <2>1, <2>2
<1>6. ASSUME NEW c \in Calls
      PROVE  \/ spoken'[c] = 0
             \/ /\ spoken'[c] = 1 /\ Answered(c) \in arrived
                /\ SpeakInto(c) \notin commands'
  <2>1. CASE spoken'[c] = spoken[c]
    BY <1>1, <2>1 DEF CarrierInv, SpeakInv
  <2>2. CASE spoken'[c] # spoken[c]
    <3>1. /\ cmd.action = "speak" /\ c = cmd.call /\ spoken'[c] = spoken[c] + 1
      BY <1>0, <1>1, <2>2 DEF CarrierInv, TypeOK
    <3>2. cmd = SpeakInto(c) /\ Answered(c) \in arrived
      BY <3>1 DEF CarrierInv, SpeakInv
    <3>3. spoken[c] = 0
      BY <3>2 DEF CarrierInv, SpeakInv
    <3> QED BY <1>1, <3>1, <3>2, <3>3
  <2> QED BY <2>1, <2>2
<1>7. SpeakInv'
  BY <1>1, <1>5, <1>6 DEF CarrierInv, SpeakInv
<1>8. Distinct(playing)'
  BY <1>1 DEF CarrierInv, Distinct
<1> QED BY <1>3, <1>4, <1>7, <1>8 DEF CarrierInv

LEMMA CarrierInit == Init => CarrierInv
<1> SUFFICES ASSUME Init PROVE CarrierInv
  OBVIOUS
<1>1. /\ <<>> \in Seq(raised) /\ <<>> \in Seq(arrived) /\ <<>> \in Seq(Ours) /\ Len(<<>>) = 0
  BY EmptySeq
<1>2. TypeOK
  BY <1>1, CarrierAssumption DEF Init, TypeOK
<1>3. SeenInv /\ Distinct(playing)
  BY <1>1 DEF Init, SeenInv, Distinct
<1>4. SpeakInv
  BY DEF Init, SpeakInv
<1> QED BY <1>2, <1>3, <1>4 DEF CarrierInv

LEMMA CarrierInductive == Spec => []CarrierInv
<1>1. CarrierInv /\ UNCHANGED vars => CarrierInv'
  BY DEF vars, telnyxVars, memoryVars, CarrierInv, TypeOK, Distinct, SeenInv, SpeakInv
<1>2. CarrierInv /\ [Next]_vars => CarrierInv'
  BY <1>1, TelnyxStep, DuplicateStep, HandleStep, CommandStep DEF Next, TelnyxEvents
<1> QED BY <1>2, CarrierInit, PTL DEF Spec

-----------------------------------------------------------------------------
(* The theorems *)

\* The memories stay within their limit and hold what they are for: events that have been
\* raised, and calls of demo carriers.
THEOREM TypeCorrect == Spec => []TypeOK
<1>1. CarrierInv => TypeOK
  BY DEF CarrierInv
<1> QED BY <1>1, CarrierInductive, PTL

\* However often and in whatever order events are delivered, and whatever becomes of the
\* commands, a carrier speaks once in a call: a memory that reaches as far back as a
\* redelivery is enough.
THEOREM SpeaksOnce == Spec => []SpokenOnce
<1>1. CarrierInv => SpokenOnce
  BY DEF CarrierInv, SpeakInv, SpokenOnce
<1> QED BY <1>1, CarrierInductive, PTL
=============================================================================
