---------------------------- MODULE CarrierCalls ----------------------------
(***************************************************************************)
(* The demo carriers: api/routes/telnyx_sim.py answers the calls that      *)
(* Telnyx puts through to a demo number, speaks the carrier's line, and    *)
(* hangs up.                                                               *)
(*                                                                         *)
(* Telnyx is external: it raises an event for what happens on a line,      *)
(* delivers events in any order, and delivers one again while it is among  *)
(* the last Retries that arrived.  A command may be carried out and still  *)
(* fail for the sender, who waits ten seconds for the answer.  A handler   *)
(* looks at both memories before its first await, so an event is one step  *)
(* up to the command, and the command is another.                          *)
(***************************************************************************)
EXTENDS Naturals, SequencesExt

CONSTANTS
    Calls,          \* call_control_id
    Ours,           \* the calls whose `to` is the number of a demo carrier
    Limit,          \* _SEEN_LIMIT, of both memories
    Retries,        \* bound: how far back a redelivered event may lie
    Lines,          \* bound: how many calls are on the line at once
    Late,           \* bound: how many events are on their way when a call rings that is
                    \* not among the first Lines
    Failures        \* bound: the calls that may have a command that fails

ASSUME CarrierAssumption ==
    /\ Calls \subseteq Nat /\ Ours \subseteq Calls
    /\ Limit \in Nat \ {0} /\ Retries \in 0..Limit

VARIABLES
    line,       \* Telnyx: what happens on each call's line
    spoken,     \* Telnyx: how often the carrier's line was spoken into it
    raised,     \* Telnyx: the events there are
    arrived,    \* the events that have arrived
    recent,     \* Telnyx: the last Retries of them, in the order they first arrived
    heard,      \* history: who else was heard of since a call rang, by its number
    seen,       \* _SEEN: the event ids remembered, oldest first
    playing,    \* _PLAYING: the calls whose carrier is remembered, oldest first
    commands,   \* the commands on their way: the handlers that wait for one
    failed      \* the calls a command was not carried out for

telnyxVars == <<line, spoken, raised>>
memoryVars == <<arrived, recent, heard, seen, playing>>
vars == <<telnyxVars, memoryVars, commands, failed>>

Types == {"initiated", "answered", "speak_ended", "hangup"}

\* An event's id: the second speak on a line ends with an event of its own.
Event(c, type, n) == [call |-> c, type |-> type, nth |-> n]

\* `call.speak.ended` comes with `to: null`.
CarriesNumber(e) == e.type # "speak_ended"

TypeOK ==
    /\ line \in [Calls -> {"idle", "ringing", "answered", "speaking", "spoken", "over"}]
    /\ spoken \in [Calls -> Nat]
    /\ raised \subseteq [call : Calls, type : Types, nth : Nat]
    /\ arrived \subseteq raised
    /\ recent \in Seq(arrived) /\ Len(recent) <= Retries
    /\ heard \in [Calls -> SUBSET Ours]
    /\ seen \in Seq(raised) /\ Len(seen) <= Limit
    /\ playing \in Seq(Ours) /\ Len(playing) <= Limit
    /\ commands \subseteq [call : Ours, action : {"answer", "speak", "hangup"}, for : raised]
    /\ failed \subseteq Ours

Init ==
    /\ line = [c \in Calls |-> "idle"]
    /\ spoken = [c \in Calls |-> 0]
    /\ raised = {}
    /\ arrived = {} /\ recent = <<>> /\ heard = [c \in Calls |-> {}]
    /\ seen = <<>> /\ playing = <<>>
    /\ commands = {}
    /\ failed = {}

-----------------------------------------------------------------------------
(* Telnyx.                                                                 *)

OnTheLine == {c \in Calls : line[c] \notin {"idle", "over"}}

\* CALL-E dials a number.  Calls are numbered in the order they ring.
Ring(c) ==
    /\ line[c] = "idle"
    /\ \A d \in Calls : d < c => line[d] # "idle"
    /\ Cardinality(OnTheLine) < Lines
    /\ \/ Cardinality({d \in Calls : line[d] # "idle"}) < Lines
       \/ Cardinality(raised \ arrived) <= Late
    /\ line' = [line EXCEPT ![c] = "ringing"]
    /\ raised' = raised \cup {Event(c, "initiated", 0)}
    /\ UNCHANGED <<spoken, memoryVars, commands, failed>>

\* The synthesiser is through.
SpeakEnds(c) ==
    /\ line[c] = "speaking"
    /\ line' = [line EXCEPT ![c] = "spoken"]
    /\ raised' = raised \cup {Event(c, "speak_ended", spoken[c])}
    /\ UNCHANGED <<spoken, memoryVars, commands, failed>>

\* CALL-E gives up, or has heard enough.
CallerHangsUp(c) ==
    /\ line[c] \notin {"idle", "over"}
    /\ line' = [line EXCEPT ![c] = "over"]
    /\ raised' = raised \cup {Event(c, "hangup", 0)}
    /\ UNCHANGED <<spoken, memoryVars, commands, failed>>

\* What a command does on the line; one that comes too late does nothing.
CarryOut(cmd) ==
    LET c == cmd.call IN
    CASE cmd.action = "answer" /\ line[c] = "ringing" ->
           /\ line' = [line EXCEPT ![c] = "answered"]
           /\ raised' = raised \cup {Event(c, "answered", 0)}
           /\ UNCHANGED spoken
      [] cmd.action = "speak" /\ line[c] \in {"answered", "speaking", "spoken"} ->
           /\ line' = [line EXCEPT ![c] = "speaking"]
           /\ spoken' = [spoken EXCEPT ![c] = @ + 1]
           /\ UNCHANGED raised
      [] cmd.action = "hangup" /\ line[c] # "over" ->
           /\ line' = [line EXCEPT ![c] = "over"]
           /\ raised' = raised \cup {Event(c, "hangup", 0)}
           /\ UNCHANGED spoken
      [] OTHER -> UNCHANGED telnyxVars

-----------------------------------------------------------------------------
(* The memories.                                                           *)

\* The oldest entry goes when there is one too many.
Newest(s, n) == IF Len(s) > n THEN Tail(s) ELSE s

\* Fault: nothing is ever forgotten.
Trim_Never(s) == s

\* `while len(...) > _SEEN_LIMIT: popitem(last=False)`.
Trim(s) == Newest(s, Limit)

\* Fault: popitem() without last=False, which takes the entry just made.
Remembered_Newcomer(e) ==
    IF CarriesNumber(e) /\ e.call \in Ours /\ ~ Contains(playing, e.call) /\ Len(playing) < Limit
    THEN Append(playing, e.call)
    ELSE playing

\* The carrier is remembered at every event that carries the number, a redelivered
\* one too; an entry that is there keeps its place.
Remembered(e) ==
    IF CarriesNumber(e) /\ e.call \in Ours /\ ~ Contains(playing, e.call)
    THEN Trim(Append(playing, e.call))
    ELSE playing

\* The call's carrier is known from this event or from an earlier one.
HasPersona(e) ==
    \/ CarriesNumber(e) /\ e.call \in Ours
    \/ Contains(playing, e.call)

\* The command an event calls for.
ActionFor(type) ==
    CASE type = "initiated" -> "answer"
      [] type = "answered" -> "speak"
      [] type = "speak_ended" -> "hangup"

-----------------------------------------------------------------------------
\* Fault: nothing tells a redelivered event from a new one.
AlreadyHandled_Never(e) == FALSE

\* _already_handled.
AlreadyHandled(e) == Contains(seen, e)

\* Telnyx delivers an event for the first time, or again.
Delivers(e) ==
    /\ e \in raised
    /\ e \in arrived => Contains(recent, e)
    /\ arrived' = arrived \cup {e}
    /\ recent' = IF e \in arrived THEN recent ELSE Newest(Append(recent, e), Retries)
    /\ heard' = [c \in Calls |->
                    IF c \in OnTheLine \ failed
                    THEN heard[c] \cup {d \in Ours \ {c} : CarriesNumber(e) /\ d = e.call}
                    ELSE {}]

\* telnyx_events, for an event that was handled before.
IgnoreDuplicate(e) ==
    /\ Delivers(e)
    /\ AlreadyHandled(e)
    /\ playing' = Remembered(e)
    /\ UNCHANGED <<telnyxVars, seen, commands, failed>>

\* telnyx_events, for a new one: the id is remembered before the command is sent.
HandleEvent(e) ==
    /\ Delivers(e)
    /\ ~ AlreadyHandled(e)
    /\ seen' = Trim(Append(seen, e))
    /\ playing' = IF e.type = "hangup" THEN RemoveFirst(Remembered(e), e.call) ELSE Remembered(e)
    /\ commands' = IF HasPersona(e) /\ e.type # "hangup"
                   THEN commands \cup {[call |-> e.call, action |-> ActionFor(e.type), for |-> e]}
                   ELSE commands
    /\ UNCHANGED <<telnyxVars, failed>>

\* command: Telnyx has carried it out, whether or not the answer arrives.
CommandSent(cmd) ==
    /\ CarryOut(cmd)
    /\ commands' = commands \ {cmd}
    /\ UNCHANGED <<memoryVars, failed>>

\* command: nothing reaches the line; the failure is logged and swallowed.
CommandFails(cmd) ==
    /\ cmd.call \in Failures
    /\ commands' = commands \ {cmd}
    /\ failed' = failed \cup {cmd.call}
    /\ UNCHANGED <<telnyxVars, memoryVars>>

TelnyxEvents == \E e \in raised : IgnoreDuplicate(e) \/ HandleEvent(e)

Next ==
    \/ \E c \in Calls : Ring(c) \/ SpeakEnds(c) \/ CallerHangsUp(c)
    \/ TelnyxEvents
    \/ \E cmd \in commands : CommandSent(cmd) \/ CommandFails(cmd)

\* Every event arrives, every command ends one way or the other, and a spoken line
\* comes to its end: there are finitely many of each.
Fairness ==
    /\ WF_vars(\E c \in Calls : SpeakEnds(c))
    /\ WF_vars(\E e \in raised \ arrived : HandleEvent(e))
    /\ WF_vars(\E cmd \in commands : CommandSent(cmd) \/ CommandFails(cmd))

Spec == Init /\ [][Next]_vars /\ Fairness

-----------------------------------------------------------------------------
(* Properties.                                                             *)

\* "One greeting becomes three" (client.py:22) does not happen: however often events
\* are redelivered, and whether or not a command's answer arrives, a carrier speaks
\* once in a call.
SpokenOnce == \A c \in Calls : spoken[c] <= 1

\* A caller who heard the carrier's line is not left in silence (telnyx_sim.py:36): the
\* call ends, though the event that says so carries no number, if no command failed and
\* fewer other calls than the memory has room for were heard of since it rang.  How many
\* are on the line at once does not matter: a call that is over is heard of, and
\* remembered again, when one of its events is redelivered (telnyx_sim.py:83, before :102).
SilenceIsEnded ==
    \A c \in Ours : line[c] = "spoken" ~>
        line[c] = "over" \/ c \in failed \/ Cardinality(heard[c]) >= Limit
=============================================================================
