----------------------------- MODULE VoiceStream -----------------------------
(***************************************************************************)
(* One voice call (routes/voice.py, voice_stream): a task that forwards    *)
(* the caller's messages to the realtime voice provider, a task that       *)
(* handles the provider's events, one task per tool call, and the handler  *)
(* that ends the call when the first of the two tasks ends.  They are      *)
(* coroutines of one event loop: each action is what one of them does up   *)
(* to an await whose outcome matters.  (The blocks under tool_result_lock  *)
(* hold no await: they are steps whatever the lock.)                       *)
(*                                                                         *)
(* The provider is outside the repository: it answers over a channel that  *)
(* keeps the order, produces one response at a time and reports its end.   *)
(***************************************************************************)
EXTENDS Naturals, Sequences, SequencesExt

CONSTANTS
  MaxCalls,      \* bound: tool calls the provider makes
  MaxResponses,  \* bound: responses the provider produces
  MaxSpeeches,   \* bound: times the caller starts to speak
  MaxAudio,      \* bound: audio messages of a response
  MaxEvents      \* bound: events on their way from the provider

ASSUME VoiceAssumption ==
  /\ MaxResponses \in Nat /\ MaxSpeeches \in Nat /\ MaxAudio \in Nat
  /\ MaxCalls \in Nat /\ MaxEvents \in Nat \ {0}

VARIABLES
  up,       \* the provider's WebSocket is open
  live,     \* the response the provider is producing, 0 when none
  made,     \* how many it has begun
  spoke,    \* audio messages of the one it is producing
  heard,    \* how often it has heard the caller start to speak
  asked,    \* the tools it has called
  events,   \* its events, not received yet
  requests, \* what it has not received yet
  input,    \* how far _handle_twilio_messages is
  output,   \* how far _handle_xai_to_twilio is
  main,     \* how far voice_stream is
  active,   \* response_active
  current,  \* current_response_id
  cancelled,  \* cancelled_response_id
  ready,    \* ready_tool_results
  sending,  \* results taken from it that a flush has not sent yet
  closing,  \* close_after_response
  tool,     \* how far the task of each call is
  session,  \* the call has a session in _sessions
  record,   \* its row in voice_conversation_records
  answers,  \* history: results of each call sent to the provider
  open,     \* history: the response begun and not ended, as received
  cut,      \* history: the responses open when the caller spoke
  late,     \* history: those whose audio was played later
  dropped   \* history: those whose audio was not played

provider == <<live, made, spoke, heard, asked>>
flags    == <<active, current, cancelled, closing>>
results  == <<ready, sending, answers>>
audio    == <<open, cut, late, dropped>>
vars == <<up, provider, events, requests, input, output, main, flags, results,
          tool, session, record, audio>>

Calls     == 1 .. MaxCalls
Responses == 1 .. MaxResponses

\* A tool of the persona, one that ends the call (end_conversation), or one of
\* the other voice tools.
Kinds == {"own", "terminal", "other"}

Event(kind, of) == [kind |-> kind, of |-> of]

\* What an event is about: a response, a call or nothing.
EventType == [kind : {"created", "audio", "done"}, of : Responses]
             \union [kind : {"call"}, of : Calls]
             \union [kind : {"speech", "error"}, of : {0}]

TypeOK ==
  /\ up \in BOOLEAN
  /\ live \in Responses \union {0} /\ made \in 0 .. MaxResponses
  /\ spoke \in 0 .. MaxAudio /\ heard \in 0 .. MaxSpeeches
  /\ asked \in Seq(Kinds)
  /\ events \in Seq(EventType)
  /\ requests \in Seq({"create", "cancel", "result"})
  /\ input \in {"waiting", "talking", "over"}
  /\ output \in {"receive", "flush", "end", "gather", "last flush", "over"}
  /\ main \in {"running", "closing", "over"}
  /\ {active, closing, session} \subseteq BOOLEAN
  /\ {current, cancelled, open} \subseteq Responses \union {0}
  /\ ready \in Seq(Calls) /\ sending \in Seq(Calls)
  /\ tool \in [Calls -> {"none", "running", "queued", "sending", "sent",
                         "lost"}]
  /\ record \in {"none", "due", "stored", "failed"}
  /\ answers \in [Calls -> Nat]
  /\ cut \subseteq Responses /\ late \subseteq Responses
  /\ dropped \subseteq Responses

Init ==
  /\ up = TRUE /\ live = 0 /\ made = 0 /\ spoke = 0 /\ heard = 0
  /\ asked = <<>> /\ events = <<>> /\ requests = <<>>
  /\ input = "waiting" /\ output = "receive" /\ main = "running"
  /\ active = FALSE /\ current = 0 /\ cancelled = 0 /\ closing = FALSE
  /\ ready = <<>> /\ sending = <<>>
  /\ tool = [c \in Calls |-> "none"]
  /\ session = FALSE /\ record = "none"
  /\ answers = [c \in Calls |-> 0]
  /\ open = 0 /\ cut = {} /\ late = {} /\ dropped = {}

-----------------------------------------------------------------------------
(* The provider (external). *)

backend == <<input, output, main, flags, results, tool, session, record, audio>>

\* An event is received as long as the task that would runs.
Emits(kind, of) ==
  /\ Len(events) < MaxEvents
  /\ output # "over" /\ events' = Append(events, Event(kind, of))

Begin ==
  /\ live = 0 /\ made < MaxResponses
  /\ live' = made + 1 /\ made' = made + 1 /\ spoke' = 0
  /\ Emits("created", made + 1)
  /\ UNCHANGED <<heard, asked>>

Finish == live # 0 /\ live' = 0 /\ Emits("done", live)

\* A response of its own accord, after the caller spoke.
ProviderBegins ==
  /\ up /\ input # "waiting" /\ Begin
  /\ UNCHANGED <<up, requests, backend>>

ProviderSpeaks ==
  /\ up /\ live # 0 /\ spoke < MaxAudio
  /\ spoke' = spoke + 1 /\ Emits("audio", live)
  /\ UNCHANGED <<up, requests, live, made, heard, asked, backend>>

ProviderCalls == \E kind \in Kinds :
  /\ up /\ live # 0 /\ Len(asked) < MaxCalls
  /\ asked' = Append(asked, kind) /\ Emits("call", Len(asked) + 1)
  /\ UNCHANGED <<up, requests, live, made, spoke, heard, backend>>

ProviderFinishes ==
  /\ up /\ Finish
  /\ UNCHANGED <<up, requests, made, spoke, heard, asked, backend>>

ProviderHears ==
  /\ up /\ input # "waiting" /\ heard < MaxSpeeches
  /\ heard' = heard + 1 /\ Emits("speech", 0)
  /\ UNCHANGED <<up, requests, live, made, spoke, asked, backend>>

\* A request it cannot follow is answered with an error.
ProviderObeys ==
  /\ up /\ requests # <<>> /\ requests' = Tail(requests)
  /\ \/ Head(requests) = "result" /\ UNCHANGED <<provider, events>>
     \/ Head(requests) = "create" /\ Begin
     \/ /\ Head(requests) = "cancel" /\ Finish
        /\ UNCHANGED <<made, spoke, heard, asked>>
     \/ /\ \/ Head(requests) = "create" /\ (live # 0 \/ made = MaxResponses)
           \/ Head(requests) = "cancel" /\ live = 0
        /\ Emits("error", 0) /\ UNCHANGED provider
  /\ UNCHANGED <<up, backend>>

\* What is on its way to it is lost.
ProviderDrops ==
  /\ up /\ up' = FALSE /\ live' = 0 /\ requests' = <<>>
  /\ UNCHANGED <<made, spoke, heard, asked, events, backend>>

Provider ==
  \/ ProviderBegins \/ ProviderSpeaks \/ ProviderCalls \/ ProviderFinishes
  \/ ProviderHears \/ ProviderObeys \/ ProviderDrops

-----------------------------------------------------------------------------
(* _handle_twilio_messages *)

\* "start": the session, its settings and the opening turn.
Start ==
  /\ main = "running" /\ input = "waiting"
  /\ session' = TRUE /\ record' = "due"
  /\ IF up THEN input' = "talking" /\ requests' = Append(requests, "create")
           ELSE input' = "over" /\ UNCHANGED requests
  /\ UNCHANGED <<up, provider, events, output, main, flags, results, tool, audio>>

\* The caller hangs up, no persona is found, or a send fails.
InputEnds ==
  /\ main = "running" /\ input # "over" /\ input' = "over"
  /\ UNCHANGED <<up, provider, events, requests, output, main, flags, results,
                 tool, session, record, audio>>

\* "stop"
Stop ==
  /\ main = "running" /\ input = "talking" /\ input' = "over"
  /\ session' = FALSE
  /\ UNCHANGED <<up, provider, events, requests, output, main, flags, results,
                 tool, record, audio>>

-----------------------------------------------------------------------------
(* _handle_xai_to_twilio *)

caller == <<input, main, session, record>>

\* The next event.
Receives(kind) ==
  /\ output = "receive" /\ events # <<>> /\ Head(events).kind = kind
  /\ events' = Tail(events)
  /\ UNCHANGED <<up, provider, caller>>

Subject == Head(events).of

\* Mutant: only audio tells the current response.
ResponseCreated_KeepsId ==
  /\ Receives("created")
  /\ active' = TRUE /\ open' = Subject
  /\ UNCHANGED <<requests, output, current, cancelled, closing, results, tool,
                 cut, late, dropped>>

ResponseCreated ==
  /\ Receives("created")
  /\ current' = Subject /\ active' = TRUE /\ open' = Subject
  /\ UNCHANGED <<requests, output, cancelled, closing, results, tool, cut, late,
                 dropped>>

\* The response to cancel, if one is in progress.
Interrupted == IF active THEN current ELSE cancelled

\* The caller starts to speak: a send on a closed socket ends the task.
SpeechStarted ==
  /\ Receives("speech")
  /\ cancelled' = Interrupted
  /\ requests' = IF active /\ up THEN Append(requests, "cancel") ELSE requests
  /\ output' = IF active /\ ~ up THEN "over" ELSE "receive"
  /\ cut' = cut \union ({open} \ {0})
  /\ UNCHANGED <<active, current, closing, results, tool, open, late, dropped>>

AudioDelta ==
  /\ Receives("audio")
  /\ current' = Subject
  /\ IF Subject = cancelled
     THEN dropped' = dropped \union {Subject} /\ UNCHANGED late
     ELSE late' = late \union ({Subject} \intersect cut) /\ UNCHANGED dropped
  /\ UNCHANGED <<requests, output, active, cancelled, closing, results, tool,
                 open, cut>>

\* A tool is looked up in the session's registry, or in that of all voice
\* tools when the session is gone.  An unknown one gets no answer.
CallDone ==
  /\ Receives("call")
  /\ closing' = (closing \/ asked[Subject] = "terminal")
  /\ tool' = IF asked[Subject] = "own" \/ (asked[Subject] = "other" /\ ~ session)
             THEN [tool EXCEPT ![Subject] = "running"] ELSE tool
  /\ UNCHANGED <<requests, output, active, current, cancelled, results, audio>>

\* A message to a caller whose socket is closed ends the task.
CallerIsGone ==
  /\ input # "over"
  /\ \E kind \in {"speech", "audio", "call"} : Receives(kind)
  /\ output' = "over"
  /\ UNCHANGED <<requests, flags, results, tool, audio>>

ErrorEvent ==
  /\ Receives("error")
  /\ UNCHANGED <<requests, output, flags, results, tool, audio>>

\* Mutant: the list is copied and not cleared.
TakeReady_Keeps == sending' = ready /\ UNCHANGED ready

\* flush_ready_tool_results takes every result there is.
TakeReady == sending' = ready /\ ready' = <<>>

ResponseDone ==
  /\ Receives("done")
  /\ active' = FALSE /\ open' = 0
  /\ TakeReady /\ output' = "flush"
  /\ UNCHANGED <<requests, current, cancelled, closing, answers, tool, cut, late,
                 dropped>>

\* send_tool_result: the result, and a response to it.
SendResult(c) ==
  /\ requests' = requests \o <<"result", "create">>
  /\ answers' = [answers EXCEPT ![c] = @ + 1]
  /\ tool' = [tool EXCEPT ![c] = "sent"]

Flush ==
  /\ output \in {"flush", "last flush"} /\ sending # <<>>
  /\ \/ /\ up /\ SendResult(Head(sending)) /\ sending' = Tail(sending)
        /\ UNCHANGED output
     \/ /\ ~ up /\ output' = "over"
        /\ UNCHANGED <<requests, answers, tool, sending>>
  /\ UNCHANGED <<up, provider, events, caller, flags, ready, audio>>

\* Mutant: close_after_response is forgotten.
FlushEnds_NeverCloses ==
  /\ output \in {"flush", "last flush"} /\ sending = <<>>
  /\ output' = IF output = "last flush" THEN "over" ELSE "receive"
  /\ UNCHANGED <<up, provider, events, requests, caller, flags, results, tool,
                 audio>>

FlushEnds ==
  /\ output \in {"flush", "last flush"} /\ sending = <<>>
  /\ output' = IF output = "last flush" THEN "over"
               ELSE IF closing THEN "end" ELSE "receive"
  /\ UNCHANGED <<up, provider, events, requests, caller, flags, results, tool,
                 audio>>

\* "end" to the caller, whose socket may be closed already.
EndCall ==
  /\ output = "end" /\ output' \in {"gather", "over"}
  /\ UNCHANGED <<up, provider, events, requests, caller, flags, results, tool,
                 audio>>

\* What was received before the socket closed is handled first.
ReceiveFails ==
  /\ output = "receive" /\ ~ up /\ events = <<>> /\ output' = "gather"
  /\ UNCHANGED <<up, provider, events, requests, caller, flags, results, tool,
                 audio>>

\* The tools are awaited, and their results sent if nothing is spoken.
Gather ==
  /\ output = "gather"
  /\ \A c \in Calls : tool[c] \notin {"running", "sending"}
  /\ IF active THEN output' = "over" /\ UNCHANGED <<ready, sending>>
               ELSE output' = "last flush" /\ TakeReady
  /\ UNCHANGED <<up, provider, events, requests, caller, flags, answers, tool,
                 audio>>

Output ==
  \/ ResponseCreated \/ SpeechStarted \/ AudioDelta \/ CallDone \/ CallerIsGone
  \/ ErrorEvent \/ ResponseDone \/ Flush \/ FlushEnds \/ EndCall
  \/ ReceiveFails \/ Gather

-----------------------------------------------------------------------------
(* run_tool_call *)

\* Mutant: the result is always left to the next flush.
ToolEnds_Queues(c) ==
  /\ tool[c] = "running"
  /\ ready' = Append(ready, c) /\ tool' = [tool EXCEPT ![c] = "queued"]
  /\ UNCHANGED <<up, provider, events, requests, caller, output, flags, sending,
                 answers, audio>>

\* The tool returns or raises: its result waits while a response is active.
ToolEnds(c) ==
  /\ tool[c] = "running"
  /\ IF active
     THEN /\ ready' = Append(ready, c) /\ tool' = [tool EXCEPT ![c] = "queued"]
     ELSE tool' = [tool EXCEPT ![c] = "sending"] /\ UNCHANGED ready
  /\ UNCHANGED <<up, provider, events, requests, caller, output, flags, sending,
                 answers, audio>>

ToolSends(c) ==
  /\ tool[c] = "sending"
  /\ \/ up /\ SendResult(c)
     \/ /\ ~ up /\ tool' = [tool EXCEPT ![c] = "lost"]
        /\ UNCHANGED <<requests, answers>>
  /\ UNCHANGED <<up, provider, events, caller, output, flags, ready, sending,
                 audio>>

-----------------------------------------------------------------------------
(* voice_stream *)

\* The first of the two tasks has ended: the other is cancelled, with the
\* tools it is awaiting, and the provider's socket closed.
CancelOther ==
  /\ main = "running" /\ (input = "over" \/ output = "over")
  /\ main' = "closing" /\ input' = "over" /\ output' = "over"
  /\ up' = FALSE /\ live' = 0 /\ events' = <<>> /\ requests' = <<>>
  /\ tool' = [c \in Calls |->
                IF output = "gather" /\ tool[c] \in {"running", "sending"}
                THEN "lost" ELSE tool[c]]
  /\ UNCHANGED <<made, spoke, heard, asked, flags, results, session, record,
                 audio>>

\* A failed insert is only logged.
Settle ==
  /\ main = "closing" /\ main' = "over"
  /\ session' = FALSE
  /\ \/ record = "due" /\ record' \in {"stored", "failed"}
     \/ record = "none" /\ UNCHANGED record
  /\ UNCHANGED <<up, provider, events, requests, input, output, flags, results,
                 tool, audio>>

Next ==
  \/ Provider \/ Output \/ Start \/ Stop \/ InputEnds
  \/ \E c \in Calls : ToolEnds(c) \/ ToolSends(c)
  \/ CancelOther \/ Settle

Spec == Init /\ [][Next]_vars

\* The event loop runs every task that can go on, a tool ends (each of its
\* remote calls has a timeout), and the provider ends what it began.
Fairness ==
  /\ WF_vars(Output) /\ WF_vars(CancelOther) /\ WF_vars(Settle)
  /\ \A c \in Calls : WF_vars(ToolEnds(c)) /\ WF_vars(ToolSends(c))
  /\ WF_vars(ProviderFinishes)

FairSpec == Spec /\ Fairness

-----------------------------------------------------------------------------
(* Properties *)

(***************************************************************************)
(* A result that waits in ready_tool_results always has a response.done    *)
(* to come that flushes it, and no result is sent twice, whatever order    *)
(* tools end and responses come and go in (routes/voice.py:608).           *)
(***************************************************************************)
QueuedResultsAreReleased ==
  /\ output = "receive" /\ ready # <<>> => active
  /\ output = "receive" /\ active /\ up =>
       live # 0 \/ \E i \in DOMAIN events : events[i].kind = "done"
  /\ \A c \in Calls :
       /\ answers[c] <= 1
       /\ c \in ToSet(ready) \union ToSet(sending) => answers[c] = 0

(***************************************************************************)
(* Once the caller spoke into a response, nothing more of it is played,    *)
(* and nothing of any other response is swallowed - the mistake the        *)
(* comment of routes/voice.py:672 warns of.                                *)
(***************************************************************************)
InterruptionIsExact == late = {} /\ dropped \subseteq cut

(***************************************************************************)
(* Every tool that runs has its result sent, and a call of the terminal    *)
(* tool ends the call, unless the call ends first (routes/voice.py:762).   *)
(***************************************************************************)
CallsAreAnswered ==
  /\ \A c \in Calls : tool[c] = "running" ~> (tool[c] = "sent" \/ main = "over")
  /\ closing ~> main = "over"

-----------------------------------------------------------------------------
(* What makes the safety properties inductive.                             *)

\* What an event makes of the response under way.
Follows(before, event, after) ==
  \/ event.kind = "created" /\ before = 0 /\ after = event.of
  \/ event.kind = "audio" /\ before = event.of /\ after = before
  \/ event.kind = "done" /\ before = event.of /\ after = 0
  \/ event.kind \in {"call", "speech", "error"} /\ after = before

\* under[i] is the response under way before the i-th event on its way, from
\* what the handler knows to what the provider is at.
Tells(under) ==
  /\ under[1] = open
  /\ up => under[Len(events) + 1] = live
  /\ \A i \in DOMAIN events : Follows(under[i], events[i], under[i + 1])
  /\ \A i, j \in DOMAIN under :
       i < j /\ under[i] # 0 /\ under[j] # under[i] =>
         \E k \in i .. j - 1 : events[k].kind = "done"

EventsTellResponses ==
  \E under \in [1 .. Len(events) + 1 -> Responses \union {0}] : Tells(under)

\* A response whose beginning is on its way is one nobody has heard of.
ResponsesAreNew ==
  /\ \A k \in cut \union {open} : k <= made
  /\ \A i \in DOMAIN events : events[i].kind = "created" =>
       /\ events[i].of <= made
       /\ \A k \in cut \union {open} : k < events[i].of
       /\ \A j \in DOMAIN events :
            j < i /\ events[j].kind = "created" => events[j].of < events[i].of

\* The flags of the handler against the history.
FlagsMatchHistory ==
  /\ active <=> open # 0
  /\ active => current = open
  /\ cancelled \in cut \union {0}
  /\ open \in cut => cancelled = open

\* A call on its way has not been handled, nor has one to come.
CallsAreNew ==
  /\ \A i \in DOMAIN events : events[i].kind = "call" =>
       /\ events[i].of <= Len(asked) /\ tool[events[i].of] = "none"
       /\ \A j \in DOMAIN events :
            j < i /\ events[j].kind = "call" => events[j].of < events[i].of
  /\ \A c \in Calls : c > Len(asked) => tool[c] = "none"

\* s holds results that wait, each once.
AreQueued(s) ==
  /\ \A i \in DOMAIN s : tool[s[i]] = "queued"
  /\ \A i, j \in DOMAIN s : s[i] = s[j] => i = j

\* Where the result of each call is.
ResultsArePlaced ==
  /\ ready # <<>> => active
  /\ sending # <<>> => output \in {"flush", "last flush", "over"}
  /\ \A c \in Calls : answers[c] = IF tool[c] = "sent" THEN 1 ELSE 0
  /\ AreQueued(ready) /\ AreQueued(sending)
  /\ \A i \in DOMAIN ready, j \in DOMAIN sending : ready[i] # sending[j]

Inv ==
  /\ TypeOK
  /\ InterruptionIsExact
  /\ EventsTellResponses
  /\ ResponsesAreNew
  /\ FlagsMatchHistory
  /\ CallsAreNew
  /\ ResultsArePlaced
=============================================================================
