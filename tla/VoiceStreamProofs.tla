-------------------------- MODULE VoiceStreamProofs --------------------------
(***************************************************************************)
(* Proofs about VoiceStream for any number of calls, responses, barge-ins  *)
(* and events on their way.                                                *)
(*                                                                         *)
(* The handler of the provider's events is always behind the provider.     *)
(* What ties the two is the queue between them: read in order, its events  *)
(* take the response the handler knows of to the one the provider is       *)
(* producing (EventsTellResponses), and every response or call they        *)
(* announce is one nobody has heard of (ResponsesAreNew, CallsAreNew).  So *)
(* audio is always of the response under way, and what the caller spoke    *)
(* into and what cancelled_response_id holds cannot part.                  *)
(***************************************************************************)
EXTENDS VoiceStream, SequenceTheorems, TLAPS

-----------------------------------------------------------------------------
(* The queue of events                                                     *)

\* Responses and calls are numbered.
LEMMA Numbers == Responses \subseteq Nat \ {0} /\ Calls \subseteq Nat \ {0}
BY VoiceAssumption DEF Responses, Calls

\* What an event is about, by its kind.
LEMMA EventSubjects ==
  ASSUME NEW e \in EventType
  PROVE  /\ e.kind \in {"created", "audio", "done", "call", "speech", "error"}
         /\ e.kind \in {"created", "audio", "done"} => e.of \in Responses
         /\ e.kind = "call" => e.of \in Calls
         /\ e.of \in Nat
<1>1. CASE e \in [kind : {"created", "audio", "done"}, of : Responses]
  BY <1>1, Numbers
<1>2. CASE e \in [kind : {"call"}, of : Calls]
  BY <1>2, Numbers
<1>3. CASE e \in [kind : {"speech", "error"}, of : {0}]
  BY <1>3
<1>. QED BY <1>1, <1>2, <1>3 DEF EventType

\* The numbers of the state.
LEMMA StateNumbers ==
  ASSUME TypeOK
  PROVE  /\ made \in Nat /\ cut \subseteq Nat \ {0} /\ open \in Nat
         /\ Len(asked) \in Nat
<1>1. asked \in Seq(Kinds) /\ made \in 0 .. MaxResponses /\ cut \subseteq Responses
  BY DEF TypeOK
<1>2. open \in Responses \union {0}
  BY DEF TypeOK
<1>. QED BY <1>1, <1>2, Numbers, LenProperties

\* An event determines the response under way after it.
LEMMA FollowsIsDeterministic ==
  ASSUME NEW e, NEW a, NEW b, NEW c, Follows(a, e, b), Follows(a, e, c)
  PROVE  b = c
BY DEF Follows

\* An event the provider adds is told from where the provider was.
LEMMA EmitTells ==
  ASSUME TypeOK, EventsTellResponses, NEW e \in EventType, up, up',
         events' = Append(events, e), UNCHANGED open,
         live' \in Responses \union {0}, Follows(live, e, live')
  PROVE  EventsTellResponses'
<1>. DEFINE n == Len(events)
<1>1. /\ events \in Seq(EventType) /\ n \in Nat /\ DOMAIN events = 1 .. n
      /\ Len(events') = n + 1 /\ DOMAIN events' = 1 .. n + 1
      /\ \A i \in 1 .. n : events'[i] = events[i]
      /\ events'[n + 1] = e
  <2>1. events \in Seq(EventType)
    BY DEF TypeOK
  <2>2. /\ Append(events, e) \in Seq(EventType)
        /\ Len(Append(events, e)) = Len(events) + 1
        /\ \A i \in 1 .. Len(events) : Append(events, e)[i] = events[i]
        /\ Append(events, e)[Len(events) + 1] = e
    BY <2>1, AppendProperties
  <2>. QED BY <2>1, <2>2, LenProperties
<1>2. PICK under \in [1 .. n + 1 -> Responses \union {0}] : Tells(under)
  BY DEF EventsTellResponses
<1>. DEFINE v == [i \in 1 .. n + 2 |-> IF i = n + 2 THEN live' ELSE under[i]]
<1>3. /\ v \in [1 .. Len(events') + 1 -> Responses \union {0}]
      /\ DOMAIN v = 1 .. n + 2 /\ v[n + 2] = live'
      /\ \A i \in 1 .. n + 1 : v[i] = under[i]
  BY <1>1
<1>. HIDE DEF v, n
<1>4. v[1] = open' /\ v[Len(events') + 1] = live'
  BY <1>1, <1>2, <1>3 DEF Tells
<1>5. ASSUME NEW i \in DOMAIN events'
      PROVE  Follows(v[i], events'[i], v[i + 1])
  <2>1. CASE i = n + 1
    BY <2>1, <1>1, <1>2, <1>3 DEF Tells, n
  <2>2. CASE i # n + 1
    BY <2>2, <1>1, <1>2, <1>3 DEF Tells
  <2>. QED BY <2>1, <2>2
<1>6. ASSUME NEW i \in DOMAIN v, NEW j \in DOMAIN v,
             i < j, v[i] # 0, v[j] # v[i]
      PROVE  \E k \in i .. j - 1 : events'[k].kind = "done"
  <2>1. CASE j \in 1 .. n + 1
    <3>1. PICK k \in i .. j - 1 : events[k].kind = "done"
      BY <2>1, <1>1, <1>2, <1>3, <1>6 DEF Tells
    <3>. QED BY <3>1, <2>1, <1>1, <1>3
  <2>2. CASE j = n + 2 /\ v[n + 1] # v[i]
    <3>1. n + 1 \in DOMAIN under /\ i \in DOMAIN under /\ i < n + 1
      BY <2>2, <1>1, <1>2, <1>3, <1>6
    <3>2. PICK k \in i .. n : events[k].kind = "done"
      BY <3>1, <2>2, <1>1, <1>2, <1>3, <1>6 DEF Tells
    <3>. QED BY <3>1, <3>2, <2>2, <1>1, <1>3
  <2>3. CASE j = n + 2 /\ v[n + 1] = v[i]
    <3>1. Follows(v[n + 1], e, v[n + 2])
      BY <1>5, <1>1
    <3>2. e.kind = "done"
      BY <3>1, <2>3, <1>6 DEF Follows
    <3>. QED BY <3>2, <2>3, <1>1, <1>3, <1>6
  <2>. QED BY <2>1, <2>2, <2>3, <1>3, <1>1
<1>. QED
  BY <1>3, <1>4, <1>5, <1>6 DEF EventsTellResponses, Tells

\* The handler can receive the next event where it is, and the rest is told
\* from where that takes it.
LEMMA HeadFollows ==
  ASSUME TypeOK, EventsTellResponses, events # <<>>
  PROVE  \E after \in Responses \union {0} : Follows(open, Head(events), after)
<1>1. 1 \in DOMAIN events /\ Head(events) = events[1] /\ Len(events) \in Nat \ {0}
  <2>1. events \in Seq(EventType)
    BY DEF TypeOK
  <2>. QED BY <2>1, EmptySeq, LenProperties
<1>2. PICK under \in [1 .. Len(events) + 1 -> Responses \union {0}] : Tells(under)
  BY DEF EventsTellResponses
<1>3. under[1] = open /\ under[2] \in Responses \union {0}
  BY <1>1, <1>2 DEF Tells
<1>4. Follows(under[1], events[1], under[1 + 1])
  BY <1>1, <1>2 DEF Tells
<1>. QED BY <1>1, <1>3, <1>4

LEMMA ReceiveTells ==
  ASSUME TypeOK, EventsTellResponses, events # <<>>, events' = Tail(events),
         UNCHANGED <<up, live>>, Follows(open, Head(events), open')
  PROVE  EventsTellResponses'
<1>. DEFINE n == Len(events)
<1>1. /\ n \in Nat \ {0} /\ DOMAIN events = 1 .. n /\ Head(events) = events[1]
      /\ Len(events') = n - 1 /\ DOMAIN events' = 1 .. n - 1
      /\ \A i \in 1 .. n - 1 : events'[i] = events[i + 1]
  <2>1. events \in Seq(EventType)
    BY DEF TypeOK
  <2>2. /\ Tail(events) \in Seq(EventType)
        /\ Len(Tail(events)) = Len(events) - 1
        /\ \A i \in 1 .. Len(Tail(events)) : Tail(events)[i] = events[i + 1]
    BY <2>1, HeadTailProperties
  <2>. QED BY <2>1, <2>2, EmptySeq, LenProperties
<1>2. PICK under \in [1 .. n + 1 -> Responses \union {0}] : Tells(under)
  BY DEF EventsTellResponses
<1>. DEFINE v == [i \in 1 .. n |-> under[i + 1]]
<1>3. /\ v \in [1 .. Len(events') + 1 -> Responses \union {0}]
      /\ DOMAIN v = 1 .. n /\ \A i \in 1 .. n : v[i] = under[i + 1]
  BY <1>1
<1>. HIDE DEF v, n
<1>4. v[1] = open'
  <2>1. Follows(under[1], events[1], under[1 + 1]) /\ under[1] = open
    BY <1>1, <1>2 DEF Tells
  <2>2. under[1 + 1] = open'
    BY <2>1, <1>1, FollowsIsDeterministic
  <2>. QED BY <2>2, <1>1, <1>3
<1>5. up' => v[Len(events') + 1] = live'
  BY <1>1, <1>2, <1>3 DEF Tells, n
<1>6. ASSUME NEW i \in DOMAIN events'
      PROVE  Follows(v[i], events'[i], v[i + 1])
  <2>1. i + 1 \in DOMAIN events /\ i \in 1 .. n /\ i + 1 \in 1 .. n
    BY <1>1
  <2>2. Follows(under[i + 1], events[i + 1], under[(i + 1) + 1])
    BY <2>1, <1>2 DEF Tells
  <2>. QED BY <2>1, <2>2, <1>1, <1>3
<1>7. ASSUME NEW i \in DOMAIN v, NEW j \in DOMAIN v,
             i < j, v[i] # 0, v[j] # v[i]
      PROVE  \E k \in i .. j - 1 : events'[k].kind = "done"
  <2>0. /\ i + 1 \in DOMAIN under /\ j + 1 \in DOMAIN under /\ i + 1 < j + 1
        /\ under[i + 1] # 0 /\ under[j + 1] # under[i + 1]
    BY <1>1, <1>2, <1>3, <1>7
  <2>1. PICK k \in i + 1 .. (j + 1) - 1 : events[k].kind = "done"
    BY <2>0, <1>2 DEF Tells
  <2>2. k - 1 \in i .. j - 1 /\ k - 1 \in 1 .. n - 1
    BY <1>1, <1>3, <1>7
  <2>3. events'[k - 1] = events[k]
    BY <2>2, <1>1, <1>3, <1>7
  <2>. QED BY <2>1, <2>2, <2>3
<1>. QED
  BY <1>3, <1>4, <1>5, <1>6, <1>7 DEF EventsTellResponses, Tells

\* A response the handler knows of has not ended without an event that says so.
LEMMA EndIsTold ==
  ASSUME TypeOK, EventsTellResponses, open # 0, up, live = 0
  PROVE  \E i \in DOMAIN events : events[i].kind = "done"
<1>1. Len(events) \in Nat /\ DOMAIN events = 1 .. Len(events)
  <2>1. events \in Seq(EventType)
    BY DEF TypeOK
  <2>. QED BY <2>1, LenProperties
<1>2. PICK under \in [1 .. Len(events) + 1 -> Responses \union {0}] : Tells(under)
  BY DEF EventsTellResponses
<1>3. under[1] = open /\ under[Len(events) + 1] = live
  BY <1>2 DEF Tells
<1>4. PICK k \in 1 .. (Len(events) + 1) - 1 : events[k].kind = "done"
  BY <1>1, <1>2, <1>3 DEF Tells
<1>. QED BY <1>1, <1>4

\* What the provider adds is newer than all there is.
LEMMA EmitIsNew ==
  ASSUME TypeOK, ResponsesAreNew, CallsAreNew, NEW e \in EventType,
         events' = Append(events, e), UNCHANGED <<cut, open, tool>>,
         e.kind = "created" => e.of = made + 1 /\ made' = made + 1,
         e.kind # "created" => UNCHANGED made,
         e.kind = "call" => e.of = Len(asked) + 1 /\ Len(asked') = Len(asked) + 1,
         e.kind # "call" => UNCHANGED asked
  PROVE  ResponsesAreNew' /\ CallsAreNew'
<1>. DEFINE n == Len(events)
<1>1. /\ n \in Nat /\ DOMAIN events = 1 .. n
      /\ DOMAIN events' = 1 .. n + 1
      /\ \A i \in 1 .. n : events'[i] = events[i]
      /\ events'[n + 1] = e
  <2>1. events \in Seq(EventType)
    BY DEF TypeOK
  <2>2. /\ Append(events, e) \in Seq(EventType)
        /\ Len(Append(events, e)) = Len(events) + 1
        /\ \A i \in 1 .. Len(events) : Append(events, e)[i] = events[i]
        /\ Append(events, e)[Len(events) + 1] = e
    BY <2>1, AppendProperties
  <2>. QED BY <2>1, <2>2, LenProperties
<1>2. \A i \in 1 .. n : events[i] \in EventType
  <2>1. events \in Seq(EventType)
    BY DEF TypeOK
  <2>. QED BY <2>1, ElementOfSeq
<1>. HIDE DEF n
<1>3. /\ made \in Nat /\ cut \subseteq Nat /\ open \in Nat
      /\ Len(asked) \in Nat /\ Calls \subseteq Nat
      /\ \A d \in EventType : d.of \in Nat /\ (d.kind = "call" => d.of \in Calls)
  BY Numbers, StateNumbers, EventSubjects
<1>4. ResponsesAreNew'
  <2>1. \A k \in cut' \union {open'} : k <= made'
    BY <1>3 DEF ResponsesAreNew
  <2>2. ASSUME NEW i \in DOMAIN events', events'[i].kind = "created"
        PROVE  /\ events'[i].of <= made'
               /\ \A k \in cut' \union {open'} : k < events'[i].of
               /\ \A j \in DOMAIN events' :
                    j < i /\ events'[j].kind = "created"
                      => events'[j].of < events'[i].of
    <3>1. CASE i = n + 1
      BY <2>2, <3>1, <1>1, <1>2, <1>3 DEF ResponsesAreNew
    <3>2. CASE i \in 1 .. n
      BY <2>2, <3>2, <1>1, <1>2, <1>3 DEF ResponsesAreNew
    <3>. QED BY <3>1, <3>2, <1>1
  <2>. QED BY <2>1, <2>2 DEF ResponsesAreNew
<1>5. CallsAreNew'
  <2>1. ASSUME NEW i \in DOMAIN events', events'[i].kind = "call"
        PROVE  /\ events'[i].of <= Len(asked') /\ tool'[events'[i].of] = "none"
               /\ \A j \in DOMAIN events' :
                    j < i /\ events'[j].kind = "call"
                      => events'[j].of < events'[i].of
    <3>1. CASE i = n + 1
      BY <2>1, <3>1, <1>1, <1>2, <1>3 DEF CallsAreNew
    <3>2. CASE i \in 1 .. n
      BY <2>1, <3>2, <1>1, <1>2, <1>3 DEF CallsAreNew
    <3>. QED BY <3>1, <3>2, <1>1
  <2>2. \A c \in Calls : c > Len(asked') => tool'[c] = "none"
    <3>1. Len(asked) <= Len(asked')
      BY <1>3
    <3>2. Len(asked') \in Nat
      BY <1>3
    <3>3. SUFFICES ASSUME NEW c \in Calls, c > Len(asked')
                   PROVE  tool'[c] = "none"
      OBVIOUS
    <3>4. c > Len(asked)
      BY <1>3, <3>1, <3>2, <3>3
    <3>5. tool[c] = "none"
      BY <3>4 DEF CallsAreNew
    <3>. QED BY <3>5
  <2>. QED BY <2>1, <2>2 DEF CallsAreNew
<1>. QED BY <1>4, <1>5

\* The events that stay behind a received one are still new, if what is known
\* grows by no more than what the received one says.
LEMMA ReceiveIsNew ==
  ASSUME TypeOK, ResponsesAreNew, CallsAreNew, events # <<>>,
         events' = Tail(events), UNCHANGED <<made, asked>>,
         \A k \in cut' \union {open'} :
           \/ k \in cut \union {open, 0}
           \/ Head(events).kind = "created" /\ k = Head(events).of,
         \A c \in Calls : tool'[c] # tool[c] =>
           Head(events).kind = "call" /\ c = Head(events).of
  PROVE  ResponsesAreNew' /\ CallsAreNew'
<1>. DEFINE n == Len(events)
<1>0. events \in Seq(EventType)
  BY DEF TypeOK
<1>1. /\ n \in Nat \ {0} /\ DOMAIN events = 1 .. n /\ Head(events) = events[1]
      /\ DOMAIN events' = 1 .. n - 1
      /\ \A i \in 1 .. n - 1 : events'[i] = events[i + 1]
  <2>1. /\ Tail(events) \in Seq(EventType)
        /\ Len(Tail(events)) = Len(events) - 1
        /\ \A i \in 1 .. Len(Tail(events)) : Tail(events)[i] = events[i + 1]
    BY <1>0, HeadTailProperties
  <2>. QED BY <1>0, <2>1, EmptySeq, LenProperties
<1>2. /\ \A i \in 1 .. n : events[i] \in EventType
      /\ \A d \in EventType :
           /\ d.of \in Nat
           /\ d.kind = "call" => d.of \in Calls
           /\ d.kind = "created" => d.of \in Nat \ {0}
      /\ Calls \subseteq Nat /\ made \in Nat /\ cut \subseteq Nat /\ open \in Nat
      /\ Len(asked) \in Nat
  <2>1. \A i \in 1 .. n : events[i] \in EventType
    BY <1>0, ElementOfSeq
  <2>. QED BY <2>1, Numbers, StateNumbers, EventSubjects
<1>. HIDE DEF n
<1>3. ResponsesAreNew'
  <2>1. \A k \in cut' \union {open'} : k <= made'
    <3>1. Head(events).kind = "created" => Head(events).of <= made
      BY <1>1 DEF ResponsesAreNew
    <3>2. \A k \in cut \union {open, 0} : k <= made
      BY <1>2 DEF ResponsesAreNew
    <3>. QED BY <3>1, <3>2
  <2>2. ASSUME NEW i \in DOMAIN events', events'[i].kind = "created"
        PROVE  /\ events'[i].of <= made'
               /\ \A k \in cut' \union {open'} : k < events'[i].of
               /\ \A j \in DOMAIN events' :
                    j < i /\ events'[j].kind = "created"
                      => events'[j].of < events'[i].of
    <3>1. /\ i + 1 \in DOMAIN events /\ 1 \in DOMAIN events /\ 1 < i + 1
          /\ events'[i] = events[i + 1] /\ events[i + 1].kind = "created"
      BY <2>2, <1>1
    <3>2. /\ events[i + 1].of <= made
          /\ \A k \in cut \union {open, 0} : k < events[i + 1].of
          /\ \A j \in DOMAIN events : j < i + 1 /\ events[j].kind = "created"
               => events[j].of < events[i + 1].of
      BY <3>1, <1>1, <1>2 DEF ResponsesAreNew
    <3>3. ASSUME NEW j \in DOMAIN events', j < i, events'[j].kind = "created"
          PROVE  events'[j].of < events'[i].of
      <4>1. j + 1 \in DOMAIN events /\ j + 1 < i + 1 /\ events'[j] = events[j + 1]
        BY <3>3, <2>2, <1>1
      <4>. QED BY <4>1, <3>1, <3>2, <3>3
    <3>. QED BY <3>1, <3>2, <3>3, <1>1
  <2>. QED BY <2>1, <2>2 DEF ResponsesAreNew
<1>4. CallsAreNew'
  <2>1. ASSUME NEW i \in DOMAIN events', events'[i].kind = "call"
        PROVE  /\ events'[i].of <= Len(asked') /\ tool'[events'[i].of] = "none"
               /\ \A j \in DOMAIN events' :
                    j < i /\ events'[j].kind = "call"
                      => events'[j].of < events'[i].of
    <3>1. /\ i + 1 \in DOMAIN events /\ 1 \in DOMAIN events /\ 1 < i + 1
          /\ events'[i] = events[i + 1] /\ events[i + 1].kind = "call"
          /\ events[i + 1].of \in Calls
      BY <2>1, <1>1, <1>2
    <3>2. /\ events[i + 1].of <= Len(asked) /\ tool[events[i + 1].of] = "none"
          /\ \A j \in DOMAIN events : j < i + 1 /\ events[j].kind = "call"
               => events[j].of < events[i + 1].of
      BY <3>1, <1>1, <1>2 DEF CallsAreNew
    <3>3. tool'[events[i + 1].of] = "none"
      BY <3>1, <3>2, <1>1, <1>2
    <3>4. ASSUME NEW j \in DOMAIN events', j < i, events'[j].kind = "call"
          PROVE  events'[j].of < events'[i].of
      <4>1. j + 1 \in DOMAIN events /\ j + 1 < i + 1 /\ events'[j] = events[j + 1]
        BY <3>4, <2>1, <1>1
      <4>. QED BY <4>1, <3>1, <3>2, <3>4
    <3>. QED BY <3>1, <3>2, <3>3, <3>4
  <2>2. \A c \in Calls : c > Len(asked') => tool'[c] = "none"
    <3>1. Head(events).kind = "call" => Head(events).of <= Len(asked)
      BY <1>1 DEF CallsAreNew
    <3>. QED BY <3>1, <1>2 DEF CallsAreNew
  <2>. QED BY <2>1, <2>2 DEF CallsAreNew
<1>. QED BY <1>3, <1>4

\* What the queue tells stays so while neither end of it moves.
LEMMA QueueFrame ==
  ASSUME TypeOK, EventsTellResponses, ResponsesAreNew, CallsAreNew,
         UNCHANGED <<up, live, made, asked, events, open, cut>>,
         \A c \in Calls : tool[c] = "none" => tool'[c] = "none"
  PROVE  EventsTellResponses' /\ ResponsesAreNew' /\ CallsAreNew'
<1>1. EventsTellResponses'
  BY DEF EventsTellResponses, Tells
<1>2. ResponsesAreNew'
  BY DEF ResponsesAreNew
<1>3. CallsAreNew'
  <2>1. \A i \in DOMAIN events : events[i].kind = "call" => events[i].of \in Calls
    <3>1. events \in Seq(EventType)
      BY DEF TypeOK
    <3>. QED BY <3>1, ElementOfSeq, LenProperties, EventSubjects
  <2>. QED BY <2>1 DEF CallsAreNew
<1>. QED BY <1>1, <1>2, <1>3

\* Results and flags stay as they are while the handler does not move.
LEMMA HandlerFrame ==
  ASSUME Inv, UNCHANGED <<output, flags, results, tool, audio>>
  PROVE  FlagsMatchHistory' /\ ResultsArePlaced' /\ InterruptionIsExact'
BY DEF Inv, flags, results, audio, FlagsMatchHistory, ResultsArePlaced,
       AreQueued, InterruptionIsExact

-----------------------------------------------------------------------------
(* The provider                                                            *)

\* One event more, as EmitTells and EmitIsNew want it.
Emission ==
  /\ up /\ up' /\ live' \in Responses \union {0}
  /\ \E e \in EventType :
       /\ events' = Append(events, e) /\ Follows(live, e, live')
       /\ e.kind = "created" => e.of = made + 1 /\ made' = made + 1
       /\ e.kind # "created" => UNCHANGED made
       /\ e.kind = "call" => e.of = Len(asked) + 1 /\ Len(asked') = Len(asked) + 1
       /\ e.kind # "call" => UNCHANGED asked

LEMMA BeginEmits ==
  ASSUME TypeOK, up, up', Begin
  PROVE  /\ Emission /\ events' \in Seq(EventType)
         /\ made' \in 0 .. MaxResponses /\ spoke' \in 0 .. MaxAudio
<1>1. made + 1 \in Responses /\ made \in Nat
  <2>1. made \in 0 .. MaxResponses /\ made < MaxResponses
    BY DEF TypeOK, Begin
  <2>. QED BY <2>1, VoiceAssumption DEF Responses
<1>. DEFINE e == Event("created", made + 1)
<1>2. e \in EventType /\ e.kind = "created" /\ e.of = made + 1
  BY <1>1 DEF Event, EventType
<1>3. events' = Append(events, e) /\ live' = made + 1 /\ made' = made + 1
      /\ live = 0 /\ spoke' = 0 /\ UNCHANGED asked
  BY DEF Begin, Emits
<1>4. Follows(live, e, live')
  BY <1>2, <1>3 DEF Follows
<1>. HIDE DEF e
<1>5. Emission
  BY <1>1, <1>2, <1>3, <1>4 DEF Emission
<1>6. events' \in Seq(EventType)
  BY <1>2, <1>3, AppendProperties DEF TypeOK
<1>7. made' \in 0 .. MaxResponses /\ spoke' \in 0 .. MaxAudio
  BY <1>1, <1>3, VoiceAssumption DEF Responses
<1>. QED BY <1>3, <1>5, <1>6, <1>7

LEMMA FinishEmits ==
  ASSUME TypeOK, up, up', Finish, UNCHANGED <<made, asked>>
  PROVE  Emission /\ events' \in Seq(EventType)
<1>. DEFINE e == Event("done", live)
<1>1. live \in Responses /\ live # 0
  BY DEF TypeOK, Finish
<1>2. e \in EventType /\ e.kind = "done" /\ e.of = live
  BY <1>1 DEF Event, EventType
<1>3. events' = Append(events, e) /\ live' = 0
  BY DEF Finish, Emits
<1>4. Follows(live, e, live')
  BY <1>2, <1>3 DEF Follows
<1>. HIDE DEF e
<1>5. Emission
  BY <1>2, <1>3, <1>4 DEF Emission
<1>6. events' \in Seq(EventType)
  BY <1>2, <1>3, AppendProperties DEF TypeOK
<1>. QED BY <1>5, <1>6

\* An event of the third sort: about no change of response.
LEMMA RemarkEmits ==
  ASSUME TypeOK, up, up', UNCHANGED <<live, made>>,
         NEW kind \in {"audio", "call", "speech", "error"}, NEW of, Emits(kind, of),
         kind = "audio" => live # 0 /\ of = live,
         kind = "call" => of = Len(asked) + 1 /\ of \in Calls
                          /\ Len(asked') = Len(asked) + 1,
         kind # "call" => UNCHANGED asked,
         kind \in {"speech", "error"} => of = 0
  PROVE  Emission /\ events' \in Seq(EventType)
<1>. DEFINE e == Event(kind, of)
<1>1. live \in Responses \union {0}
  BY DEF TypeOK
<1>2. e \in EventType /\ e.kind = kind /\ e.of = of
  BY <1>1 DEF Event, EventType
<1>3. events' = Append(events, e)
  BY DEF Emits
<1>4. Follows(live, e, live')
  BY <1>2 DEF Follows
<1>. HIDE DEF e
<1>5. Emission
  BY <1>1, <1>2, <1>3, <1>4 DEF Emission
<1>6. events' \in Seq(EventType)
  BY <1>2, <1>3, AppendProperties DEF TypeOK
<1>. QED BY <1>5, <1>6

\* An emission keeps what the queue tells.
LEMMA EmissionPreservesInv ==
  ASSUME Inv, Emission, UNCHANGED backend
  PROVE  /\ EventsTellResponses' /\ ResponsesAreNew' /\ CallsAreNew'
         /\ FlagsMatchHistory' /\ ResultsArePlaced' /\ InterruptionIsExact'
<1>1. UNCHANGED <<output, flags, results, tool, audio>> /\ UNCHANGED <<cut, open, tool>>
  BY DEF backend, audio
<1>2. TypeOK /\ EventsTellResponses /\ ResponsesAreNew /\ CallsAreNew
  BY DEF Inv
<1>3. EventsTellResponses'
  BY <1>1, <1>2, EmitTells DEF Emission
<1>4. ResponsesAreNew' /\ CallsAreNew'
  BY <1>1, <1>2, EmitIsNew DEF Emission
<1>. QED BY <1>1, <1>3, <1>4, HandlerFrame

\* Types while the handlers do not move.
LEMMA ProviderTypes ==
  ASSUME TypeOK, UNCHANGED backend,
         up' \in BOOLEAN, live' \in Responses \union {0},
         made' \in 0 .. MaxResponses, spoke' \in 0 .. MaxAudio,
         heard' \in 0 .. MaxSpeeches, asked' \in Seq(Kinds),
         events' \in Seq(EventType),
         requests' \in Seq({"create", "cancel", "result"})
  PROVE  TypeOK'
BY DEF TypeOK, backend, flags, results, audio

LEMMA ProviderPreservesInv ==
  ASSUME Inv, Provider
  PROVE  Inv'
<1>. USE DEF Inv
<1>1. CASE ProviderBegins
  <2>1. up /\ up' /\ Begin /\ UNCHANGED <<requests, backend, heard, asked>>
    BY <1>1 DEF ProviderBegins, Begin
  <2>2. /\ Emission /\ events' \in Seq(EventType)
        /\ made' \in 0 .. MaxResponses /\ spoke' \in 0 .. MaxAudio
    BY <2>1, BeginEmits
  <2>3. TypeOK'
    BY <2>1, <2>2, ProviderTypes DEF TypeOK, Emission
  <2>. QED BY <2>1, <2>2, <2>3, EmissionPreservesInv
<1>2. CASE ProviderSpeaks
  <2>1. /\ up /\ up' /\ live # 0 /\ Emits("audio", live) /\ spoke' = spoke + 1
        /\ spoke < MaxAudio /\ UNCHANGED <<requests, live, made, heard, asked, backend>>
    BY <1>2 DEF ProviderSpeaks
  <2>2. Emission /\ events' \in Seq(EventType)
    BY <2>1, RemarkEmits
  <2>3. spoke' \in 0 .. MaxAudio
    <3>1. spoke \in 0 .. MaxAudio
      BY DEF TypeOK
    <3>. QED BY <2>1, <3>1, VoiceAssumption
  <2>4. TypeOK'
    BY <2>1, <2>2, <2>3, ProviderTypes DEF TypeOK
  <2>. QED BY <2>1, <2>2, <2>4, EmissionPreservesInv
<1>3. CASE ProviderCalls
  <2>1. PICK kind \in Kinds :
        /\ up /\ up' /\ Len(asked) < MaxCalls
        /\ asked' = Append(asked, kind) /\ Emits("call", Len(asked) + 1)
        /\ UNCHANGED <<requests, live, made, spoke, heard, backend>>
    BY <1>3 DEF ProviderCalls
  <2>2. /\ asked' \in Seq(Kinds) /\ Len(asked') = Len(asked) + 1
        /\ Len(asked) \in Nat
    BY <2>1, AppendProperties, LenProperties DEF TypeOK
  <2>3. Len(asked) + 1 \in Calls
    BY <2>1, <2>2, VoiceAssumption DEF Calls
  <2>4. Emission /\ events' \in Seq(EventType)
    BY <2>1, <2>2, <2>3, RemarkEmits
  <2>5. TypeOK'
    BY <2>1, <2>2, <2>4, ProviderTypes DEF TypeOK
  <2>. QED BY <2>1, <2>4, <2>5, EmissionPreservesInv
<1>4. CASE ProviderFinishes
  <2>1. up /\ up' /\ Finish /\ UNCHANGED <<requests, made, spoke, heard, asked, backend>>
    BY <1>4 DEF ProviderFinishes
  <2>2. Emission /\ events' \in Seq(EventType)
    BY <2>1, FinishEmits
  <2>3. TypeOK'
    BY <2>1, <2>2, ProviderTypes DEF TypeOK, Emission
  <2>. QED BY <2>1, <2>2, <2>3, EmissionPreservesInv
<1>5. CASE ProviderHears
  <2>1. /\ up /\ up' /\ Emits("speech", 0) /\ heard < MaxSpeeches /\ heard' = heard + 1
        /\ UNCHANGED <<requests, live, made, spoke, asked, backend>>
    BY <1>5 DEF ProviderHears
  <2>2. Emission /\ events' \in Seq(EventType)
    BY <2>1, RemarkEmits
  <2>3. heard' \in 0 .. MaxSpeeches
    <3>1. heard \in 0 .. MaxSpeeches
      BY DEF TypeOK
    <3>. QED BY <2>1, <3>1, VoiceAssumption
  <2>4. TypeOK'
    BY <2>1, <2>2, <2>3, ProviderTypes DEF TypeOK
  <2>. QED BY <2>1, <2>2, <2>4, EmissionPreservesInv
<1>6. CASE ProviderObeys
  <2>1. up /\ up' /\ UNCHANGED backend
    BY <1>6 DEF ProviderObeys
  <2>2. requests' \in Seq({"create", "cancel", "result"})
    BY <1>6, HeadTailProperties DEF ProviderObeys, TypeOK
  <2>3. CASE UNCHANGED <<provider, events>>
    <3>1. UNCHANGED <<up, live, made, spoke, heard, asked, events, open, cut, tool>>
      BY <2>1, <2>3 DEF provider, backend, audio
    <3>2. TypeOK'
      BY <2>1, <2>2, <3>1, ProviderTypes DEF TypeOK
    <3>3. EventsTellResponses' /\ ResponsesAreNew' /\ CallsAreNew'
      BY <3>1, QueueFrame
    <3>. QED BY <2>1, <3>2, <3>3, HandlerFrame DEF backend
  <2>4. CASE Begin
    <3>1. /\ Emission /\ events' \in Seq(EventType)
          /\ made' \in 0 .. MaxResponses /\ spoke' \in 0 .. MaxAudio
      BY <2>1, <2>4, BeginEmits
    <3>2. UNCHANGED <<heard, asked>>
      BY <2>4 DEF Begin
    <3>3. TypeOK'
      BY <2>1, <2>2, <3>1, <3>2, ProviderTypes DEF TypeOK, Emission
    <3>. QED BY <2>1, <3>1, <3>3, EmissionPreservesInv
  <2>5. CASE Finish /\ UNCHANGED <<made, spoke, heard>> /\ UNCHANGED asked
    <3>1. Emission /\ events' \in Seq(EventType)
      BY <2>1, <2>5, FinishEmits
    <3>2. TypeOK'
      BY <2>1, <2>2, <2>5, <3>1, ProviderTypes DEF TypeOK, Emission
    <3>. QED BY <2>1, <3>1, <3>2, EmissionPreservesInv
  <2>6. CASE Emits("error", 0) /\ UNCHANGED provider
    <3>1. UNCHANGED <<live, made, spoke, heard, asked>>
      BY <2>6 DEF provider
    <3>2. Emission /\ events' \in Seq(EventType)
      BY <2>1, <2>6, <3>1, RemarkEmits
    <3>3. TypeOK'
      BY <2>1, <2>2, <3>1, <3>2, ProviderTypes DEF TypeOK
    <3>. QED BY <2>1, <3>2, <3>3, EmissionPreservesInv
  <2>. QED BY <1>6, <2>3, <2>4, <2>5, <2>6 DEF ProviderObeys
<1>7. CASE ProviderDrops
  <2>1. /\ ~ up' /\ up' \in BOOLEAN /\ live' = 0 /\ requests' = <<>>
        /\ UNCHANGED <<made, spoke, heard, asked, events, backend>>
    BY <1>7 DEF ProviderDrops
  <2>2. UNCHANGED <<open, cut, tool>> /\ UNCHANGED <<output, flags, results, tool, audio>>
    BY <2>1 DEF backend, audio
  <2>3. TypeOK'
    BY <2>1, EmptySeq, ProviderTypes DEF TypeOK
  <2>4. EventsTellResponses'
    BY <2>1, <2>2 DEF EventsTellResponses, Tells
  <2>5. ResponsesAreNew' /\ CallsAreNew'
    BY <2>1, <2>2 DEF ResponsesAreNew, CallsAreNew
  <2>. QED BY <2>2, <2>3, <2>4, <2>5, HandlerFrame
<1>. QED BY <1>1, <1>2, <1>3, <1>4, <1>5, <1>6, <1>7 DEF Provider

-----------------------------------------------------------------------------
(* The caller's side                                                       *)

LEMMA CallerPreservesInv ==
  ASSUME Inv, Start \/ Stop \/ InputEnds
  PROVE  Inv'
<1>. USE DEF Inv
<1>1. UNCHANGED <<up, provider, events, output, flags, results, tool, audio>>
  BY DEF Start, Stop, InputEnds
<1>2. UNCHANGED <<up, live, made, asked, events, open, cut, tool>>
  BY <1>1 DEF provider, audio
<1>3. EventsTellResponses' /\ ResponsesAreNew' /\ CallsAreNew'
  BY <1>2, QueueFrame
<1>4. FlagsMatchHistory' /\ ResultsArePlaced' /\ InterruptionIsExact'
  BY <1>1, HandlerFrame
<1>5. /\ input' \in {"waiting", "talking", "over"} /\ session' \in BOOLEAN
      /\ record' \in {"none", "due", "stored", "failed"}
      /\ requests' \in Seq({"create", "cancel", "result"})
      /\ UNCHANGED main
  <2>1. CASE Start
    <3>1. requests \in Seq({"create", "cancel", "result"})
      BY DEF TypeOK
    <3>2. Append(requests, "create") \in Seq({"create", "cancel", "result"})
      BY <3>1, AppendProperties
    <3>. QED BY <2>1, <3>1, <3>2 DEF Start
  <2>2. CASE Stop \/ InputEnds
    BY <2>2 DEF Stop, InputEnds, TypeOK
  <2>. QED BY <2>1, <2>2
<1>6. TypeOK'
  BY <1>1, <1>5 DEF TypeOK, provider, flags, results, audio
<1>. QED BY <1>3, <1>4, <1>6

\* The end of the call.
LEMMA EndPreservesInv ==
  ASSUME Inv, CancelOther \/ Settle
  PROVE  Inv'
<1>. USE DEF Inv
<1>1. CASE CancelOther
  <2>1. /\ ~ up' /\ up' \in BOOLEAN /\ live' = 0 /\ events' = <<>> /\ requests' = <<>>
        /\ output' = "over" /\ input' = "over" /\ main' = "closing"
        /\ UNCHANGED <<made, spoke, heard, asked, flags, results, session, record, audio>>
    BY <1>1 DEF CancelOther
  <2>2. /\ tool' \in [Calls -> {"none", "running", "queued", "sending", "sent", "lost"}]
        /\ \A c \in Calls :
             tool'[c] = tool[c] \/ (tool[c] \in {"running", "sending"} /\ tool'[c] = "lost")
    BY <1>1 DEF CancelOther, TypeOK
  <2>3. /\ ready \in Seq(Calls) /\ sending \in Seq(Calls)
        /\ \A i \in DOMAIN ready : ready[i] \in Calls
        /\ \A i \in DOMAIN sending : sending[i] \in Calls
    BY ElementOfSeq, LenProperties DEF TypeOK
  <2>4. TypeOK'
    BY <2>1, <2>2, EmptySeq DEF TypeOK, flags, results, audio
  <2>5. DOMAIN events' = {} /\ Len(events') = 0
    BY <2>1
  <2>6. EventsTellResponses'
    <3>. DEFINE v == [i \in 1 .. 1 |-> open]
    <3>1. v \in [1 .. Len(events') + 1 -> Responses \union {0}] /\ DOMAIN v = {1} /\ v[1] = open
      <4>1. open \in Responses \union {0}
        BY DEF TypeOK
      <4>2. Len(events') + 1 = 1
        BY <2>5
      <4>. QED BY <4>1, <4>2
    <3>. HIDE DEF v
    <3>2. open' = open
      BY <2>1 DEF audio
    <3>3. \A i, j \in DOMAIN v : ~ (i < j)
      BY <3>1
    <3>. QED BY <2>1, <2>5, <3>1, <3>2, <3>3 DEF EventsTellResponses, Tells
  <2>7. ResponsesAreNew' /\ CallsAreNew'
    BY <2>1, <2>2, <2>5 DEF ResponsesAreNew, CallsAreNew, audio
  <2>8. FlagsMatchHistory' /\ InterruptionIsExact'
    BY <2>1 DEF FlagsMatchHistory, InterruptionIsExact, flags, audio
  <2>9. ResultsArePlaced'
    <3>1. UNCHANGED <<ready, sending, answers, active>>
      BY <2>1 DEF results, flags
    <3>2. AreQueued(ready)' /\ AreQueued(sending)'
      BY <2>2, <2>3, <3>1 DEF ResultsArePlaced, AreQueued
    <3>3. \A c \in Calls : answers'[c] = IF tool'[c] = "sent" THEN 1 ELSE 0
      BY <2>2, <3>1 DEF ResultsArePlaced
    <3>. QED BY <2>1, <3>1, <3>2, <3>3 DEF ResultsArePlaced
  <2>. QED BY <2>4, <2>6, <2>7, <2>8, <2>9
<1>2. CASE Settle
  <2>1. UNCHANGED <<up, provider, events, requests, input, output, flags, results, tool, audio>>
    BY <1>2 DEF Settle
  <2>2. UNCHANGED <<up, live, made, asked, events, open, cut, tool>>
    BY <2>1 DEF provider, audio
  <2>3. EventsTellResponses' /\ ResponsesAreNew' /\ CallsAreNew'
    BY <2>2, QueueFrame
  <2>4. FlagsMatchHistory' /\ ResultsArePlaced' /\ InterruptionIsExact'
    BY <2>1, HandlerFrame
  <2>5. main' = "over" /\ session' = FALSE /\ record' \in {"none", "due", "stored", "failed"}
    BY <1>2 DEF Settle
  <2>6. TypeOK'
    BY <2>1, <2>5 DEF TypeOK, provider, flags, results, audio
  <2>. QED BY <2>3, <2>4, <2>6
<1>. QED BY <1>1, <1>2

-----------------------------------------------------------------------------
(* _handle_xai_to_twilio                                                   *)

\* What receiving an event leaves and tells.
LEMMA Received ==
  ASSUME Inv, NEW kind, Receives(kind)
  PROVE  /\ output = "receive" /\ events # <<>> /\ events' = Tail(events)
         /\ events' \in Seq(EventType)
         /\ Head(events) \in EventType /\ Head(events).kind = kind
         /\ 1 \in DOMAIN events /\ Head(events) = events[1]
         /\ UNCHANGED <<up, live, made, spoke, heard, asked, input, main, session, record>>
<1>1. events \in Seq(EventType)
  BY DEF Inv, TypeOK
<1>2. output = "receive" /\ events # <<>> /\ events' = Tail(events) /\ Head(events).kind = kind
  BY DEF Receives
<1>3. UNCHANGED <<up, live, made, spoke, heard, asked, input, main, session, record>>
  BY DEF Receives, provider, caller
<1>4. 1 \in DOMAIN events /\ Head(events) = events[1]
  BY <1>1, <1>2, EmptySeq, LenProperties
<1>. QED BY <1>1, <1>2, <1>3, <1>4, HeadTailProperties

\* Types and queue, once it is known what the handler does.
LEMMA ReceivePreserves ==
  ASSUME Inv, NEW kind, Receives(kind), Follows(open, Head(events), open'),
         open' \in Responses \union {0}, current' \in Responses \union {0},
         cancelled' \in Responses \union {0},
         active' \in BOOLEAN, closing' \in BOOLEAN,
         output' \in {"receive", "flush", "end", "gather", "last flush", "over"},
         requests' \in Seq({"create", "cancel", "result"}),
         ready' \in Seq(Calls), sending' \in Seq(Calls), answers' = answers,
         cut' \subseteq Responses, late' \subseteq Responses, dropped' \subseteq Responses,
         tool' \in [Calls -> {"none", "running", "queued", "sending", "sent", "lost"}],
         \A k \in cut' \union {open'} :
           \/ k \in cut \union {open, 0}
           \/ kind = "created" /\ k = Subject,
         \A c \in Calls : tool'[c] # tool[c] => kind = "call" /\ c = Subject
  PROVE  TypeOK' /\ EventsTellResponses' /\ ResponsesAreNew' /\ CallsAreNew'
<1>1. /\ events # <<>> /\ events' = Tail(events) /\ events' \in Seq(EventType)
      /\ Head(events).kind = kind
      /\ UNCHANGED <<up, live, made, spoke, heard, asked, input, main, session, record>>
  BY Received
<1>2. TypeOK /\ EventsTellResponses /\ ResponsesAreNew /\ CallsAreNew
  BY DEF Inv
<1>3. TypeOK'
  BY <1>1, <1>2 DEF TypeOK
<1>4. EventsTellResponses'
  BY <1>1, <1>2, ReceiveTells
<1>5. ResponsesAreNew' /\ CallsAreNew'
  BY <1>1, <1>2, ReceiveIsNew DEF Subject
<1>. QED BY <1>3, <1>4, <1>5

\* At an event that begins or ends no response the one under way stays.
LEMMA SameResponse ==
  ASSUME Inv, NEW kind \in {"audio", "call", "speech", "error"}, Receives(kind)
  PROVE  /\ Follows(open, Head(events), open)
         /\ kind = "audio" => open = Subject /\ open # 0
<1>1. /\ events # <<>> /\ Head(events).kind = kind /\ Head(events) \in EventType
  BY Received
<1>2. PICK after \in Responses \union {0} : Follows(open, Head(events), after)
  BY <1>1, HeadFollows DEF Inv
<1>3. after = open /\ (kind = "audio" => open = Subject)
  BY <1>1, <1>2 DEF Follows, Subject
<1>4. kind = "audio" => Subject # 0
  BY <1>1, EventSubjects, Numbers DEF Subject
<1>. QED BY <1>2, <1>3, <1>4

\* Nothing is being flushed while the handler receives.
LEMMA NothingIsSent ==
  ASSUME Inv, output = "receive"
  PROVE  sending = <<>>
BY DEF Inv, ResultsArePlaced

LEMMA ResponseCreatedPreservesInv ==
  ASSUME Inv, ResponseCreated
  PROVE  Inv'
<1>1. /\ Receives("created") /\ current' = Subject /\ active' = TRUE /\ open' = Subject
      /\ UNCHANGED <<requests, output, cancelled, closing, results, tool, cut, late, dropped>>
  BY DEF ResponseCreated
<1>2. /\ events # <<>> /\ Head(events).kind = "created" /\ Head(events) \in EventType
      /\ 1 \in DOMAIN events /\ Head(events) = events[1] /\ output = "receive"
  BY <1>1, Received
<1>3. Subject \in Responses /\ Subject # 0
  BY <1>2, EventSubjects, Numbers DEF Subject
<1>4. PICK after \in Responses \union {0} : Follows(open, Head(events), after)
  BY <1>2, HeadFollows DEF Inv
<1>5. Follows(open, Head(events), open')
  BY <1>1, <1>2, <1>4 DEF Follows, Subject
<1>6. TypeOK' /\ EventsTellResponses' /\ ResponsesAreNew' /\ CallsAreNew'
  BY <1>1, <1>3, <1>5, ReceivePreserves DEF Inv, TypeOK, results
<1>7. Subject \notin cut
  <2>1. Subject \in Nat /\ \A k \in cut : k < Subject
    BY <1>2, <1>3, Numbers DEF Inv, ResponsesAreNew, Subject
  <2>. QED BY <2>1
<1>8. FlagsMatchHistory'
  BY <1>1, <1>3, <1>7 DEF Inv, FlagsMatchHistory
<1>9. ResultsArePlaced' /\ InterruptionIsExact'
  BY <1>1 DEF Inv, ResultsArePlaced, AreQueued, InterruptionIsExact, results
<1>. QED BY <1>6, <1>8, <1>9 DEF Inv

LEMMA SpeechStartedPreservesInv ==
  ASSUME Inv, SpeechStarted
  PROVE  Inv'
<1>1. /\ Receives("speech") /\ cancelled' = Interrupted
      /\ requests' = IF active /\ up THEN Append(requests, "cancel") ELSE requests
      /\ output' = IF active /\ ~ up THEN "over" ELSE "receive"
      /\ cut' = cut \union ({open} \ {0})
      /\ UNCHANGED <<active, current, closing, results, tool, open, late, dropped>>
  BY DEF SpeechStarted
<1>2. output = "receive" /\ sending = <<>>
  BY <1>1, Received, NothingIsSent
<1>3. Follows(open, Head(events), open')
  BY <1>1, SameResponse
<1>4. requests' \in Seq({"create", "cancel", "result"})
  <2>1. requests \in Seq({"create", "cancel", "result"})
    BY DEF Inv, TypeOK
  <2>2. Append(requests, "cancel") \in Seq({"create", "cancel", "result"})
    BY <2>1, AppendProperties
  <2>. QED BY <1>1, <2>1, <2>2
<1>5. cut' \subseteq Responses /\ cancelled' \in Responses \union {0}
  BY <1>1 DEF Inv, TypeOK, Interrupted
<1>6. TypeOK' /\ EventsTellResponses' /\ ResponsesAreNew' /\ CallsAreNew'
  <2>1. \A k \in cut' \union {open'} : k \in cut \union {open, 0}
    BY <1>1
  <2>2. /\ open' \in Responses \union {0} /\ current' \in Responses \union {0}
        /\ active' \in BOOLEAN /\ closing' \in BOOLEAN
        /\ ready' \in Seq(Calls) /\ sending' \in Seq(Calls) /\ answers' = answers
        /\ late' \subseteq Responses /\ dropped' \subseteq Responses
        /\ tool' \in [Calls -> {"none", "running", "queued", "sending", "sent", "lost"}]
    BY <1>1 DEF Inv, TypeOK, results
  <2>3. output' \in {"receive", "flush", "end", "gather", "last flush", "over"}
    BY <1>1
  <2>. QED BY <1>1, <1>3, <1>4, <1>5, <2>1, <2>2, <2>3, ReceivePreserves
<1>7. FlagsMatchHistory'
  BY <1>1 DEF Inv, FlagsMatchHistory, Interrupted
<1>8. ResultsArePlaced' /\ InterruptionIsExact'
  BY <1>1, <1>2 DEF Inv, ResultsArePlaced, AreQueued, InterruptionIsExact, results
<1>. QED BY <1>6, <1>7, <1>8 DEF Inv

\* Audio is of the response the handler knows of: if the caller spoke into it,
\* it is the cancelled one, and no other is.
LEMMA AudioDeltaPreservesInv ==
  ASSUME Inv, AudioDelta
  PROVE  Inv'
<1>1. /\ Receives("audio") /\ current' = Subject
      /\ IF Subject = cancelled
         THEN dropped' = dropped \union {Subject} /\ UNCHANGED late
         ELSE late' = late \union ({Subject} \intersect cut) /\ UNCHANGED dropped
      /\ UNCHANGED <<requests, output, active, cancelled, closing, results, tool, open, cut>>
  BY DEF AudioDelta
<1>2. Follows(open, Head(events), open') /\ open = Subject /\ open # 0
  BY <1>1, SameResponse
<1>3. open \in Responses
  BY <1>2 DEF Inv, TypeOK
<1>4. late' \subseteq Responses /\ dropped' \subseteq Responses
  BY <1>1, <1>2, <1>3 DEF Inv, TypeOK
<1>5. TypeOK' /\ EventsTellResponses' /\ ResponsesAreNew' /\ CallsAreNew'
  <2>1. \A k \in cut' \union {open'} : k \in cut \union {open, 0}
    BY <1>1
  <2>2. /\ open' \in Responses \union {0} /\ current' \in Responses \union {0}
        /\ cancelled' \in Responses \union {0}
        /\ active' \in BOOLEAN /\ closing' \in BOOLEAN
        /\ ready' \in Seq(Calls) /\ sending' \in Seq(Calls) /\ answers' = answers
        /\ cut' \subseteq Responses
        /\ requests' \in Seq({"create", "cancel", "result"})
        /\ output' \in {"receive", "flush", "end", "gather", "last flush", "over"}
        /\ tool' \in [Calls -> {"none", "running", "queued", "sending", "sent", "lost"}]
    BY <1>1, <1>2, <1>3 DEF Inv, TypeOK, results
  <2>. QED BY <1>1, <1>2, <1>4, <2>1, <2>2, ReceivePreserves
<1>6. FlagsMatchHistory'
  BY <1>1, <1>2 DEF Inv, FlagsMatchHistory
<1>7. InterruptionIsExact'
  BY <1>1, <1>2 DEF Inv, FlagsMatchHistory, InterruptionIsExact
<1>8. ResultsArePlaced'
  BY <1>1 DEF Inv, ResultsArePlaced, AreQueued, results
<1>. QED BY <1>5, <1>6, <1>7, <1>8 DEF Inv

LEMMA CallDonePreservesInv ==
  ASSUME Inv, CallDone
  PROVE  Inv'
<1>1. /\ Receives("call") /\ closing' = (closing \/ asked[Subject] = "terminal")
      /\ tool' = [tool EXCEPT ![Subject] = "running"] \/ tool' = tool
      /\ UNCHANGED <<requests, output, active, current, cancelled, results, audio>>
  BY DEF CallDone
<1>2. /\ Head(events).kind = "call" /\ Head(events) \in EventType
      /\ 1 \in DOMAIN events /\ Head(events) = events[1] /\ output = "receive"
  BY <1>1, Received
<1>3. Subject \in Calls /\ tool[Subject] = "none"
  BY <1>2, EventSubjects DEF Subject, Inv, CallsAreNew
<1>4. /\ tool' \in [Calls -> {"none", "running", "queued", "sending", "sent", "lost"}]
      /\ \A c \in Calls : tool'[c] # tool[c] =>
           c = Subject /\ tool[c] = "none" /\ tool'[c] = "running"
  BY <1>1, <1>3 DEF Inv, TypeOK
<1>5. Follows(open, Head(events), open')
  BY <1>1, SameResponse DEF audio
<1>6. TypeOK' /\ EventsTellResponses' /\ ResponsesAreNew' /\ CallsAreNew'
  <2>1. \A k \in cut' \union {open'} : k \in cut \union {open, 0}
    BY <1>1 DEF audio
  <2>2. closing' \in BOOLEAN
    BY <1>1
  <2>3. /\ open' \in Responses \union {0} /\ current' \in Responses \union {0}
        /\ cancelled' \in Responses \union {0} /\ active' \in BOOLEAN
        /\ ready' \in Seq(Calls) /\ sending' \in Seq(Calls) /\ answers' = answers
        /\ cut' \subseteq Responses /\ late' \subseteq Responses
        /\ dropped' \subseteq Responses
        /\ requests' \in Seq({"create", "cancel", "result"})
        /\ output' \in {"receive", "flush", "end", "gather", "last flush", "over"}
    BY <1>1 DEF Inv, TypeOK, results, audio
  <2>. QED BY <1>1, <1>4, <1>5, <2>1, <2>2, <2>3, ReceivePreserves
<1>7. FlagsMatchHistory' /\ InterruptionIsExact'
  BY <1>1 DEF Inv, FlagsMatchHistory, InterruptionIsExact, audio
<1>8. ResultsArePlaced'
  <2>1. /\ \A i \in DOMAIN ready : ready[i] \in Calls
        /\ \A i \in DOMAIN sending : sending[i] \in Calls
    <3>1. ready \in Seq(Calls) /\ sending \in Seq(Calls)
      BY DEF Inv, TypeOK
    <3>. QED BY <3>1, ElementOfSeq, LenProperties
  <2>2. AreQueued(ready)' /\ AreQueued(sending)'
    BY <1>1, <1>4, <2>1 DEF Inv, ResultsArePlaced, AreQueued, results
  <2>3. \A c \in Calls : answers'[c] = IF tool'[c] = "sent" THEN 1 ELSE 0
    BY <1>1, <1>4 DEF Inv, ResultsArePlaced, results
  <2>. QED BY <1>1, <2>2, <2>3 DEF Inv, ResultsArePlaced, results
<1>. QED BY <1>6, <1>7, <1>8 DEF Inv

\* An event that the handler only takes note of, or that ends it.
LEMMA RemarkPreservesInv ==
  ASSUME Inv, CallerIsGone \/ ErrorEvent
  PROVE  Inv'
<1>1. PICK kind \in {"audio", "call", "speech", "error"} :
      /\ Receives(kind) /\ output' \in {output, "over"}
      /\ UNCHANGED <<requests, flags, results, tool, audio>>
  BY DEF CallerIsGone, ErrorEvent
<1>2. output = "receive" /\ sending = <<>>
  BY <1>1, Received, NothingIsSent
<1>3. Follows(open, Head(events), open')
  BY <1>1, SameResponse DEF audio
<1>4. TypeOK' /\ EventsTellResponses' /\ ResponsesAreNew' /\ CallsAreNew'
  <2>1. \A k \in cut' \union {open'} : k \in cut \union {open, 0}
    BY <1>1 DEF audio
  <2>2. /\ open' \in Responses \union {0} /\ current' \in Responses \union {0}
        /\ cancelled' \in Responses \union {0}
        /\ active' \in BOOLEAN /\ closing' \in BOOLEAN
        /\ ready' \in Seq(Calls) /\ sending' \in Seq(Calls) /\ answers' = answers
        /\ cut' \subseteq Responses /\ late' \subseteq Responses
        /\ dropped' \subseteq Responses
        /\ requests' \in Seq({"create", "cancel", "result"})
        /\ tool' \in [Calls -> {"none", "running", "queued", "sending", "sent", "lost"}]
    BY <1>1 DEF Inv, TypeOK, flags, results, audio
  <2>3. output' \in {"receive", "flush", "end", "gather", "last flush", "over"}
    BY <1>1, <1>2
  <2>4. \A c \in Calls : tool'[c] = tool[c]
    BY <1>1
  <2>. QED BY <1>1, <1>3, <2>1, <2>2, <2>3, <2>4, ReceivePreserves
<1>5. FlagsMatchHistory' /\ InterruptionIsExact'
  BY <1>1 DEF Inv, FlagsMatchHistory, InterruptionIsExact, flags, audio
<1>6. ResultsArePlaced'
  BY <1>1, <1>2 DEF Inv, ResultsArePlaced, AreQueued, flags, results
<1>. QED BY <1>4, <1>5, <1>6 DEF Inv

\* The end of a response takes every result that waits.
LEMMA ResponseDonePreservesInv ==
  ASSUME Inv, ResponseDone
  PROVE  Inv'
<1>1. /\ Receives("done") /\ active' = FALSE /\ open' = 0
      /\ sending' = ready /\ ready' = <<>> /\ output' = "flush"
      /\ UNCHANGED <<requests, current, cancelled, closing, answers, tool, cut, late, dropped>>
  BY DEF ResponseDone, TakeReady
<1>2. /\ events # <<>> /\ Head(events).kind = "done" /\ Head(events) \in EventType
  BY <1>1, Received
<1>3. PICK after \in Responses \union {0} : Follows(open, Head(events), after)
  BY <1>2, HeadFollows DEF Inv
<1>4. Follows(open, Head(events), open')
  BY <1>1, <1>2, <1>3 DEF Follows
<1>5. TypeOK' /\ EventsTellResponses' /\ ResponsesAreNew' /\ CallsAreNew'
  <2>1. \A k \in cut' \union {open'} : k \in cut \union {open, 0}
    BY <1>1
  <2>2. ready' \in Seq(Calls)
    BY <1>1, EmptySeq
  <2>3. /\ open' \in Responses \union {0} /\ current' \in Responses \union {0}
        /\ cancelled' \in Responses \union {0}
        /\ active' \in BOOLEAN /\ closing' \in BOOLEAN
        /\ sending' \in Seq(Calls) /\ answers' = answers
        /\ cut' \subseteq Responses /\ late' \subseteq Responses
        /\ dropped' \subseteq Responses
        /\ requests' \in Seq({"create", "cancel", "result"})
        /\ output' \in {"receive", "flush", "end", "gather", "last flush", "over"}
        /\ tool' \in [Calls -> {"none", "running", "queued", "sending", "sent", "lost"}]
    BY <1>1 DEF Inv, TypeOK
  <2>4. \A c \in Calls : tool'[c] = tool[c]
    BY <1>1
  <2>. QED BY <1>1, <1>4, <2>1, <2>2, <2>3, <2>4, ReceivePreserves
<1>6. FlagsMatchHistory'
  <2>1. 0 \notin cut
    BY StateNumbers DEF Inv
  <2>. QED BY <1>1, <2>1 DEF Inv, FlagsMatchHistory
<1>7. InterruptionIsExact'
  BY <1>1 DEF Inv, InterruptionIsExact
<1>8. ResultsArePlaced'
  <2>1. DOMAIN ready' = {}
    BY <1>1
  <2>. QED BY <1>1, <2>1 DEF Inv, ResultsArePlaced, AreQueued
<1>. QED BY <1>5, <1>6, <1>7, <1>8 DEF Inv

-----------------------------------------------------------------------------
(* The results of the tools                                                *)

\* What is left to show of a step that only moves results.
LEMMA MovePreservesInv ==
  ASSUME Inv, UNCHANGED <<up, provider, events, caller, flags, audio>>,
         output' \in {"receive", "flush", "end", "gather", "last flush", "over"},
         requests' \in Seq({"create", "cancel", "result"}),
         ready' \in Seq(Calls), sending' \in Seq(Calls), answers' \in [Calls -> Nat],
         tool' \in [Calls -> {"none", "running", "queued", "sending", "sent", "lost"}],
         \A c \in Calls : tool[c] = "none" => tool'[c] = "none",
         ResultsArePlaced'
  PROVE  Inv'
<1>. USE DEF Inv
<1>1. TypeOK'
  BY DEF TypeOK, provider, caller, flags, audio
<1>2. UNCHANGED <<up, live, made, asked, events, open, cut>>
  BY DEF provider, audio
<1>3. EventsTellResponses' /\ ResponsesAreNew' /\ CallsAreNew'
  BY <1>2, QueueFrame
<1>4. FlagsMatchHistory' /\ InterruptionIsExact'
  BY DEF FlagsMatchHistory, InterruptionIsExact, flags, audio
<1>. QED BY <1>1, <1>3, <1>4

\* The results that wait.
LEMMA Waiting ==
  ASSUME Inv
  PROVE  /\ ready \in Seq(Calls) /\ sending \in Seq(Calls)
         /\ \A i \in DOMAIN ready : ready[i] \in Calls /\ tool[ready[i]] = "queued"
         /\ \A i \in DOMAIN sending : sending[i] \in Calls /\ tool[sending[i]] = "queued"
<1>1. ready \in Seq(Calls) /\ sending \in Seq(Calls)
  BY DEF Inv, TypeOK
<1>2. /\ \A i \in DOMAIN ready : ready[i] \in Calls
      /\ \A i \in DOMAIN sending : sending[i] \in Calls
  BY <1>1, ElementOfSeq, LenProperties
<1>3. /\ \A i \in DOMAIN ready : tool[ready[i]] = "queued"
      /\ \A i \in DOMAIN sending : tool[sending[i]] = "queued"
  BY DEF Inv, ResultsArePlaced, AreQueued
<1>. QED BY <1>1, <1>2, <1>3

\* A result sent is counted once.
LEMMA SendResultCounts ==
  ASSUME Inv, NEW c \in Calls, tool[c] # "sent", SendResult(c)
  PROVE  /\ requests' \in Seq({"create", "cancel", "result"})
         /\ answers' \in [Calls -> Nat]
         /\ tool' \in [Calls -> {"none", "running", "queued", "sending", "sent", "lost"}]
         /\ \A d \in Calls : answers'[d] = IF tool'[d] = "sent" THEN 1 ELSE 0
         /\ tool'[c] = "sent" /\ \A d \in Calls \ {c} : tool'[d] = tool[d]
<1>1. /\ requests' = requests \o <<"result", "create">>
      /\ answers' = [answers EXCEPT ![c] = @ + 1] /\ tool' = [tool EXCEPT ![c] = "sent"]
  BY DEF SendResult
<1>2. /\ requests \in Seq({"create", "cancel", "result"}) /\ answers \in [Calls -> Nat]
      /\ tool \in [Calls -> {"none", "running", "queued", "sending", "sent", "lost"}]
  BY DEF Inv, TypeOK
<1>3. \A d \in Calls : answers[d] = IF tool[d] = "sent" THEN 1 ELSE 0
  BY DEF Inv, ResultsArePlaced
<1>4. requests' \in Seq({"create", "cancel", "result"})
  <2>1. <<"result", "create">> \in Seq({"create", "cancel", "result"})
    OBVIOUS
  <2>. QED BY <1>1, <1>2, <2>1, ConcatProperties
<1>5. /\ answers' \in [Calls -> Nat] /\ answers'[c] = answers[c] + 1
      /\ \A d \in Calls \ {c} : answers'[d] = answers[d]
  BY <1>1, <1>2
<1>6. /\ tool' \in [Calls -> {"none", "running", "queued", "sending", "sent", "lost"}]
      /\ tool'[c] = "sent" /\ \A d \in Calls \ {c} : tool'[d] = tool[d]
  BY <1>1, <1>2
<1>7. \A d \in Calls : answers'[d] = IF tool'[d] = "sent" THEN 1 ELSE 0
  BY <1>3, <1>5, <1>6
<1>. QED BY <1>4, <1>5, <1>6, <1>7

\* A flush sends the results it took in their order, each once.
LEMMA FlushPreservesInv ==
  ASSUME Inv, Flush
  PROVE  Inv'
<1>1. /\ output \in {"flush", "last flush"} /\ sending # <<>>
      /\ UNCHANGED <<up, provider, events, caller, flags, ready, audio>>
  BY DEF Flush
<1>2. /\ ready \in Seq(Calls) /\ sending \in Seq(Calls)
      /\ \A i \in DOMAIN ready : ready[i] \in Calls /\ tool[ready[i]] = "queued"
      /\ \A i \in DOMAIN sending : sending[i] \in Calls /\ tool[sending[i]] = "queued"
  BY Waiting
<1>3. CASE SendResult(Head(sending)) /\ sending' = Tail(sending) /\ UNCHANGED output
  <2>. DEFINE c == sending[1]
              n == Len(sending)
  <2>1. /\ n \in Nat \ {0} /\ DOMAIN sending = 1 .. n /\ Head(sending) = c
        /\ sending' \in Seq(Calls) /\ DOMAIN sending' = 1 .. n - 1
        /\ \A i \in 1 .. n - 1 : sending'[i] = sending[i + 1]
    <3>0. sending \in Seq(Calls) /\ sending # <<>> /\ sending' = Tail(sending)
      BY <1>1, <1>2, <1>3
    <3>1. /\ Tail(sending) \in Seq(Calls) /\ Len(Tail(sending)) = n - 1
          /\ \A i \in 1 .. Len(Tail(sending)) : Tail(sending)[i] = sending[i + 1]
      BY <3>0, HeadTailProperties
    <3>. QED BY <3>0, <3>1, EmptySeq, LenProperties
  <2>2. c \in Calls /\ tool[c] = "queued" /\ SendResult(c)
    BY <1>2, <1>3, <2>1
  <2>. HIDE DEF c, n
  <2>3. /\ requests' \in Seq({"create", "cancel", "result"})
        /\ answers' \in [Calls -> Nat]
        /\ tool' \in [Calls -> {"none", "running", "queued", "sending", "sent", "lost"}]
        /\ \A d \in Calls : answers'[d] = IF tool'[d] = "sent" THEN 1 ELSE 0
        /\ tool'[c] = "sent" /\ \A d \in Calls \ {c} : tool'[d] = tool[d]
    BY <2>2, SendResultCounts
  <2>4. /\ \A i \in DOMAIN ready : ready[i] # c
        /\ \A i \in DOMAIN sending' : sending'[i] # c
        /\ \A i, j \in DOMAIN sending' : sending'[i] = sending'[j] => i = j
        /\ \A i \in DOMAIN ready, j \in DOMAIN sending' : ready[i] # sending'[j]
        /\ \A i \in DOMAIN sending' : sending'[i] \in Calls /\ tool[sending'[i]] = "queued"
    <3>1. /\ \A i, j \in 1 .. n : sending[i] = sending[j] => i = j
          /\ \A i \in DOMAIN ready, j \in 1 .. n : ready[i] # sending[j]
      BY <2>1 DEF Inv, ResultsArePlaced, AreQueued
    <3>2. \A i \in 1 .. n - 1 : i + 1 \in 1 .. n /\ i + 1 # 1 /\ 1 \in 1 .. n
      BY <2>1
    <3>3. \A i \in DOMAIN ready : ready[i] # c
      BY <2>1, <3>1 DEF c
    <3>4. ASSUME NEW i \in DOMAIN sending'
          PROVE  /\ sending'[i] # c /\ sending'[i] \in Calls
                 /\ tool[sending'[i]] = "queued"
                 /\ \A k \in DOMAIN ready : ready[k] # sending'[i]
      <4>1. i \in 1 .. n - 1 /\ i + 1 \in 1 .. n /\ i + 1 # 1 /\ 1 \in 1 .. n
            /\ sending'[i] = sending[i + 1]
        BY <2>1, <3>2, <3>4
      <4>. QED BY <4>1, <1>2, <2>1, <3>1 DEF c
    <3>5. ASSUME NEW i \in DOMAIN sending', NEW j \in DOMAIN sending',
                 sending'[i] = sending'[j]
          PROVE  i = j
      <4>1. i + 1 \in 1 .. n /\ j + 1 \in 1 .. n /\ sending[i + 1] = sending[j + 1]
        BY <2>1, <3>2, <3>5
      <4>2. i + 1 = j + 1
        BY <4>1, <3>1
      <4>. QED BY <4>2, <2>1
    <3>. QED BY <3>3, <3>4, <3>5
  <2>5. AreQueued(ready)' /\ AreQueued(sending)'
    BY <1>1, <1>2, <2>3, <2>4 DEF Inv, ResultsArePlaced, AreQueued
  <2>6. ResultsArePlaced'
    BY <1>1, <1>3, <2>3, <2>4, <2>5 DEF Inv, ResultsArePlaced, flags
  <2>7. output' \in {"receive", "flush", "end", "gather", "last flush", "over"}
    BY <1>1, <1>3
  <2>8. \A d \in Calls : tool[d] = "none" => tool'[d] = "none"
    BY <2>2, <2>3
  <2>. QED BY <1>1, <1>2, <2>1, <2>3, <2>6, <2>7, <2>8, MovePreservesInv
<1>4. CASE output' = "over" /\ UNCHANGED <<requests, answers, tool, sending>>
  <2>1. ResultsArePlaced'
    BY <1>1, <1>4 DEF Inv, ResultsArePlaced, AreQueued, flags
  <2>2. /\ requests' \in Seq({"create", "cancel", "result"}) /\ answers' \in [Calls -> Nat]
        /\ tool' \in [Calls -> {"none", "running", "queued", "sending", "sent", "lost"}]
    BY <1>4 DEF Inv, TypeOK
  <2>. QED BY <1>1, <1>2, <1>4, <2>1, <2>2, MovePreservesInv
<1>. QED BY <1>3, <1>4 DEF Flush

\* The handler moves on, and no result does.
LEMMA MoveOnPreservesInv ==
  ASSUME Inv, FlushEnds \/ EndCall \/ ReceiveFails
  PROVE  Inv'
<1>1. /\ sending = <<>>
      /\ output' \in {"receive", "flush", "end", "gather", "last flush", "over"}
      /\ UNCHANGED <<up, provider, events, requests, caller, flags, results, tool, audio>>
  <2>1. CASE FlushEnds
    BY <2>1 DEF FlushEnds
  <2>2. CASE EndCall \/ ReceiveFails
    BY <2>2 DEF EndCall, ReceiveFails, Inv, ResultsArePlaced
  <2>. QED BY <2>1, <2>2
<1>2. ResultsArePlaced'
  BY <1>1 DEF Inv, ResultsArePlaced, AreQueued, flags, results
<1>3. /\ requests' \in Seq({"create", "cancel", "result"}) /\ answers' \in [Calls -> Nat]
      /\ tool' \in [Calls -> {"none", "running", "queued", "sending", "sent", "lost"}]
      /\ ready' \in Seq(Calls) /\ sending' \in Seq(Calls)
  BY <1>1 DEF Inv, TypeOK, results
<1>. QED BY <1>1, <1>2, <1>3, MovePreservesInv

\* The last flush takes what waits, as the end of a response does.
LEMMA GatherPreservesInv ==
  ASSUME Inv, Gather
  PROVE  Inv'
<1>1. /\ output = "gather" /\ output' \in {"last flush", "over"}
      /\ UNCHANGED <<up, provider, events, requests, caller, flags, answers, tool, audio>>
      /\ \/ UNCHANGED <<ready, sending>>
         \/ output' = "last flush" /\ sending' = ready /\ ready' = <<>>
  BY DEF Gather, TakeReady
<1>2. sending = <<>>
  BY <1>1 DEF Inv, ResultsArePlaced
<1>3. /\ requests' \in Seq({"create", "cancel", "result"}) /\ answers' \in [Calls -> Nat]
      /\ tool' \in [Calls -> {"none", "running", "queued", "sending", "sent", "lost"}]
  BY <1>1 DEF Inv, TypeOK
<1>4. ready' \in Seq(Calls) /\ sending' \in Seq(Calls)
  BY <1>1, Waiting, EmptySeq
<1>5. ResultsArePlaced'
  <2>1. CASE UNCHANGED <<ready, sending>>
    BY <1>1, <1>2, <2>1 DEF Inv, ResultsArePlaced, AreQueued, flags
  <2>2. CASE output' = "last flush" /\ sending' = ready /\ ready' = <<>>
    <3>0. ready' = <<>>
      BY <2>2
    <3>1. DOMAIN ready' = {}
      BY <3>0
    <3>. QED BY <1>1, <2>2, <3>1 DEF Inv, ResultsArePlaced, AreQueued, flags
  <2>. QED BY <1>1, <2>1, <2>2
<1>. QED BY <1>1, <1>3, <1>4, <1>5, MovePreservesInv

\* A result that a response makes wait is in no queue yet.
LEMMA ToolEndsPreservesInv ==
  ASSUME Inv, NEW c \in Calls, ToolEnds(c)
  PROVE  Inv'
<1>1. /\ tool[c] = "running"
      /\ \/ /\ active /\ ready' = Append(ready, c)
            /\ tool' = [tool EXCEPT ![c] = "queued"]
         \/ tool' = [tool EXCEPT ![c] = "sending"] /\ UNCHANGED ready
      /\ UNCHANGED <<up, provider, events, requests, caller, output, flags, sending, answers, audio>>
  BY DEF ToolEnds
<1>2. /\ ready \in Seq(Calls) /\ sending \in Seq(Calls)
      /\ \A i \in DOMAIN ready : ready[i] \in Calls /\ tool[ready[i]] = "queued"
      /\ \A i \in DOMAIN sending : sending[i] \in Calls /\ tool[sending[i]] = "queued"
  BY Waiting
<1>3. tool \in [Calls -> {"none", "running", "queued", "sending", "sent", "lost"}]
  BY DEF Inv, TypeOK
<1>4. /\ tool' \in [Calls -> {"none", "running", "queued", "sending", "sent", "lost"}]
      /\ tool'[c] \in {"queued", "sending"} /\ \A d \in Calls \ {c} : tool'[d] = tool[d]
  BY <1>1, <1>3
<1>5. \A d \in Calls : answers'[d] = IF tool'[d] = "sent" THEN 1 ELSE 0
  BY <1>1, <1>4 DEF Inv, ResultsArePlaced
<1>6. AreQueued(sending)'
  BY <1>1, <1>2, <1>4 DEF Inv, ResultsArePlaced, AreQueued
<1>7. /\ requests' \in Seq({"create", "cancel", "result"}) /\ answers' \in [Calls -> Nat]
      /\ sending' \in Seq(Calls)
      /\ output' \in {"receive", "flush", "end", "gather", "last flush", "over"}
  BY <1>1 DEF Inv, TypeOK
<1>8. \A d \in Calls : tool[d] = "none" => tool'[d] = "none"
  BY <1>1, <1>4
<1>9. ready' \in Seq(Calls) /\ ResultsArePlaced'
  <2>1. CASE active /\ ready' = Append(ready, c) /\ tool' = [tool EXCEPT ![c] = "queued"]
    <3>. DEFINE n == Len(ready)
    <3>1. /\ n \in Nat /\ DOMAIN ready = 1 .. n /\ ready' \in Seq(Calls)
          /\ DOMAIN ready' = 1 .. n + 1 /\ ready'[n + 1] = c
          /\ \A i \in 1 .. n : ready'[i] = ready[i]
      <4>1. /\ Append(ready, c) \in Seq(Calls) /\ Len(Append(ready, c)) = n + 1
            /\ \A i \in 1 .. n : Append(ready, c)[i] = ready[i]
            /\ Append(ready, c)[n + 1] = c
        BY <1>2, AppendProperties
      <4>. QED BY <1>2, <2>1, <4>1, LenProperties
    <3>. HIDE DEF n
    <3>2. tool'[c] = "queued"
      BY <1>3, <2>1
    <3>3. \A i \in 1 .. n : ready[i] # c
      BY <1>1, <1>2, <3>1
    <3>4. AreQueued(ready)'
      <4>1. \A i \in 1 .. n + 1 : tool'[ready'[i]] = "queued"
        BY <1>2, <1>4, <3>1, <3>2, <3>3
      <4>2. \A i, j \in 1 .. n + 1 : ready'[i] = ready'[j] => i = j
        <5>1. \A i, j \in 1 .. n : ready[i] = ready[j] => i = j
          BY <3>1 DEF Inv, ResultsArePlaced, AreQueued
        <5>. QED BY <3>1, <3>3, <5>1
      <4>. QED BY <3>1, <4>1, <4>2 DEF AreQueued
    <3>5. \A i \in DOMAIN ready', j \in DOMAIN sending : ready'[i] # sending[j]
      <4>1. \A i \in 1 .. n, j \in DOMAIN sending : ready[i] # sending[j]
        BY <3>1 DEF Inv, ResultsArePlaced
      <4>2. \A j \in DOMAIN sending : c # sending[j]
        BY <1>1, <1>2
      <4>. QED BY <3>1, <4>1, <4>2
    <3>. QED BY <1>1, <1>5, <1>6, <2>1, <3>1, <3>4, <3>5 DEF Inv, ResultsArePlaced, flags
  <2>2. CASE UNCHANGED ready
    <3>1. AreQueued(ready)'
      <4>1. \A i \in DOMAIN ready : ready[i] # c
        BY <1>1, <1>2
      <4>2. \A i \in DOMAIN ready : tool'[ready[i]] = "queued"
        BY <1>2, <1>4, <4>1
      <4>. QED BY <2>2, <4>2 DEF Inv, ResultsArePlaced, AreQueued
    <3>. QED BY <1>1, <1>2, <1>5, <1>6, <2>2, <3>1 DEF Inv, ResultsArePlaced, flags
  <2>. QED BY <1>1, <2>1, <2>2
<1>. QED BY <1>1, <1>4, <1>7, <1>8, <1>9, MovePreservesInv

LEMMA ToolSendsPreservesInv ==
  ASSUME Inv, NEW c \in Calls, ToolSends(c)
  PROVE  Inv'
<1>1. /\ tool[c] = "sending"
      /\ SendResult(c) \/ (tool' = [tool EXCEPT ![c] = "lost"]
                           /\ UNCHANGED <<requests, answers>>)
      /\ UNCHANGED <<up, provider, events, caller, output, flags, ready, sending, audio>>
  BY DEF ToolSends
<1>2. /\ requests' \in Seq({"create", "cancel", "result"})
      /\ answers' \in [Calls -> Nat]
      /\ tool' \in [Calls -> {"none", "running", "queued", "sending", "sent", "lost"}]
      /\ \A d \in Calls : answers'[d] = IF tool'[d] = "sent" THEN 1 ELSE 0
      /\ tool'[c] # "none" /\ \A d \in Calls \ {c} : tool'[d] = tool[d]
  <2>1. CASE SendResult(c)
    BY <1>1, <2>1, SendResultCounts
  <2>2. CASE tool' = [tool EXCEPT ![c] = "lost"] /\ UNCHANGED <<requests, answers>>
    BY <1>1, <2>2 DEF Inv, TypeOK, ResultsArePlaced
  <2>. QED BY <1>1, <2>1, <2>2
<1>3. /\ ready \in Seq(Calls) /\ sending \in Seq(Calls)
      /\ \A i \in DOMAIN ready : ready[i] \in Calls /\ tool[ready[i]] = "queued"
      /\ \A i \in DOMAIN sending : sending[i] \in Calls /\ tool[sending[i]] = "queued"
  BY Waiting
<1>4. AreQueued(ready)' /\ AreQueued(sending)'
  BY <1>1, <1>2, <1>3 DEF Inv, ResultsArePlaced, AreQueued
<1>5. ResultsArePlaced'
  BY <1>1, <1>2, <1>4 DEF Inv, ResultsArePlaced, flags
<1>6. output' \in {"receive", "flush", "end", "gather", "last flush", "over"}
  BY <1>1 DEF Inv, TypeOK
<1>7. \A d \in Calls : tool[d] = "none" => tool'[d] = "none"
  BY <1>1, <1>2
<1>. QED BY <1>1, <1>2, <1>3, <1>5, <1>6, <1>7, MovePreservesInv

-----------------------------------------------------------------------------
(* The theorems                                                            *)

LEMMA InitInv == Init => Inv
<1>. SUFFICES ASSUME Init PROVE Inv
  OBVIOUS
<1>. USE DEF Init
<1>1. TypeOK
  <2>1. /\ asked \in Seq(Kinds) /\ events \in Seq(EventType)
        /\ requests \in Seq({"create", "cancel", "result"})
        /\ ready \in Seq(Calls) /\ sending \in Seq(Calls)
    BY EmptySeq
  <2>2. made \in 0 .. MaxResponses /\ spoke \in 0 .. MaxAudio /\ heard \in 0 .. MaxSpeeches
    BY VoiceAssumption
  <2>. QED BY <2>1, <2>2 DEF TypeOK
<1>2. DOMAIN events = {} /\ Len(events) = 0 /\ Len(asked) = 0 /\ DOMAIN ready = {} /\ DOMAIN sending = {}
  OBVIOUS
<1>3. EventsTellResponses
  <2>. DEFINE v == [i \in 1 .. 1 |-> 0]
  <2>1. v \in [1 .. Len(events) + 1 -> Responses \union {0}] /\ DOMAIN v = {1} /\ v[1] = 0
    BY <1>2
  <2>. HIDE DEF v
  <2>2. \A i, j \in DOMAIN v : ~ (i < j)
    BY <2>1
  <2>. QED BY <1>2, <2>1, <2>2 DEF EventsTellResponses, Tells
<1>4. ResponsesAreNew /\ CallsAreNew
  BY <1>2 DEF ResponsesAreNew, CallsAreNew
<1>5. FlagsMatchHistory /\ InterruptionIsExact
  BY DEF FlagsMatchHistory, InterruptionIsExact
<1>6. ResultsArePlaced
  BY <1>2 DEF ResultsArePlaced, AreQueued
<1>. QED BY <1>1, <1>3, <1>4, <1>5, <1>6 DEF Inv

LEMMA StutterPreservesInv ==
  ASSUME Inv, UNCHANGED vars
  PROVE  Inv'
<1>1. UNCHANGED <<up, provider, events, requests, input, output, main, flags, results, tool, session, record, audio>>
  BY DEF vars
<1>2. UNCHANGED <<up, provider, events, caller, flags, audio>>
  BY <1>1 DEF caller
<1>3. ResultsArePlaced'
  BY <1>1, HandlerFrame
<1>4. /\ requests' \in Seq({"create", "cancel", "result"}) /\ answers' \in [Calls -> Nat]
      /\ tool' \in [Calls -> {"none", "running", "queued", "sending", "sent", "lost"}]
      /\ ready' \in Seq(Calls) /\ sending' \in Seq(Calls)
      /\ output' \in {"receive", "flush", "end", "gather", "last flush", "over"}
  BY <1>1 DEF Inv, TypeOK, results
<1>. QED BY <1>1, <1>2, <1>3, <1>4, MovePreservesInv

LEMMA NextPreservesInv == Inv /\ [Next]_vars => Inv'
<1>. SUFFICES ASSUME Inv, [Next]_vars PROVE Inv'
  OBVIOUS
<1>1. CASE Provider
  BY <1>1, ProviderPreservesInv
<1>2. CASE Start \/ Stop \/ InputEnds
  BY <1>2, CallerPreservesInv
<1>3. CASE CancelOther \/ Settle
  BY <1>3, EndPreservesInv
<1>4. CASE Output
  <2>1. CASE ResponseCreated
    BY <2>1, ResponseCreatedPreservesInv
  <2>2. CASE SpeechStarted
    BY <2>2, SpeechStartedPreservesInv
  <2>3. CASE AudioDelta
    BY <2>3, AudioDeltaPreservesInv
  <2>4. CASE CallDone
    BY <2>4, CallDonePreservesInv
  <2>5. CASE CallerIsGone \/ ErrorEvent
    BY <2>5, RemarkPreservesInv
  <2>6. CASE ResponseDone
    BY <2>6, ResponseDonePreservesInv
  <2>7. CASE Flush
    BY <2>7, FlushPreservesInv
  <2>8. CASE FlushEnds \/ EndCall \/ ReceiveFails
    BY <2>8, MoveOnPreservesInv
  <2>9. CASE Gather
    BY <2>9, GatherPreservesInv
  <2>. QED
    BY <1>4, <2>1, <2>2, <2>3, <2>4, <2>5, <2>6, <2>7, <2>8, <2>9 DEF Output
<1>5. CASE \E c \in Calls : ToolEnds(c) \/ ToolSends(c)
  BY <1>5, ToolEndsPreservesInv, ToolSendsPreservesInv
<1>6. CASE UNCHANGED vars
  BY <1>6, StutterPreservesInv
<1>. QED BY <1>1, <1>2, <1>3, <1>4, <1>5, <1>6 DEF Next

(***************************************************************************)
(* Inv holds in every state of a call: what the handler knows of responses *)
(* and what the provider is at are tied by the events between them, and    *)
(* every result is in one place (routes/voice.py, voice_stream).           *)
(***************************************************************************)
THEOREM SpecInv == Spec => []Inv
<1>1. Init => Inv
  BY InitInv
<1>2. Inv /\ [Next]_vars => Inv'
  BY NextPreservesInv
<1>. QED BY <1>1, <1>2, PTL DEF Spec

(***************************************************************************)
(* The state of a call has its type: responses and tool calls keep their   *)
(* identities through queues and flags (routes/voice.py, voice_stream).    *)
(***************************************************************************)
THEOREM TypeCorrect == Spec => []TypeOK
<1>1. Inv => TypeOK
  BY DEF Inv
<1>. QED BY <1>1, SpecInv, PTL

(***************************************************************************)
(* No result is left in ready_tool_results with nothing to flush it, and   *)
(* none is sent twice, for any number of tools and responses.              *)
(***************************************************************************)
THEOREM ResultsAreReleased == Spec => []QueuedResultsAreReleased
<1>1. ASSUME Inv PROVE QueuedResultsAreReleased
  <2>1. ready # <<>> => active
    BY <1>1 DEF Inv, ResultsArePlaced
  <2>2. ASSUME active, up
        PROVE  live # 0 \/ \E i \in DOMAIN events : events[i].kind = "done"
    BY <1>1, <2>2, EndIsTold DEF Inv, FlagsMatchHistory
  <2>3. ASSUME NEW c \in Calls
        PROVE  /\ answers[c] <= 1
               /\ c \in ToSet(ready) \union ToSet(sending) => answers[c] = 0
    <3>1. answers[c] = IF tool[c] = "sent" THEN 1 ELSE 0
      BY <1>1 DEF Inv, ResultsArePlaced
    <3>2. c \in ToSet(ready) \union ToSet(sending) => tool[c] = "queued"
      BY <1>1, Waiting DEF ToSet
    <3>. QED BY <3>1, <3>2
  <2>. QED BY <2>1, <2>2, <2>3 DEF QueuedResultsAreReleased
<1>. QED BY <1>1, SpecInv, PTL

(***************************************************************************)
(* A barge-in silences the response the caller spoke into and no other,    *)
(* however late the event of it is handled (routes/voice.py:672).          *)
(***************************************************************************)
THEOREM BargeInIsExact == Spec => []InterruptionIsExact
<1>1. Inv => InterruptionIsExact
  BY DEF Inv
<1>. QED BY <1>1, SpecInv, PTL
=============================================================================
