---------------------------- MODULE BinanceSession ----------------------------
(***************************************************************************)
(* The multiplexed Binance session (binance/user_data.rs): one WebSocket    *)
(* carries the signed requests of every caller and the account's events.    *)
(* One task owns the socket.  It executes one command at a time, forwards   *)
(* the events it meets while it waits for a response, and stops at the      *)
(* first request whose outcome it cannot tell.                              *)
(*                                                                          *)
(* Calls are numbered in the order they are made, which is the order they   *)
(* are sent in; request n has id n + 1, the subscription has id 1.  Events  *)
(* are numbered by the venue.  A payload is [id, status, ev]: id 0 marks an *)
(* event.  Keep-alive frames and signatures are left out.                   *)
(***************************************************************************)
EXTENDS Naturals, Sequences, SequencesExt

CONSTANTS MaxCalls,       \* bound: calls of all callers
          MaxEvents,      \* bound: events of the account
          EventCapacity   \* EVENT_CAPACITY

VARIABLES
  phase,     \* "subscribing", "open", "closing", "ended", "refused"
  link,      \* whether the connection is up
  toVenue,   \* requests on the way to Binance
  wire,      \* payloads on the way back
  early,     \* events that came before the subscription's response
  commands,  \* the queue of commands
  pending,   \* the call whose response is awaited, or 0
  held,      \* an event that waits for room in the channel, or 0
  channel,   \* events for the main loop
  seen,      \* events the main loop has taken
  loop,      \* "running" or "exited"
  calls,     \* what each call has come to
  executed,  \* requests Binance has executed
  issued     \* events Binance has sent

sessVars == <<phase, link, toVenue, wire, early, commands, pending, held, channel,
              seen, loop, calls, executed, issued>>

Calls == 1 .. MaxCalls
Error == 0   \* the Err at the end of the channel
Response(n, ok) == [id |-> n + 1, status |-> IF ok THEN 200 ELSE 400, ev |-> 0]
Event(k) == [id |-> 0, status |-> 0, ev |-> k]
IsEvent(m) == m.id = 0
(* An event of another subscription, or one that cannot be read.            *)
Foreign == Event(0)
parse_user_data_event(k) == k # 0
Unknown == {"transport", "protocol"}

venue_unchanged == UNCHANGED <<executed, issued>>
caller_unchanged == UNCHANGED <<commands, calls>>
loop_unchanged == UNCHANGED <<seen, loop>>

----------------------------------------------------------------------------
(* Binance.  An order is executed, or rejected, or executed without the     *)
(* response ever coming; the request may also never be handled.             *)
VenueHandles ==
  /\ toVenue # <<>> /\ link
  /\ toVenue' = Tail(toVenue)
  /\ \E outcome \in {"ok", "rejected", "silent", "lost"} :
       /\ executed' = IF outcome \in {"ok", "silent"}
                      THEN executed \cup {Head(toVenue)} ELSE executed
       /\ wire' = IF outcome \in {"ok", "rejected"}
                  THEN Append(wire, Response(Head(toVenue), outcome = "ok")) ELSE wire
  /\ loop_unchanged /\ caller_unchanged
  /\ UNCHANGED <<phase, link, early, pending, held, channel, issued>>
VenueEvent ==
  /\ link
  /\ \/ /\ issued < MaxEvents
        /\ issued' = issued + 1 /\ wire' = Append(wire, Event(issued + 1))
     \/ /\ phase \in {"subscribing", "open"} /\ Foreign \notin ToSet(wire) /\ 0 \notin ToSet(early)
        /\ wire' = Append(wire, Foreign) /\ UNCHANGED issued
  /\ loop_unchanged /\ caller_unchanged
  /\ UNCHANGED <<phase, link, toVenue, early, pending, held, channel, executed>>
VenueAccepts ==
  /\ link /\ phase = "subscribing" /\ ~\E m \in ToSet(wire) : m.id = 1
  /\ \E ok \in BOOLEAN : wire' = Append(wire, Response(0, ok))
  /\ loop_unchanged /\ caller_unchanged /\ venue_unchanged
  /\ UNCHANGED <<phase, link, toVenue, early, pending, held, channel>>
LinkBreaks ==
  /\ link /\ link' = FALSE
  /\ \E kept \in 0 .. Len(wire) : wire' = SubSeq(wire, 1, kept)
  /\ toVenue' = <<>>
  /\ loop_unchanged /\ caller_unchanged /\ venue_unchanged
  /\ UNCHANGED <<phase, early, pending, held, channel>>

----------------------------------------------------------------------------
(* UserDataStream::connect: events may overtake the subscription's response *)
(* and are put into the channel first.                                      *)
(* Mutant: what comes before the response is skipped. *)
EarlySkipped(m) == UNCHANGED early
KeepEarly(m) == early' = Append(early, m.ev)
Subscribing ==
  /\ phase = "subscribing" /\ wire # <<>>
  /\ wire' = Tail(wire)
  /\ LET m == Head(wire) IN
       IF IsEvent(m) THEN KeepEarly(m) /\ UNCHANGED <<phase, channel>>
       ELSE /\ early' = <<>>
            /\ IF /\ m.status = 200 /\ Len(early) <= EventCapacity
                  /\ \A k \in ToSet(early) : parse_user_data_event(k)
               THEN phase' = "open" /\ channel' = early
               ELSE phase' = "refused" /\ UNCHANGED channel
  /\ loop_unchanged /\ caller_unchanged /\ venue_unchanged
  /\ UNCHANGED <<link, toVenue, pending, held>>
SubscribeFails ==
  /\ phase = "subscribing" /\ wire = <<>> /\ phase' = "refused"
  /\ loop_unchanged /\ caller_unchanged /\ venue_unchanged
  /\ UNCHANGED <<link, toVenue, wire, early, pending, held, channel>>

----------------------------------------------------------------------------
(* The callers.  Parameters are checked before anything is queued.          *)
Orders == [kind : {"market", "limit"}, quantity : {0, 1}, price : {0, 1}]
market_params(o) == o.kind = "market" /\ o.quantity > 0
limit_ioc_params(o) == o.kind = "limit" /\ o.quantity > 0 /\ o.price > 0
Free(n) == calls[n] = "unused" /\ \A m \in 1 .. n - 1 : calls[m] # "unused"
Call(n, o) ==
  /\ Free(n) /\ phase \notin {"subscribing", "refused"}
  /\ IF ~(market_params(o) \/ limit_ioc_params(o))
     THEN calls' = [calls EXCEPT ![n] = "invalid"] /\ UNCHANGED commands
     ELSE IF phase = "ended"
     THEN calls' = [calls EXCEPT ![n] = "transport"] /\ UNCHANGED commands
     ELSE calls' = [calls EXCEPT ![n] = "queued"] /\ commands' = Append(commands, n)
  /\ loop_unchanged /\ venue_unchanged
  /\ UNCHANGED <<phase, link, toVenue, wire, early, pending, held, channel>>

(* A transport or protocol error is told to the caller and ends the         *)
(* session; a rejection does not.                                           *)
(* Mutant: a request that timed out does not end the session. *)
GoesOn(answer) == answer = "protocol"
Fatal(answer) == answer \in Unknown
Answered(n, answer) ==
  /\ calls' = [calls EXCEPT ![n] = answer]
  /\ pending' = 0
  /\ phase' = IF Fatal(answer) THEN "closing" ELSE "open"

Idle == phase = "open" /\ pending = 0 /\ held = 0
Waiting == phase = "open" /\ pending # 0 /\ held = 0

TakeCommand ==
  /\ Idle /\ commands # <<>>
  /\ commands' = Tail(commands)
  /\ IF link
     THEN /\ pending' = Head(commands) /\ toVenue' = Append(toVenue, Head(commands))
          /\ calls' = [calls EXCEPT ![Head(commands)] = "sent"]
          /\ UNCHANGED phase
     ELSE Answered(Head(commands), "transport") /\ UNCHANGED toVenue
  /\ loop_unchanged /\ venue_unchanged
  /\ UNCHANGED <<link, wire, early, held, channel>>

(* Mutant: any response is taken for a success. *)
AlwaysOk(m) == IF m.id = pending + 1 THEN "ok" ELSE "protocol"
Decode(m) == IF m.id # pending + 1 THEN "protocol"
             ELSE IF m.status = 200 THEN "ok" ELSE "rejected"
(* Mutant: events are skipped while a response is awaited. *)
EventSkipped(m) == UNCHANGED held
Forward(m) == held' = m.ev
execute_api_command ==
  /\ Waiting /\ wire # <<>> /\ wire' = Tail(wire)
  /\ LET m == Head(wire) IN
       IF IsEvent(m) /\ parse_user_data_event(m.ev)
       THEN Forward(m) /\ UNCHANGED <<calls, pending, phase>>
       ELSE Answered(pending, Decode(m)) /\ UNCHANGED held
  /\ loop_unchanged /\ venue_unchanged
  /\ UNCHANGED <<link, toVenue, early, commands, channel>>
(* Twelve seconds without a payload, or a broken connection.                *)
(* Mutant: only the broken connection is noticed. *)
NoTimeout == wire = <<>> /\ ~link
NothingComes == wire = <<>>
ResponseTimeout ==
  /\ Waiting /\ NothingComes
  /\ Answered(pending, "transport")
  /\ loop_unchanged /\ venue_unchanged
  /\ UNCHANGED <<link, toVenue, wire, early, commands, held, channel>>

(* Between two commands: an event is forwarded, a response nobody waits for *)
(* or the end of the connection is an error.                                *)
IdlePayload ==
  /\ Idle /\ wire # <<>> /\ wire' = Tail(wire)
  /\ IF IsEvent(Head(wire)) /\ parse_user_data_event(Head(wire).ev)
     THEN held' = Head(wire).ev /\ UNCHANGED phase
     ELSE phase' = "closing" /\ UNCHANGED held
  /\ loop_unchanged /\ caller_unchanged /\ venue_unchanged
  /\ UNCHANGED <<link, toVenue, early, pending, channel>>
IdleBreaks ==
  /\ Idle /\ wire = <<>> /\ ~link
  /\ phase' = "closing"
  /\ loop_unchanged /\ caller_unchanged /\ venue_unchanged
  /\ UNCHANGED <<link, toVenue, wire, early, pending, held, channel>>

(* events.send().await: the session does nothing else until there is room.  *)
SendEvent ==
  /\ held # 0 /\ Len(channel) < EventCapacity
  /\ channel' = Append(channel, held) /\ held' = 0
  /\ loop_unchanged /\ caller_unchanged /\ venue_unchanged
  /\ UNCHANGED <<phase, link, toVenue, wire, early, pending>>
(* The error goes after the events; then the queue is dropped, and with it  *)
(* the callers' senders.                                                    *)
Close ==
  /\ phase = "closing" /\ Len(channel) < EventCapacity
  /\ channel' = Append(channel, Error) /\ phase' = "ended"
  /\ calls' = [n \in Calls |-> IF n \in ToSet(commands) THEN "transport" ELSE calls[n]]
  /\ commands' = <<>>
  /\ loop_unchanged /\ venue_unchanged
  /\ UNCHANGED <<link, toVenue, wire, early, pending, held>>

(* The main loop takes an event; an error ends the process.                 *)
next_event ==
  /\ loop = "running" /\ channel # <<>> /\ channel' = Tail(channel)
  /\ IF Head(channel) = Error THEN loop' = "exited" /\ UNCHANGED seen
     ELSE seen' = Append(seen, Head(channel)) /\ UNCHANGED loop
  /\ caller_unchanged /\ venue_unchanged
  /\ UNCHANGED <<phase, link, toVenue, wire, early, pending, held>>

----------------------------------------------------------------------------
SessInit ==
  /\ phase = "subscribing" /\ link = TRUE
  /\ toVenue = <<>> /\ wire = <<>> /\ early = <<>>
  /\ commands = <<>> /\ pending = 0 /\ held = 0
  /\ channel = <<>> /\ seen = <<>> /\ loop = "running"
  /\ calls = [n \in Calls |-> "unused"]
  /\ executed = {} /\ issued = 0
Session ==
  \/ Subscribing \/ SubscribeFails \/ TakeCommand \/ execute_api_command
  \/ ResponseTimeout \/ IdlePayload \/ IdleBreaks \/ SendEvent \/ Close
SessNext ==
  \/ VenueHandles \/ VenueEvent \/ VenueAccepts \/ LinkBreaks
  \/ Session \/ next_event \/ \E n \in Calls, o \in Orders : Call(n, o)
(* The task runs, its timeout fires, and the loop polls its arm.            *)
SessFairness == WF_sessVars(Session) /\ WF_sessVars(next_event)
SessSpec == SessInit /\ [][SessNext]_sessVars /\ SessFairness

----------------------------------------------------------------------------
(* What a caller is told is true of its own request: a success was          *)
(* executed, a rejection was not.                                           *)
AnswerIsOwn ==
  \A n \in Calls : /\ calls[n] = "ok" => n \in executed
                   /\ calls[n] = "rejected" => n \notin executed

(* No request leaves the session once the outcome of an earlier one is      *)
(* unknown: the process restarts and reconciles its journal first.          *)
SendsWhenKnown ==
  \A n \in Calls : calls[n] = "queued" /\ calls'[n] = "sent"
    => \A m \in Calls : calls[m] \notin Unknown
NothingAfterUnknown == [][SendsWhenKnown]_sessVars

(* The loop sees the account's events in the order they were sent and       *)
(* without a gap, those before the subscription's response and those during *)
(* a request included.                                                      *)
EventsInOrder == seen = [k \in 1 .. Len(seen) |-> k]

(* Every caller gets an answer, whatever becomes of its request.            *)
Asking(n) == calls[n] \in {"queued", "sent"}
CallerAnswered == \A n \in Calls : Asking(n) ~> ~Asking(n)
=============================================================================
