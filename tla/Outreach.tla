-------------------------------- MODULE Outreach --------------------------------
(***************************************************************************)
(* What the process does to the outside: telephone calls (CallManager over *)
(* DeterministicTelephonyProvider), restaurant bookings, mail, messages    *)
(* and follow-ups (CommunicationsManager, GoogleClient).  Everything but   *)
(* the memories is a store of the process, and is lost with it.            *)
(*                                                                         *)
(* The clients answer without suspending: only writing a memory does.  A   *)
(* transition is the code between two such writes.                         *)
(***************************************************************************)
EXTENDS Naturals, Sequences, SequencesExt, FiniteSets

CONSTANTS
    Bookings,    \* steps that book a table, each with what it wants
    Wants,       \* [place, time, party]
    Listed,      \* places that the client lists: any other gets an id of its own at each search
    StepKeys,    \* keys that the steps of plans give to a call, NoKey among them
    Channels,    \* channels of the texts sent
    Numbers,     \* numbers called, "" and one without a country prefix included
    MaxCalls,    \* bounds on calls,
    MaxEvents,   \* events
    MaxMessages  \* and messages

VARIABLES
    calls,       \* the provider's calls, in order
    history,     \* CallManager: the calls it knows
    events,      \* calendar events, in order
    booking,     \* booking -> where its latest attempt is
    remembered,  \* dedupe keys of the memories written
    messages     \* messages, drafts and follow-ups, in order

outreachVars == <<calls, history, events, booking, remembered, messages>>

Unbooked == [at |-> "none", wants |-> "none", call |-> 0, event |-> 0]

Call(to, key, status, party) == [to |-> to, key |-> key, status |-> status, party |-> party]

NoKey == <<>>

\* places_search: an unlisted place is made up, and another one the next time.
PlaceId(name, attempt) == <<name, IF name \in Listed THEN 0 ELSE attempt>>

BookingKey(place, time) == <<"call_book", place, time>>

\* The workflow makes its keys of the place and the time, a step's is that of its task.
ASSUME StepKeysAssumption == \A key \in StepKeys : Len(key) # 3

-----------------------------------------------------------------------------
\* DeterministicTelephonyProvider.initiate_call: the call with this key, else a new one, over at once.
Keyed(key) == {n \in DOMAIN calls : key # NoKey /\ calls[n].key = key}

\* Mutant: the key is not looked up.
RingAgain(call) ==
    /\ Len(calls) < MaxCalls
    /\ calls' = Append(calls, call)
    /\ history' = history \cup {Len(calls')}

Ring(call) ==
    IF Keyed(call.key) # {}
    THEN calls' = calls /\ history' = history \cup Keyed(call.key)
    ELSE /\ Len(calls) < MaxCalls
         /\ calls' = Append(calls, call)
         /\ history' = history \cup {Len(calls')}

Rung(call) == IF Keyed(call.key) # {} THEN CHOOSE n \in Keyed(call.key) : TRUE ELSE Len(calls) + 1

\* A memory that fails is only logged.
Remembering(key) == remembered' \in {remembered, remembered \cup {key}}

\* _validate_number, with the default policy.
Valid(number) == number \notin {"", "4155550100", "+33"}

\* telephony.call.outbound: the key is that of the step.  The memory of the call is written, or fails.
PlaceCall(number, key) ==
    /\ Valid(number)
    /\ LET call == Call(PlaceId(number, 0), key, "completed", 0)
       IN  Ring(call) /\ Remembering(<<"mem_call", Rung(call)>>)
    /\ UNCHANGED <<events, booking, messages>>

\* CallManager.terminate_call: the provider raises on an unknown call.
TerminateCall(n) ==
    /\ n \in DOMAIN calls
    /\ calls' = [calls EXCEPT ![n].status = "completed"]
    /\ history' = history \cup {n}
    /\ UNCHANGED <<events, booking, remembered, messages>>

-----------------------------------------------------------------------------
\* RestaurantBookingWorkflow.execute, up to the memory of its call.
StartBooking(b, w) ==
    /\ booking[b].at = "none" \/ (booking[b].at = "cut off" /\ booking[b].wants = w)
    /\ LET place == PlaceId(w.place, 1 + Len(calls))
           call  == Call(place, BookingKey(place, w.time), "completed", w.party)
       IN   /\ Ring(call)
            /\ booking' = [booking EXCEPT ![b] = [at |-> "called", wants |-> w, call |-> Rung(call), event |-> 0]]
    /\ UNCHANGED <<events, remembered, messages>>

\* The event is always a new one, and always at seven.
CallRemembered(b) ==
    /\ booking[b].at = "called" /\ Len(events) < MaxEvents
    /\ Remembering(<<"mem_call", booking[b].call>>)
    /\ events' = Append(events, [place |-> calls[booking[b].call].to])
    /\ booking' = [booking EXCEPT ![b].at = "scheduled", ![b].event = Len(events')]
    /\ UNCHANGED <<calls, history, messages>>

BookingRemembered(b) ==
    /\ booking[b].at = "scheduled"
    /\ Remembering(<<"mem_res", booking[b].event>>)
    /\ booking' = [booking EXCEPT ![b].at = "confirmed"]
    /\ UNCHANGED <<calls, history, events, messages>>

\* TaskRunner.shutdown cancels the workflow while a memory is written.  An application that
\* starts again in the same process finds the stores, and executes the task's step again.
CutOffBooking(b) ==
    /\ booking[b].at \in {"called", "scheduled"}
    /\ Remembering(IF booking[b].at = "called" THEN <<"mem_call", booking[b].call>> ELSE <<"mem_res", booking[b].event>>)
    /\ booking' = [booking EXCEPT ![b].at = "cut off"]
    /\ UNCHANGED <<calls, history, events, messages>>

-----------------------------------------------------------------------------
\* Each send is a new message, also when a step is executed again.
Sends(channel, status) ==
    /\ Len(messages) < MaxMessages
    /\ messages' = Append(messages, [channel |-> channel, status |-> status])
    /\ UNCHANGED <<calls, history, events, booking>>

\* Nothing takes up a scheduled email later.
SendEmail(scheduled) == Sends("email", IF scheduled THEN "queued" ELSE "delivered") /\ UNCHANGED remembered
SendText(channel)    == Sends(channel, "delivered") /\ UNCHANGED remembered
Broadcast            == Sends("notification", "delivered") /\ UNCHANGED remembered
GmailSend            == Sends("gmail", "sent") /\ UNCHANGED remembered
GmailDraft           == Sends("draft", "draft") /\ UNCHANGED remembered

\* Its memory has no key; nothing takes up a pending follow-up later.
ScheduleFollowUp ==
    /\ Sends("followup", "pending")
    /\ Remembering(<<"followup", Len(messages')>>)

\* The calendar tools.
CreateEvent(place) ==
    /\ Len(events) < MaxEvents
    /\ events' = Append(events, [place |-> place])
    /\ UNCHANGED <<calls, history, booking, remembered, messages>>

UpdateEvent(n, place) ==
    /\ n \in DOMAIN events
    /\ events' = [events EXCEPT ![n].place = place]
    /\ UNCHANGED <<calls, history, booking, remembered, messages>>

\* The process is lost: a step it was in is executed again by the next one.
LoseProcess ==
    /\ calls' = <<>> /\ events' = <<>> /\ messages' = <<>> /\ history' = {}
    /\ booking' = [b \in Bookings |->
                     IF booking[b].at \in {"called", "scheduled", "cut off"}
                     THEN [booking[b] EXCEPT !.at = "cut off", !.call = 0, !.event = 0] ELSE Unbooked]
    /\ UNCHANGED remembered

OutreachInit ==
    /\ calls = <<>> /\ events = <<>> /\ messages = <<>> /\ history = {} /\ remembered = {}
    /\ booking = [b \in Bookings |-> Unbooked]

OutreachNext ==
    \/ \E number \in Numbers, key \in StepKeys : PlaceCall(number, key)
    \/ \E n \in 1..MaxCalls : TerminateCall(n)
    \/ \E b \in Bookings :
        \/ \E w \in Wants : StartBooking(b, w)
        \/ CallRemembered(b) \/ BookingRemembered(b) \/ CutOffBooking(b)
    \/ \E w \in Wants : CreateEvent(PlaceId(w.place, 0)) \/ \E n \in 1..MaxEvents : UpdateEvent(n, PlaceId(w.place, 0))
    \/ LoseProcess

MessagesNext ==
    \/ \E scheduled \in BOOLEAN : SendEmail(scheduled)
    \/ \E channel \in Channels : SendText(channel)
    \/ Broadcast \/ GmailSend \/ GmailDraft \/ ScheduleFollowUp

OutreachSpec == OutreachInit /\ [][OutreachNext \/ MessagesNext]_outreachVars

-----------------------------------------------------------------------------
\* A place is rung once for a time, however often its booking is tried; a confirmed booking
\* has a call that the manager knows, for its place and time, and an event that no other
\* booking has.
BookingsBacked ==
    /\ \A m, n \in DOMAIN calls : calls[m].key = calls[n].key => m = n \/ calls[m].key = NoKey
    /\ history \subseteq DOMAIN calls
    /\ \A b \in Bookings :
        booking[b].at = "confirmed" =>
            LET w == booking[b].wants
            IN  /\ booking[b].call \in history
                /\ calls[booking[b].call].key = BookingKey(PlaceId(w.place, booking[b].call), w.time)
                /\ booking[b].event \in DOMAIN events
                /\ \A c \in Bookings \ {b} : booking[c].event # booking[b].event

=============================================================================
