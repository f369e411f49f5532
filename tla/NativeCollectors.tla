--------------------------- MODULE NativeCollectors ---------------------------
(***************************************************************************)
(* The two callback sources of the agent: the Sysmon subscription          *)
(* (sysmon_event_collector.cpp), whose callbacks run on threads of the     *)
(* event log and are counted, and the kernel process trace                 *)
(* (etw_process_collector.cpp), whose callbacks run on one consumer thread *)
(* that is joined.  The main thread starts and stops them; a stop must not *)
(* take the sink from under a callback.  Sysmon process creations go into  *)
(* the two-generation image cache (process_image_cache.cpp).               *)
(***************************************************************************)
EXTENDS Naturals, FiniteSets, Sequences, SequencesExt

CONSTANTS Threads,     \* threads that run callbacks
          Guids,       \* process GUIDs
          Capacity,    \* generation_capacity
          MaxEvents    \* bound: events delivered by the host

VARIABLES kind,       \* "sysmon" or "etw"
          pc,         \* the main thread, "ended" when stop has returned
          stop,       \* stop was called
          native,     \* the subscription or trace is open
          accepting,  \* accepting_callbacks (sysmon only)
          sink,       \* event_sink is set
          at,         \* the step of each callback thread
          event,      \* the event it has
          consumer,   \* the etw worker: "none", "running", "ended"
          received, delivered, failed, dropped,  \* events of the host; failed is the sum of the error counters
          hot, cold,  \* the generations of the image cache
          recent      \* ghost: the GUIDs remembered last, oldest first

vars == <<kind, pc, stop, native, accepting, sink, at, event, consumer,
          received, delivered, failed, dropped, hot, cold, recent>>
counters == <<received, delivered, failed, dropped>>
cache == <<hot, cold, recent>>
source == <<native, accepting, sink, consumer>>

Events == [type : {"create"}, guid : Guids] \cup [type : {"other", "garbled"}, guid : {CHOOSE g \in Guids : TRUE}]

Init ==
  /\ kind \in {"sysmon", "etw"} /\ pc = "start" /\ stop = FALSE
  /\ native = FALSE /\ accepting = FALSE /\ sink = FALSE /\ consumer = "none"
  /\ at = [t \in Threads |-> "out"] /\ event = [t \in Threads |-> "none"]
  /\ received = 0 /\ delivered = 0 /\ failed = 0 /\ dropped = 0
  /\ hot = {} /\ cold = {} /\ recent = <<>>

Threaded == UNCHANGED <<kind, at, event, counters, cache>>
Active == {t \in Threads : at[t] = "in"}

-----------------------------------------------------------------------------
(* start: the sinks are set and callbacks accepted before there is a
   subscription or trace that could call. *)
Start ==
  /\ pc = "start" /\ pc' = "subscribe"
  /\ sink' = TRUE /\ accepting' = (kind = "sysmon")
  /\ UNCHANGED <<stop, native, consumer>> /\ Threaded

(* EvtSubscribe, or StartTrace, EnableTraceEx2, OpenTrace and the thread. *)
Subscribe ==
  /\ pc = "subscribe" /\ pc' = "running"
  /\ native' = TRUE /\ consumer' = IF kind = "etw" THEN "running" ELSE "none"
  /\ UNCHANGED <<stop, accepting, sink>> /\ Threaded

SubscribeFails ==
  /\ pc = "subscribe" /\ pc' = "refused"
  /\ accepting' = FALSE /\ sink' = FALSE
  /\ UNCHANGED <<stop, native, consumer>> /\ Threaded

(* stop, which the main thread and the destructor call. *)
RequestStop ==
  /\ pc \in {"running", "refused"} /\ pc' = "close"
  /\ stop' = TRUE /\ accepting' = FALSE
  /\ UNCHANGED <<native, sink, consumer>> /\ Threaded

(* EvtClose, or the end of the session and CloseTrace. *)
Close ==
  /\ pc = "close" /\ pc' = "wait"
  /\ native' = FALSE
  /\ UNCHANGED <<stop, accepting, sink, consumer>> /\ Threaded

(* Mutant: the sinks are cleared as soon as the subscription is closed. *)
StopReturnsUnwaited ==
  /\ pc = "wait" /\ pc' = "ended"
  /\ sink' = FALSE
  /\ UNCHANGED <<stop, native, accepting, consumer>> /\ Threaded

(* The wait for the callbacks, or the join of the consumer. *)
StopReturns ==
  /\ pc = "wait" /\ pc' = "ended"
  /\ IF kind = "sysmon" THEN Active = {} ELSE consumer # "running"
  /\ sink' = FALSE
  /\ UNCHANGED <<stop, native, accepting, consumer>> /\ Threaded

-----------------------------------------------------------------------------
(* External: the host calls with an event, a garbled one standing also for a
   report of missing events.  The consumer has one at a time, and may have
   buffered ones after the trace is closed. *)
Call(t) ==
  /\ at[t] = "out" /\ received < MaxEvents
  /\ IF kind = "sysmon" THEN native ELSE consumer = "running" /\ \A u \in Threads : at[u] = "out"
  /\ at' = [at EXCEPT ![t] = IF kind = "sysmon" THEN "called" ELSE "in"]
  /\ \E e \in Events : event' = [event EXCEPT ![t] = e]
  /\ received' = received + 1
  /\ UNCHANGED <<kind, pc, stop, source, delivered, failed, dropped, cache>>

BeginCallback(t) ==
  /\ at[t] = "called"
  /\ at' = [at EXCEPT ![t] = IF accepting THEN "in" ELSE "out"]
  /\ event' = [event EXCEPT ![t] = IF accepting THEN @ ELSE "none"]
  /\ dropped' = IF accepting THEN dropped ELSE dropped + 1
  /\ UNCHANGED <<kind, pc, stop, source, received, delivered, failed, cache>>

(* ProcessImageCache::remember. *)
Remember(g) ==
  /\ IF Cardinality(hot) >= Capacity /\ g \notin hot
     THEN cold' = hot /\ hot' = {g}
     ELSE cold' = cold /\ hot' = hot \cup {g}
  /\ LET all == Append(SelectSeq(recent, LAMBDA h : h # g), g) IN
     recent' = IF Len(all) > Capacity THEN Tail(all) ELSE all

(* deliver and finish_callback: the event is decoded, a creation remembered,
   and the sink called, which may refuse. *)
Deliver(t) ==
  /\ at[t] = "in" /\ at' = [at EXCEPT ![t] = "out"] /\ event' = [event EXCEPT ![t] = "none"]
  /\ IF event[t].type = "create" /\ kind = "sysmon" THEN Remember(event[t].guid) ELSE UNCHANGED cache
  /\ \E taken \in BOOLEAN :
       /\ delivered' = IF event[t].type # "garbled" /\ sink /\ taken THEN delivered + 1 ELSE delivered
       /\ failed' = IF event[t].type = "garbled" \/ (sink /\ ~taken) THEN failed + 1 ELSE failed
  /\ UNCHANGED <<kind, pc, stop, source, received, dropped>>

(* ProcessTrace returns: the trace was closed, or unexpectedly. *)
ConsumerEnds ==
  /\ consumer = "running" /\ \A t \in Threads : at[t] = "out"
  /\ consumer' = "ended"
  /\ UNCHANGED <<kind, pc, stop, native, accepting, sink, at, event, counters, cache>>

Callbacks == \E t \in Threads : BeginCallback(t) \/ Deliver(t)
Main == Close \/ StopReturns
Next == Start \/ Subscribe \/ SubscribeFails \/ RequestStop \/ Main
        \/ (\E t \in Threads : Call(t)) \/ Callbacks \/ ConsumerEnds

(* Threads are scheduled; a closed trace makes ProcessTrace return. *)
Work == Main \/ Callbacks \/ (~native /\ ConsumerEnds)
Spec == Init /\ [][Next]_vars /\ WF_vars(Work)

-----------------------------------------------------------------------------
(* A callback that was let in has a sink until it leaves, although start and
   stop change it on another thread; after stop has returned none is in; every
   event of the host is delivered, counted as failed or on its way, and only a
   stop drops one.  The image cache stays within two generations and finds the
   processes remembered last, whatever rotation fell between. *)
CallbacksFenced ==
  /\ Active # {} => sink
  /\ pc = "ended" => Active = {} /\ ~native
  /\ received = delivered + failed + dropped + Cardinality({t \in Threads : at[t] # "out"})
  /\ dropped > 0 => stop
  /\ Cardinality(hot) <= Capacity /\ Cardinality(cold) <= Capacity
  /\ ToSet(recent) \subseteq hot \cup cold
=============================================================================
