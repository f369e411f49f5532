--------------------------- MODULE CaptureWorkers ---------------------------
(***************************************************************************)
(* The workers of main.cpp that capture a part of the host's state every   *)
(* five minutes and commit it to the journal.  One behaviour follows one   *)
(* worker; worker says which.  There are four loops:                       *)
(*                                                                         *)
(*   - a worker with one record keeps it pending and offers it again until *)
(*     it is accepted;                                                     *)
(*   - a paged worker retains a begin record and the pages its collector's *)
(*     callback hands it, and keeps the final record pending;              *)
(*   - the audit policy worker and the native workers retain the manifest  *)
(*     as well, and give up the capture when the endpoint stops.           *)
(*                                                                         *)
(* now is the uptime; capture the capture at hand; line the record that    *)
(* awaits acceptance; health what the worker publishes for the reports.    *)
(***************************************************************************)
EXTENDS Freshness, Sequences

CONSTANTS
  Interval, Retry,  \* 300 s and 30 s
  MaxNow, MaxCaptures, MaxPages  \* bounds: the uptime, captures, pages of one

VARIABLES worker, stop, now, pc, capture, line, due, health, journal

vars == <<worker, stop, now, pc, capture, line, due, health, journal>>

Line(kind, c) == [kind |-> kind, capture |-> c.id, start |-> c.start, pages |-> c.pages]

Records == {"host_inventory", "firewall_profile_state", "security_center_state",
            "security_product_inventory", "defender_status",
            "device_guard_state", "volume_encryption_state"}
Paged == {"process_inventory", "service_inventory", "loaded_driver_inventory",
          "socket_inventory", "route_inventory", "ip_interface_inventory",
          "firewall_rule_inventory"}
Native == {"persistence", "identity", "software", "extra"}
Workers == Records \cup Paged \cup Native \cup {"security_audit_policy_inventory"}

Init ==
  /\ worker \in Workers /\ stop = FALSE /\ now = 0 /\ pc = "idle"
  /\ capture = [id |-> 0, start |-> 0, pages |-> 0]
  /\ line = None /\ due = 0 /\ journal = <<>>
  /\ health = [state |-> "unavailable", started |-> None, record |-> None,
               start |-> None, committed |-> None]

-----------------------------------------------------------------------------
(* The steps the loops share. *)

Due == pc = "idle" /\ ~stop /\ now >= due /\ line = None

(* The start is published before anything is queried or written. *)
Start(state) ==
  /\ Due /\ capture.id < MaxCaptures
  /\ capture' = [id |-> capture.id + 1, start |-> now, pages |-> 0]
  /\ health' = [health EXCEPT !.started = now, !.state = state]
  /\ UNCHANGED <<worker, stop, now, due, journal>>

(* An exception while the host is queried: nothing is pending, the capture is
   abandoned and a fresh one is due after 30 s. *)
Fail ==
  /\ pc \in {"query", "collect"}
  /\ pc' = "idle" /\ line' = None /\ due' = now + Retry
  /\ health' = [health EXCEPT !.state = "unavailable"]
  /\ UNCHANGED <<worker, stop, now, capture, journal>>

Commit == journal' = Append(journal, line) /\ line' = None

(* The published capture is the one whose final record was just accepted. *)
Publish(start, state) ==
  /\ Commit /\ pc' = "idle" /\ due' = now + Interval
  /\ health' = [health EXCEPT !.state = state, !.record = capture.id,
                              !.start = start, !.committed = now]
  /\ UNCHANGED <<worker, stop, now, capture>>

(* An exception after the commit: before or after the record was published. *)
PublishFails(start) ==
  /\ Commit /\ pc' = "idle" /\ due' = now + Retry
  /\ \/ health' = [health EXCEPT !.state = "unavailable"]
     \/ health' = [health EXCEPT !.state = "unavailable", !.record = capture.id,
                                 !.start = start, !.committed = now]
  /\ UNCHANGED <<worker, stop, now, capture>>

End ==
  /\ pc' = "ended" /\ line' = None
  /\ UNCHANGED <<worker, stop, now, capture, due, journal>>

(* The loop condition: the endpoint stops, and what is pending was never
   committed. *)
LoopEnds ==
  pc = "idle" /\ stop /\ End /\ UNCHANGED health

-----------------------------------------------------------------------------
(* The pending record: an attempt to persist it per turn of the loop. *)

Offer ==
  /\ pc = "idle" /\ ~stop /\ line # None
  /\ pc' = "persist"
  /\ UNCHANGED <<worker, stop, now, capture, line, due, health, journal>>

PendingAccepted(states) ==
  /\ pc = "persist"
  /\ \/ \E state \in states : Publish(health.started, state)
     \/ PublishFails(health.started)

PendingRefused ==
  /\ pc = "persist" /\ pc' = "idle"
  /\ health' = [health EXCEPT !.state = "unavailable"]
  /\ UNCHANGED <<worker, stop, now, capture, line, due, journal>>

PendingRecord(states) == Offer \/ PendingAccepted(states) \/ PendingRefused

-----------------------------------------------------------------------------
(* retain: the same line is offered until it is accepted.  It is given up only
   when the endpoint stops: after a refused attempt, or, in the native workers,
   before the next attempt. *)

StartPaged(state) == Start(state) /\ pc' = "retain" /\ line' = Line("begin", capture')

RetainAccepted ==
  /\ pc = "retain" /\ line.kind # "final"
  /\ Commit /\ pc' = "collect"
  /\ UNCHANGED <<worker, stop, now, capture, due, health>>

(* The callback of the collector makes a page of the capture. *)
NextPage ==
  /\ pc = "collect" /\ capture.pages < MaxPages
  /\ capture' = [capture EXCEPT !.pages = @ + 1]
  /\ line' = Line("page", capture') /\ pc' = "retain"
  /\ UNCHANGED <<worker, stop, now, due, health, journal>>

Finish(next) ==
  /\ pc = "collect" /\ line' = Line("final", capture) /\ pc' = next
  /\ UNCHANGED <<worker, stop, now, capture, due, health, journal>>

(* Mutant: the final record lists the page whose retain returned false. *)
RefusedPageListed == capture

(* A page whose retain returned false is not in page_record_ids. *)
RefusedPage == [capture EXCEPT !.pages = @ - 1]

(* A paged worker whose callback returned false still offers its final record,
   with the pages accepted so far. *)
RetainStopped ==
  /\ pc = "retain" /\ stop
  /\ \/ line.kind = "begin" /\ End /\ UNCHANGED health
     \/ /\ line.kind = "page" /\ capture' = RefusedPage
        /\ line' = Line("final", capture') /\ pc' = "persist"
        /\ UNCHANGED <<worker, stop, now, due, health, journal>>

(* The workers that retain their manifest leave the loop. *)
RetainAbandoned(state) ==
  /\ pc = "retain" /\ stop /\ End /\ health' = [health EXCEPT !.state = state]

ManifestAccepted(states) ==
  /\ pc = "retain" /\ line.kind = "final"
  /\ \/ \E state \in states : Publish(capture.start, state)
     \/ PublishFails(capture.start)

-----------------------------------------------------------------------------
(* The four loops. *)

RecordWorker(state, states) ==
  \/ Start(state) /\ pc' = "query" /\ UNCHANGED line
  \/ /\ pc = "query" /\ line' = Line("final", capture) /\ pc' = "persist"
     /\ UNCHANGED <<worker, stop, now, capture, due, health, journal>>
  \/ PendingRecord(states)
  \/ Fail
  \/ LoopEnds

PagedWorker(states) ==
  \/ StartPaged(health.state)
  \/ RetainAccepted \/ RetainStopped
  \/ NextPage \/ Finish("persist")
  \/ PendingRecord(states)
  \/ Fail
  \/ LoopEnds

AuditPolicyLoop ==
  \/ StartPaged("degraded")
  \/ RetainAccepted \/ RetainAbandoned("degraded")
  \/ NextPage
  \/ capture.pages >= 1 /\ Finish("retain")
  \/ ManifestAccepted({"healthy", "partial", "unavailable"})
  \/ Fail
  \/ LoopEnds

(* Every attempt is preceded by a look at the stop event. *)
NativeWorker ==
  \/ StartPaged(health.state)
  \/ ~stop /\ RetainAccepted
  \/ RetainAbandoned("disabled")
  \/ NextPage \/ Finish("retain")
  \/ ~stop /\ ManifestAccepted({"degraded", "unavailable"})
  \/ Fail
  \/ pc = "idle" /\ stop /\ End /\ health' = [health EXCEPT !.state = "disabled"]

-----------------------------------------------------------------------------
(* The workers: what the state of their health may be after a commit.  The host
   inventory and the audit policy are degraded from the start of a capture on. *)

HostInventory == worker = "host_inventory" /\ RecordWorker("degraded", {"degraded"})
FirewallProfiles ==
  worker = "firewall_profile_state" /\ RecordWorker(health.state, {"degraded", "unavailable"})
SecurityCenter ==
  /\ worker = "security_center_state"
  /\ RecordWorker(health.state, {"degraded", "unavailable", "unsupported"})
SecurityProducts ==
  worker = "security_product_inventory" /\ RecordWorker(health.state, {"degraded", "unavailable"})
DefenderStatus ==
  worker = "defender_status" /\ RecordWorker(health.state, {"degraded", "unavailable"})
DeviceGuard ==
  worker = "device_guard_state" /\ RecordWorker(health.state, {"degraded", "unavailable"})
VolumeEncryption ==
  worker = "volume_encryption_state" /\ RecordWorker(health.state, {"degraded", "unavailable"})

ProcessInventory ==
  worker = "process_inventory" /\ PagedWorker({"degraded", "unavailable"})
ServiceInventory ==
  worker = "service_inventory" /\ PagedWorker({"degraded", "unavailable"})
LoadedDrivers ==
  /\ worker = "loaded_driver_inventory"
  /\ PagedWorker({"degraded", "blind", "unavailable"})
Sockets == worker = "socket_inventory" /\ PagedWorker({"degraded", "unavailable"})
Routes == worker = "route_inventory" /\ PagedWorker({"degraded", "unavailable"})
IpInterfaces ==
  worker = "ip_interface_inventory" /\ PagedWorker({"degraded", "unavailable"})
FirewallRules ==
  worker = "firewall_rule_inventory" /\ PagedWorker({"degraded", "unavailable"})

AuditPolicy == worker = "security_audit_policy_inventory" /\ AuditPolicyLoop
NativeInventories == worker \in Native /\ NativeWorker

Tick ==
  /\ now < MaxNow /\ now' = now + 1
  /\ UNCHANGED <<worker, stop, pc, capture, line, due, health, journal>>

RequestStop ==
  /\ ~stop /\ stop' = TRUE
  /\ UNCHANGED <<worker, now, pc, capture, line, due, health, journal>>

Work ==
  \/ HostInventory \/ FirewallProfiles \/ SecurityCenter \/ SecurityProducts
  \/ DefenderStatus \/ DeviceGuard \/ VolumeEncryption
  \/ ProcessInventory \/ ServiceInventory \/ LoadedDrivers \/ Sockets
  \/ Routes \/ IpInterfaces \/ FirewallRules
  \/ AuditPolicy \/ NativeInventories

Next == Work \/ Tick \/ RequestStop

(* Each worker is a thread of its own.  Nothing is assumed of the journal: a
   refused line is offered again for ever, unless the endpoint stops. *)
Spec == Init /\ [][Next]_vars /\ WF_vars(Work)
-----------------------------------------------------------------------------
(* What emit_health reports of the source, and the sources the table of
   state_freshness.cpp names: volume_encryption_state is not among them. *)
Tracked == Workers \ {"volume_encryption_state"}
ReportedState ==
  IF worker \in Tracked THEN Eligible(health.state, CaptureFreshness(health, now))
  ELSE health.state

Finals == {i \in DOMAIN journal : journal[i].kind = "final"}

(* A final record in the journal lists exactly the pages of its capture that were
   accepted, in order, after the begin record; nothing of the capture follows it.
   (main.cpp: retain, page_record_ids and the pending record of every worker, with
   refusals, exceptions and a stop between any two of them.) *)
ChainWhole ==
  \A i \in Finals :
    LET own == SelectSeq(journal, LAMBDA l : l.capture = journal[i].capture)
        chain == IF worker \in Records THEN 1 ELSE journal[i].pages + 2
    IN  /\ Len(own) = chain /\ own[chain] = journal[i]
        /\ worker \notin Records =>
             /\ own[1].kind = "begin"
             /\ \A p \in 2 .. chain - 1 : own[p].kind = "page" /\ own[p].pages = p - 1

(* When a health report calls a source healthy or degraded, a capture of it that
   began at most MaxAge ago is in the journal: neither a late acceptance nor the
   start of the next capture makes an old capture look current.  (The workers'
   publication and apply_state_capture_freshness together.) *)
FreshlyCommitted ==
  \E i \in Finals : now - journal[i].start <= MaxAge
PositiveIsFresh ==
  worker \in Tracked /\ Positive(ReportedState) => FreshlyCommitted

(* A stop ends the worker, whatever the journal answers.  (The loops' conditions
   and retain's early return.) *)
WorkerEnds == stop ~> pc = "ended"
=============================================================================
