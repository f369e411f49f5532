----------------------------- MODULE Collectors -----------------------------
(***************************************************************************)
(* One run of an inventory collector of src/state/.  A collector walks one *)
(* or more native partitions (a registry key, a WMI class, a table), turns *)
(* every item into a row and hands the rows to its consumer in bounded     *)
(* pages; its last word is a manifest that may claim the enumeration to be *)
(* complete.  Cancellation, the soft time budget, native errors, bounds    *)
(* and a consumer that refuses a page may cut the walk short anywhere.     *)
(* `size' is what the host really has; the collector sees it item by item. *)
(***************************************************************************)
EXTENDS Naturals, Sequences

CONSTANTS PageEntries,   \* rows of a page
          PageLimit,     \* pages of one collection
          TotalEntries,  \* rows of one collection
          ItemLimit,     \* index bound of a walk that has one (64, 256, 1024)
          MaxItems       \* items of a partition

VARIABLES collector,     \* which collector runs
          size,          \* ghost: the items of each partition
          left,          \* ghost: the items not read yet
          part, phase,   \* the walk: "open", "read", "finish", "done"
          pager,         \* rows held, rows delivered, pages, and the flags
          complete,      \* the collector's own judgement of the walk so far
          halted,        \* the collection is cancelled or its soft budget has run out
          table,         \* per table: "unqueried", "healthy", "degraded", "unavailable"
          manifest       \* the partitions the manifest claims to be enumerated

vars == <<collector, size, left, part, phase, pager, complete, halted,
          table, manifest>>

Parts == 1 .. 2
Note == 0    \* rows about the walk itself: refusals, scans, summaries
Single == {"logons", "terminal", "threads", "defender", "process", "service",
           "driver", "firewall_rules"}
Tables == {"sockets", "routes", "ip_interfaces"}
Walked == {"startup", "registry_mechanism", "tasks", "wmi", "msi", "uninstall",
           "accounts", "groups", "browser", "dns", "remote_access"}

Init ==
    /\ collector \in Single \cup Tables \cup Walked
    /\ size \in [Parts -> 0 .. MaxItems]
    /\ collector \in Single => size[2] = 0
    /\ left = size /\ part = 1 /\ phase = "open"
    /\ pager = [rows |-> <<>>, delivered |-> [p \in Parts \cup {Note} |-> 0], pages |-> 0,
                bounded |-> FALSE, refused |-> FALSE, stopped |-> FALSE]
    /\ complete = TRUE /\ halted = FALSE
    /\ table = [p \in Parts |-> "unqueried"] /\ manifest = {}

-----------------------------------------------------------------------------
(* The pager.                                                              *)

Entries(p) == p.delivered[0] + p.delivered[1] + p.delivered[2] + Len(p.rows)

Arrived(p) ==
    [r \in DOMAIN p.delivered |->
        p.delivered[r] + Len(SelectSeq(p.rows, LAMBDA row : row = r))]

Active(p) == [p EXCEPT !.stopped = @ \/ halted]

Flush(p, accepted) ==
    IF p.rows = <<>> THEN p
    ELSE IF p.pages >= PageLimit THEN [p EXCEPT !.bounded = TRUE, !.stopped = TRUE]
    ELSE IF accepted
         THEN [p EXCEPT !.pages = @ + 1, !.rows = <<>>, !.delivered = Arrived(p)]
         ELSE [p EXCEPT !.pages = @ + 1, !.rows = <<>>, !.refused = TRUE, !.stopped = TRUE]

\* A plausible slip: the row over the limit is dropped, but the pager is not marked.
AddQuietlyFull(p, row, big, full, accepted) ==
    LET a == Active(p)
        f == IF a.rows # <<>> /\ (Len(a.rows) >= PageEntries \/ full) THEN Flush(a, accepted) ELSE a
    IN  IF a.stopped \/ Entries(a) >= TotalEntries THEN a
        ELSE IF f.stopped THEN f
        ELSE [f EXCEPT !.rows = Append(@, row), !.bounded = @ \/ big]

\* Pager::add.  A row too big for a page is replaced by a refusal that counts as bounded.
Add(p, row, big, full, accepted) ==
    LET a == Active(p)
        f == IF a.rows # <<>> /\ (Len(a.rows) >= PageEntries \/ full) THEN Flush(a, accepted) ELSE a
    IN  IF a.stopped THEN a
        ELSE IF Entries(a) >= TotalEntries THEN [a EXCEPT !.bounded = TRUE, !.stopped = TRUE]
        ELSE IF f.stopped THEN [f EXCEPT !.bounded = @ \/ big]
        ELSE [f EXCEPT !.rows = Append(@, row), !.bounded = @ \/ big]

\* The collectors with their own pages stop at a row that is too big.
Place(p, row, big, full, accepted) ==
    LET f == IF p.rows # <<>> /\ (Len(p.rows) >= PageEntries \/ full \/ big)
             THEN Flush(p, accepted) ELSE p
    IN  IF f.stopped THEN f
        ELSE IF big THEN [f EXCEPT !.bounded = TRUE, !.stopped = TRUE]
        ELSE [f EXCEPT !.rows = Append(@, row)]

Put(p, row, big, full, accepted) ==
    IF p.stopped THEN p
    ELSE IF Entries(p) >= TotalEntries THEN [p EXCEPT !.bounded = TRUE, !.stopped = TRUE]
    ELSE Place(p, row, big, full, accepted)

\* The DNS writer watches cancellation and budget at every row, and bounds no total.
Write(p, row, big, full, accepted) ==
    LET a == Active(p) IN IF a.stopped THEN a ELSE Place(a, row, big, full, accepted)

Unpaged == {"process", "service", "driver", "firewall_rules"} \cup Tables

Offer(p, row, big, full, accepted) ==
    CASE collector \in Unpaged -> Put(p, row, big, full, accepted)
      [] collector = "dns"     -> Write(p, row, big, full, accepted)
      [] OTHER                 -> Add(p, row, big, full, accepted)

\* What a call of active() leaves behind: the pager remembers that it was told to stop.
Noticed == IF collector \in Unpaged THEN pager ELSE Active(pager)
Stopped == Noticed.stopped

-----------------------------------------------------------------------------
(* The events of a walk; each collector below says which it has.           *)

Last == IF collector \in Single THEN 1 ELSE 2
Fixed == UNCHANGED <<collector, size, halted>>
Keep == Fixed /\ UNCHANGED <<table, manifest>>

Onwards == IF part = Last THEN phase' = "finish" /\ part' = part
                          ELSE phase' = "open" /\ part' = part + 1

\* The partition is left with this verdict, and perhaps a row that says so.
LeaveWith(p, whole, note) ==
    /\ complete' = (complete /\ whole)
    /\ IF note THEN \E full, accepted \in BOOLEAN : pager' = Offer(p, Note, FALSE, full, accepted)
               ELSE pager' = p
    /\ Onwards /\ UNCHANGED left /\ Keep
Leave(whole, note) == LeaveWith(pager, whole, note)

\* Nothing more is walked.
Quit(whole) ==
    /\ complete' = (complete /\ whole) /\ pager' = Noticed
    /\ phase' = "finish" /\ UNCHANGED <<part, left>> /\ Keep

Opens == /\ phase = "open" /\ ~Stopped
         /\ phase' = "read" /\ UNCHANGED <<part, pager, left, complete>> /\ Keep
Absent(note) == phase = "open" /\ ~Stopped /\ size[part] = 0 /\ Leave(TRUE, note)
OpenFails(note) == phase = "open" /\ ~Stopped /\ Leave(FALSE, note)
SourceFails == phase = "open" /\ part = 1 /\ Quit(FALSE)
Skips(whole) == phase = "open" /\ Stopped /\ Quit(whole)

\* The item has a row, whatever the queries about its details have answered.
Read == /\ phase = "read" /\ ~Stopped /\ left[part] > 0
        /\ left' = [left EXCEPT ![part] = @ - 1]
        /\ \E big, full, accepted \in BOOLEAN :
               pager' = Offer(pager, part, big, full, accepted)
        /\ UNCHANGED <<part, phase, complete>> /\ Keep
\* An item that cannot be read leaves an error row in its place.
Unreadable == /\ phase = "read" /\ ~Stopped /\ left[part] > 0
              /\ left' = [left EXCEPT ![part] = @ - 1]
              /\ \E full, accepted \in BOOLEAN :
                     pager' = Offer(pager, Note, FALSE, full, accepted)
              /\ complete' = FALSE
              /\ UNCHANGED <<part, phase>> /\ Keep
\* The native end of the partition is seen before cancellation is asked for again.
Ends(note) == phase = "read" /\ ~pager.stopped /\ left[part] = 0 /\ Leave(TRUE, note)
ReadFails(note) == phase = "read" /\ ~Stopped /\ Leave(FALSE, note)
Interrupted(whole, note) == phase = "read" /\ Stopped /\ LeaveWith(Noticed, whole, note)
Index == size[part] - left[part]
AtIndexLimit(whole, note) ==
    phase = "read" /\ ~Stopped /\ Index = ItemLimit /\ Leave(whole, note)
\* The DNS walks mark the writer itself when they meet their limit.
AtWriterLimit(whole) ==
    /\ phase = "read" /\ ~Stopped /\ left[part] > 0 /\ Index = ItemLimit
    /\ LeaveWith([pager EXCEPT !.bounded = TRUE, !.stopped = TRUE], whole, FALSE)

\* The manifest, with the last page.
Finish(p, flushes) ==
    /\ phase = "finish" /\ phase' = "done"
    /\ \E accepted \in BOOLEAN : pager' = IF flushes THEN Flush(p, accepted) ELSE p
    /\ manifest' = IF complete /\ ~pager'.stopped /\ ~pager'.bounded THEN Parts ELSE {}
    /\ UNCHANGED <<left, part, complete, table>> /\ Fixed
PagerFinish == Finish(pager, ~pager.refused)
HeldFinish == Finish(Noticed, ~Stopped)

-----------------------------------------------------------------------------
(* Collectors on the pager.                                                *)

\* Run keys, logon and load values of both views, user hives, startup folders.  Some
\* keys that are passed over clear complete, the others rely on the pager.
Startup ==
    /\ collector = "startup"
    /\ \/ Absent(TRUE) \/ OpenFails(TRUE) \/ Opens \/ Skips(FALSE) \/ Skips(TRUE)
       \/ Read \/ Unreadable \/ ReadFails(TRUE) \/ Ends(TRUE) \/ Interrupted(FALSE, TRUE)
       \/ AtIndexLimit(FALSE, FALSE)
       \/ PagerFinish

\* Keys and subkeys of one persistence mechanism, per machine and per user hive.
RegistryMechanism ==
    /\ collector = "registry_mechanism"
    /\ \/ Absent(TRUE) \/ OpenFails(TRUE) \/ Opens \/ Skips(FALSE)
       \/ Read \/ Unreadable \/ ReadFails(TRUE) \/ Ends(TRUE) \/ Interrupted(FALSE, TRUE)
       \/ AtIndexLimit(FALSE, TRUE)
       \/ PagerFinish

\* The folder tree of the task service; a partition is a folder.
Tasks ==
    /\ collector = "tasks"
    /\ \/ SourceFails \/ OpenFails(TRUE) \/ Opens \/ Skips(FALSE)
       \/ Read \/ Unreadable \/ Ends(TRUE) \/ Interrupted(FALSE, TRUE)
       \/ AtIndexLimit(FALSE, TRUE)
       \/ PagerFinish

\* Subscription classes of the namespaces; a query that stalls is given up.
Wmi ==
    /\ collector = "wmi"
    /\ \/ SourceFails \/ OpenFails(TRUE) \/ Opens \/ Skips(FALSE) \/ Skips(TRUE)
       \/ Read \/ ReadFails(TRUE) \/ Ends(TRUE) \/ Interrupted(FALSE, TRUE)
       \/ PagerFinish

\* Installer products per context.
Msi ==
    /\ collector = "msi"
    /\ \/ Opens \/ Skips(FALSE)
       \/ Read \/ ReadFails(TRUE) \/ Ends(FALSE) \/ Interrupted(FALSE, FALSE)
       \/ PagerFinish

\* Uninstall keys of both views and of the loaded user hives.  A product whose own key
\* cannot be opened keeps its row, and the partition its verdict.
Uninstall ==
    /\ collector = "uninstall"
    /\ \/ Absent(TRUE) \/ OpenFails(TRUE) \/ Opens \/ Skips(FALSE)
       \/ Read \/ ReadFails(TRUE) \/ Ends(FALSE) \/ Interrupted(FALSE, FALSE)
       \/ AtIndexLimit(FALSE, FALSE)
       \/ PagerFinish

\* Resumed enumerations; a call that neither reads nor moves its handle ends them.
Accounts ==
    /\ collector = "accounts"
    /\ \/ Opens \/ Skips(FALSE)
       \/ Read \/ ReadFails(FALSE) \/ Ends(FALSE) \/ Interrupted(FALSE, FALSE)
       \/ PagerFinish

Groups ==
    /\ collector = "groups"
    /\ \/ SourceFails \/ OpenFails(TRUE) \/ Opens \/ Skips(FALSE)
       \/ Read \/ ReadFails(TRUE) \/ Ends(TRUE) \/ Interrupted(FALSE, TRUE)
       \/ PagerFinish

\* Lists that arrive in one call and are then walked by index.
Logons ==
    /\ collector = "logons"
    /\ \/ SourceFails \/ Opens \/ Skips(FALSE)
       \/ Read \/ Ends(FALSE) \/ Interrupted(FALSE, FALSE)
       \/ PagerFinish

Terminal ==
    /\ collector = "terminal"
    /\ \/ SourceFails \/ Opens \/ Skips(FALSE)
       \/ Read \/ Ends(FALSE) \/ Interrupted(FALSE, FALSE)
       \/ PagerFinish

Threads ==
    /\ collector = "threads"
    /\ \/ SourceFails \/ Opens
       \/ Read \/ ReadFails(FALSE) \/ Ends(FALSE) \/ Interrupted(FALSE, FALSE)
       \/ PagerFinish

\* Profiles under the browser roots; an absent root is complete, a bound is not.  A
\* reparse entry is not followed: the row that says so is its row, and complete stays.
Browser ==
    /\ collector = "browser"
    /\ \/ Absent(TRUE) \/ OpenFails(TRUE) \/ Opens \/ Skips(TRUE)
       \/ Read \/ Unreadable \/ ReadFails(TRUE) \/ Ends(TRUE) \/ Interrupted(FALSE, FALSE)
       \/ AtIndexLimit(FALSE, TRUE)
       \/ PagerFinish

\* Sessions, open files, services and RDP settings, then the WinRM listeners.  A list of
\* sessions that is cut short inside a buffer, or a listener walk, relies on the pager.
\* The walk over the listeners ends at its index limit without a word.
Listeners == 2
RemoteAccess ==
    /\ collector = "remote_access"
    /\ \/ Absent(FALSE) \/ OpenFails(part # Listeners) \/ Opens \/ Skips(TRUE)
       \/ ((part = Listeners => Index < ItemLimit) /\ (Read \/ Unreadable))
       \/ ReadFails(part # Listeners) \/ (part # Listeners /\ ReadFails(FALSE))
       \/ Ends(FALSE) \/ Interrupted(TRUE, FALSE) \/ (part # Listeners /\ Interrupted(FALSE, FALSE))
       \/ (part = Listeners /\ AtIndexLimit(TRUE, FALSE))
       \/ PagerFinish

\* One WMI query with its own pages, which behave as the pager's do.
Defender ==
    /\ collector = "defender"
    /\ \/ SourceFails \/ Opens \/ Skips(FALSE)
       \/ Read \/ ReadFails(FALSE) \/ Ends(FALSE) \/ Interrupted(FALSE, FALSE)
       \/ (phase = "read" /\ Entries(pager) >= TotalEntries /\ Leave(FALSE, FALSE))
       \/ PagerFinish

\* Adapters, then policy rules; a note on what cannot be observed comes last.  A list of
\* adapters that is cut short relies on the writer's flags.
Dns ==
    /\ collector = "dns"
    /\ \/ Absent(part = 2) \/ OpenFails(part = 2) \/ Opens \/ Skips(TRUE)
       \/ Read \/ Unreadable \/ (part = 1 /\ ReadFails(TRUE)) \/ Ends(part = 2)
       \/ Interrupted(part = 1, FALSE) \/ AtWriterLimit(part = 1)
       \/ HeldFinish

-----------------------------------------------------------------------------
(* Collectors with their own pages.                                        *)

Process ==
    /\ collector = "process"
    /\ \/ SourceFails \/ Opens
       \/ Read \/ ReadFails(FALSE) \/ Ends(FALSE) \/ Interrupted(FALSE, FALSE)
       \/ PagerFinish

Service ==
    /\ collector = "service"
    /\ \/ SourceFails \/ Opens
       \/ Read \/ ReadFails(FALSE) \/ Ends(FALSE) \/ Interrupted(FALSE, FALSE)
       \/ PagerFinish

\* One call returns every address; completeness is that nothing was refused or bounded.
Driver ==
    /\ collector = "driver"
    /\ \/ SourceFails \/ Opens
       \/ Read \/ Ends(FALSE) \/ Interrupted(TRUE, FALSE)
       \/ HeldFinish

FirewallRules ==
    /\ collector = "firewall_rules"
    /\ \/ SourceFails \/ Opens
       \/ Read \/ ReadFails(FALSE) \/ Ends(FALSE) \/ Interrupted(FALSE, FALSE)
       \/ HeldFinish

-----------------------------------------------------------------------------
(* Collectors of whole tables.  A table that is not queried any more after *)
(* a refusal or a bound is unavailable.                                    *)

TableFails ==
    /\ phase = "open"
    /\ table' = [table EXCEPT ![part] = "unavailable"]
    /\ Onwards /\ UNCHANGED <<pager, left, complete, manifest>> /\ Fixed

TableMoves(state) ==
    /\ table' = [table EXCEPT ![part] = state]
    /\ Onwards /\ UNCHANGED <<left, complete, manifest>> /\ Fixed

TablesFinish(p, states) ==
    /\ phase = "finish" /\ phase' = "done"
    /\ pager' = p /\ table' = states
    /\ manifest' = {t \in Parts : states[t] = "healthy"}
    /\ UNCHANGED <<left, part, complete>> /\ Fixed

\* Rows of several tables share a page, so whether a table arrived is judged at the end.
Sockets ==
    /\ collector = "sockets"
    /\ \/ TableFails \/ Opens \/ Read
       \/ /\ phase = "read" /\ (left[part] = 0 \/ pager.stopped)
          /\ UNCHANGED pager /\ TableMoves("healthy")
       \/ /\ phase = "read" /\ left[part] > 0 /\ size[part] - left[part] = ItemLimit
          /\ UNCHANGED pager /\ TableMoves("degraded")
       \/ \E accepted \in BOOLEAN :
              LET p == IF pager.stopped THEN pager ELSE Flush(pager, accepted)
              IN  TablesFinish(p, [t \in Parts |->
                      IF table[t] = "healthy" /\ p.delivered[t] # size[t] THEN "degraded"
                      ELSE table[t]])

\* Every table ends its own page; rows of an unknown form degrade it.
OwnPages ==
    \/ TableFails \/ Opens \/ Read
    \/ /\ phase = "read" /\ (left[part] = 0 \/ pager.stopped)
       /\ \E unknown, accepted \in BOOLEAN :
              /\ pager' = IF pager.stopped THEN pager ELSE Flush(pager, accepted)
              /\ TableMoves(IF pager'.stopped \/ unknown THEN "degraded" ELSE "healthy")
    \/ TablesFinish(pager, table)

Routes == collector = "routes" /\ OwnPages
IpInterfaces == collector = "ip_interfaces" /\ OwnPages

-----------------------------------------------------------------------------
Halt == /\ ~halted /\ phase # "done" /\ halted' = TRUE
        /\ UNCHANGED <<collector, size, left, part, phase, pager, complete, table, manifest>>

Next ==
    \/ Startup \/ RegistryMechanism \/ Tasks \/ Wmi \/ Msi \/ Uninstall \/ Accounts \/ Groups
    \/ Logons \/ Terminal \/ Threads \/ Browser \/ RemoteAccess \/ Defender \/ Dns
    \/ Process \/ Service \/ Driver \/ FirewallRules \/ Sockets \/ Routes \/ IpInterfaces
    \/ Halt

Spec == Init /\ [][Next]_vars

-----------------------------------------------------------------------------
\* "records native query failures and incomplete partitions" (REMOTE_ACCESS_STATE.md, of
\* the collector of remote access): a manifest that claims a partition enumerated has
\* handed every item of it to the consumer in an accepted page.
ClaimIsWhole == \A p \in manifest : pager.delivered[p] = size[p]

\* What a walk may pass over in silence: the WinRM listeners from the index limit on
\* (remote_access_inventory.cpp 240-255), and nothing else.
Unseen(p) ==
    IF collector = "remote_access" /\ p = Listeners /\ size[p] > ItemLimit
    THEN size[p] - ItemLimit ELSE 0

\* A manifest that claims a partition enumerated has handed every item of it to the
\* consumer in an accepted page: whatever cut the walk short - cancellation, the budget, a
\* native error, a bound, a refused page, even the last one - is visible in the manifest.
\* The collectors rely on sticky flags of the pager instead of checking each call.  The one
\* exception is Unseen: ClaimIsWhole, without it, is violated.
CompleteIsWhole ==
    \A p \in manifest : pager.delivered[p] = size[p] - Unseen(p)

=============================================================================
