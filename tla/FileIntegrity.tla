---------------------------- MODULE FileIntegrity ----------------------------
(***************************************************************************)
(* The file-integrity worker of one configured root (collectors/           *)
(* file_integrity.cpp).  It reports a gap after a restart, arms the native *)
(* watcher, walks the tree as a baseline with one committed record per     *)
(* entry, and then turns notifications into batches; a batch or a buffer   *)
(* that lost something is committed as a gap and the baseline is repeated. *)
(* The walk ends early at any of its bounds, and its manifest claims       *)
(* complete coverage only if nothing was refused on the way.               *)
(*                                                                         *)
(* Entries are names in a fixed tree; what the file system answers for     *)
(* each is a choice.  Hashing an entry changes no state.                   *)
(***************************************************************************)
EXTENDS Naturals, Sequences, FiniteSets

CONSTANTS None, Root,
          Entries, Directories,  \* Directories is a subset of Entries
          Parent,                \* the directory of every entry
          Limits,                \* sets of bounds: records [candidates, directories, depth]
          MaxBaselines           \* bound: walks of one behaviour

VARIABLES limits, recursive, same,  \* configuration; does the root still match?
          saved,                    \* is there a durable checkpoint?
          pc, stop,
          stack, dir, todo,         \* the walk: directories to visit, the one open, entries left in it
          child,                    \* the entry being recorded
          candidates, visited, coverage,
          armed,                    \* request_pending
          notified,                 \* what the watcher has for us: nothing, "changes" or "overflow"
          entry,                    \* the record offered, and where to go when it is accepted
          listed, manifest,         \* entries with a record of this walk; the last manifest
          baselines

walk == <<stack, dir, todo, child, candidates, visited, coverage>>
env == <<limits, recursive, same>>
vars == <<env, saved, pc, stop, walk, armed, notified, entry, listed, manifest, baselines>>

Init ==
  /\ limits \in Limits /\ recursive \in BOOLEAN /\ same = TRUE
  /\ saved \in BOOLEAN /\ pc = "start" /\ stop = FALSE
  /\ stack = <<>> /\ dir = None /\ todo = {} /\ child = None /\ candidates = 0 /\ visited = {} /\ coverage = TRUE
  /\ armed = FALSE /\ notified = None
  /\ entry = None /\ listed = {} /\ manifest = None /\ baselines = 0

Depth[e \in Entries \cup {Root}] == IF e = Root THEN 0 ELSE Depth[Parent[e]] + 1
Children(d) == {e \in Entries : Parent[e] = d}

-----------------------------------------------------------------------------
(* accept: offered again until it is accepted or the worker is stopped. *)
Offer(phase, of, next) == entry' = [phase |-> phase, of |-> of, next |-> next] /\ pc' = "accept"

Refused == pc = "accept" /\ ~stop /\ UNCHANGED vars

Accepted ==
  /\ pc = "accept" /\ ~stop
  /\ saved' = TRUE
  /\ listed' = CASE entry.phase = "begin" -> {}
                 [] entry.phase = "candidate" -> listed \cup {entry.of}
                 [] OTHER -> listed
  /\ manifest' = CASE entry.phase = "begin" -> None
                   [] entry.phase = "manifest" -> [complete |-> coverage]
                   [] OTHER -> manifest
  /\ pc' = entry.next /\ entry' = None
  /\ UNCHANGED <<env, stop, walk, armed, notified, baselines>>

-----------------------------------------------------------------------------
(* run: the watcher is opened by handle and must still be the root. *)
Start ==
  /\ pc = "start"
  /\ \/ ~same /\ pc' = "ended" /\ entry' = None
     \/ same /\ saved /\ Offer("gap", None, "arm")
     \/ same /\ ~saved /\ pc' = "arm" /\ entry' = None
  /\ UNCHANGED <<env, saved, stop, walk, armed, notified, listed, manifest, baselines>>

Arm ==
  /\ pc = "arm"
  /\ \/ armed' = TRUE /\ pc' = "begin"
     \/ armed' = FALSE /\ pc' = "drain"
  /\ UNCHANGED <<env, saved, stop, walk, notified, entry, listed, manifest, baselines>>

(* baseline *)
Begin ==
  /\ pc = "begin" /\ baselines < MaxBaselines
  /\ baselines' = baselines + 1
  /\ Offer("begin", None, "walk")
  /\ stack' = <<Root>> /\ dir' = None /\ todo' = {} /\ candidates' = 0
  /\ visited' = {Root} /\ coverage' = TRUE
  /\ UNCHANGED <<env, saved, stop, child, armed, notified, listed, manifest>>

(* The record of an entry: what its handle tells, and its hash within the
   budget.  An entry that cannot be read or hashed still has its record. *)
Record(e) == Offer("candidate", e, "walk")

Pop == stack' = SubSeq(stack, 1, Len(stack) - 1)

(* The next directory: the root must still match, the directory must reopen
   as the one that was pushed. *)
OpenDirectory ==
  /\ pc = "walk" /\ ~stop /\ dir = None /\ stack # <<>>
  /\ Pop
  /\ \/ ~same /\ Offer("gap", None, "drain") /\ UNCHANGED <<dir, coverage>>
     \/ /\ same /\ stack[Len(stack)] # Root
        /\ coverage' = FALSE /\ Offer("gap", None, "walk") /\ UNCHANGED dir
     \/ same /\ dir' = stack[Len(stack)] /\ pc' = "find" /\ UNCHANGED <<entry, coverage>>
  /\ UNCHANGED <<env, saved, stop, todo, child, candidates, visited, armed, notified, listed, manifest, baselines>>

(* FindFirstFile goes by path.  A root path that is not found counts as an
   empty directory; any other failure is told. *)
FindFirst ==
  /\ pc = "find"
  /\ \/ same /\ todo' = Children(dir) /\ pc' = "walk" /\ UNCHANGED <<dir, coverage, entry>>
     \/ /\ ~same /\ dir = Root
        /\ dir' = None /\ pc' = "walk" /\ UNCHANGED <<todo, coverage, entry>>
     \/ coverage' = FALSE /\ dir' = None /\ Offer("gap", None, "walk") /\ UNCHANGED todo
  /\ UNCHANGED <<env, saved, stop, stack, child, candidates, visited, armed, notified, listed, manifest, baselines>>

(* The entry that FindNextFile gives next. *)
Take(e) == todo' = todo \ {e} /\ candidates' = candidates + 1

AtCandidateLimit ==
  /\ pc = "walk" /\ ~stop /\ dir # None /\ todo # {}
  /\ candidates + 1 > limits.candidates
  /\ \E e \in todo : Take(e)
  /\ Offer("gap", None, "watch")
  /\ UNCHANGED <<env, saved, stop, stack, dir, child, visited, coverage, armed, notified, listed, manifest, baselines>>

(* A path out of bounds, a reparse point, an object outside the root or one
   that does not open: told, and coverage is no longer complete. *)
Skip ==
  /\ pc = "walk" /\ ~stop /\ dir # None /\ candidates + 1 <= limits.candidates
  /\ \E e \in todo : Take(e)
  /\ coverage' = FALSE
  /\ Offer("skip", None, "walk")
  /\ UNCHANGED <<env, saved, stop, stack, dir, child, visited, armed, notified, listed, manifest, baselines>>

(* Mutant: a directory beyond the depth bound does not spoil coverage. *)
ChildTooDeepQuietly ==
  /\ child' \in Directories /\ recursive
  /\ Depth[dir] + 1 > limits.depth
  /\ Offer("gap", None, "row") /\ UNCHANGED <<stack, visited, coverage>>

(* What becomes of a directory the walk could enter: refused as outside or
   already visited, too deep, one too many (the walk ends), or pushed. *)
ChildRefused ==
  /\ child' \in Directories /\ recursive
  /\ coverage' = FALSE /\ Offer("skip", None, "row") /\ UNCHANGED <<stack, visited>>

ChildTooDeep ==
  /\ child' \in Directories /\ recursive
  /\ Depth[dir] + 1 > limits.depth
  /\ coverage' = FALSE /\ Offer("gap", None, "row") /\ UNCHANGED <<stack, visited>>

ChildTooMany ==
  /\ child' \in Directories /\ recursive
  /\ Depth[dir] + 1 <= limits.depth /\ Cardinality(visited) >= limits.directories
  /\ coverage' = FALSE /\ Offer("gap", None, "watch") /\ UNCHANGED <<stack, visited>>

ChildPushed ==
  /\ child' \in Directories /\ recursive
  /\ Depth[dir] + 1 <= limits.depth /\ Cardinality(visited) < limits.directories
  /\ stack' = Append(stack, child') /\ visited' = visited \cup {child'}
  /\ Record(child') /\ UNCHANGED coverage

ChildPlain ==
  /\ ~(child' \in Directories /\ recursive)
  /\ Record(child') /\ UNCHANGED <<stack, visited, coverage>>

Observe ==
  /\ pc = "walk" /\ ~stop /\ dir # None /\ candidates + 1 <= limits.candidates
  /\ \E e \in todo : Take(e) /\ child' = e
  /\ ChildRefused \/ ChildTooDeep \/ ChildTooMany \/ ChildPushed \/ ChildPlain
  /\ UNCHANGED <<env, saved, stop, dir, armed, notified, listed, manifest, baselines>>

(* A directory that was told as refused still gets its own record. *)
Row ==
  /\ pc = "row" /\ Record(child)
  /\ UNCHANGED <<env, saved, stop, walk, armed, notified, listed, manifest, baselines>>

(* FindNextFile ends, or fails, which ends the walk without a manifest. *)
EndDirectory ==
  /\ pc = "walk" /\ ~stop /\ dir # None
  /\ \/ todo = {} /\ dir' = None /\ UNCHANGED <<pc, entry>>
     \/ Offer("gap", None, "watch") /\ dir' = None
  /\ UNCHANGED <<env, saved, stop, stack, todo, candidates, visited, coverage, child,
                 armed, notified, listed, manifest, baselines>>

Finish ==
  /\ pc = "walk" /\ ~stop /\ dir = None /\ stack = <<>>
  /\ Offer("manifest", None, "watch")
  /\ UNCHANGED <<env, saved, stop, walk, armed, notified, listed, manifest, baselines>>

-----------------------------------------------------------------------------
(* The loop after the baseline. *)
RootLost ==
  /\ pc = "watch" /\ ~stop /\ notified = None /\ ~same
  /\ Offer("gap", None, "drain")
  /\ UNCHANGED <<env, saved, stop, walk, armed, notified, listed, manifest, baselines>>

(* process_batch: a batch over its bound, malformed or with a refused path is
   told as a gap and starts a new walk; a root that changed ends the worker. *)
Batch ==
  \/ Offer("gap", None, "begin")
  \/ same /\ Offer("batch", None, "watch")
  \/ ~same /\ Offer("gap", None, "drain")

(* A completed request is rearmed before anything else happens.  What it
   lost is told as a gap, and the tree is walked again. *)
Completed ==
  /\ pc = "watch" /\ ~stop /\ notified # None
  /\ notified' = None
  /\ \/ armed' = FALSE /\ pc' = "drain" /\ entry' = None
     \/ /\ armed' = TRUE
        /\ \/ notified = "overflow" /\ Offer("gap", None, "begin")
           \/ notified = "changes" /\ Batch
  /\ UNCHANGED <<env, saved, stop, walk, listed, manifest, baselines>>

(* A checkpoint that cannot be loaded, or a native call that fails. *)
Throws ==
  /\ pc \in {"start", "walk", "find", "watch"} /\ ~stop
  /\ pc' = "drain" /\ entry' = None
  /\ UNCHANGED <<env, saved, stop, walk, armed, notified, listed, manifest, baselines>>

(* accept, baseline and the loop all give up when stop is requested. *)
Stopped ==
  /\ stop /\ pc \in {"accept", "walk", "watch", "begin"}
  /\ pc' = "drain" /\ entry' = None
  /\ UNCHANGED <<env, saved, stop, walk, armed, notified, listed, manifest, baselines>>

Drain ==
  /\ pc = "drain"
  /\ armed' = FALSE /\ pc' = "ended"
  /\ UNCHANGED <<env, saved, stop, walk, notified, entry, listed, manifest, baselines>>

-----------------------------------------------------------------------------
(* The host. *)
Change ==
  /\ armed /\ notified' = IF notified = None THEN "changes" ELSE "overflow"
  /\ UNCHANGED <<env, saved, pc, stop, walk, armed, entry, listed, manifest, baselines>>

RootChanges ==
  /\ same /\ same' = FALSE
  /\ UNCHANGED <<limits, recursive, saved, pc, stop, walk, armed, notified, entry, listed, manifest, baselines>>

RequestStop ==
  /\ ~stop /\ stop' = TRUE
  /\ UNCHANGED <<env, saved, pc, walk, armed, notified, entry, listed, manifest, baselines>>

Work == \/ Accepted \/ Start \/ Arm \/ Begin \/ OpenDirectory \/ FindFirst
        \/ AtCandidateLimit \/ Skip \/ Observe
        \/ Row \/ EndDirectory \/ Finish \/ RootLost \/ Completed \/ Stopped \/ Drain
Next == Work \/ Refused \/ Throws \/ Change \/ RootChanges \/ RequestStop
Spec == Init /\ [][Next]_vars /\ WF_vars(Work)

-----------------------------------------------------------------------------
Scope == IF recursive THEN Entries ELSE Children(Root)

(* A manifest that claims complete coverage stands at the end of a walk that
   committed a record for every entry of the scope, whatever was refused,
   skipped or cut off by a bound on the way, as long as the root is still the
   one that was admitted (otherwise the watcher's next time-out tells); and
   the watcher is armed during every walk, so that what changes behind the
   walk is notified. *)
CoverageIsWhole ==
  /\ (manifest # None /\ manifest.complete /\ same) => Scope \subseteq listed
  /\ pc \in {"walk", "find", "row"} => armed

(* A worker asked to stop ends, in the middle of a walk or of a refusal. *)
WorkerEnds == stop ~> pc = "ended"
=============================================================================
