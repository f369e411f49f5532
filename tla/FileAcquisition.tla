--------------------------- MODULE FileAcquisition ---------------------------
(***************************************************************************)
(* The encrypted evidence store (forensics/file_acquisition.cpp): acquire  *)
(* for one capture id.  A call verifies what earlier calls left, reads the *)
(* held source on in chunks, renames every chunk into place, and rewrites  *)
(* the manifest after each.  The service may crash, or an operation throw, *)
(* between any two of these; the next call resumes.                        *)
(*                                                                         *)
(* A version of the source stands for its identity, path, size, write time *)
(* and contents.  Although it is held against writers, a mapped view may   *)
(* still change it.  Bytes are counted, contents are the version read.     *)
(***************************************************************************)
EXTENDS Naturals, FiniteSets, Sequences, SequencesExt

CONSTANTS None,
          Size,        \* the size of each version of the source
          ChunkBytes,  \* config.chunk_bytes
          Requests,    \* requests for this id: [cap, command, resume]
          MaxKeys      \* bound: keys ever provisioned

VARIABLES source,    \* the present version
          keyfile, keys,    \* the protected key: None or a number; keys so far
          chunks,    \* the renamed chunks, in order
          manifest,  \* None, or the last manifest that was renamed into place
          pc, request,
          key, before,      \* locals of acquire
          offset, sequence, \* next byte and chunk
          hashed,    \* what the running SHA-256 has seen
          piece,     \* the bytes just read
          state      \* the outcome so far: None or "partial"

vars == <<source, keyfile, keys, chunks, manifest, pc, request, key, before, offset, sequence,
          hashed, piece, state>>
store == <<chunks, manifest>>
local == <<key, before, offset, sequence, hashed, piece, state>>
env == <<source, keyfile, keys>>

Minimum(a, b) == IF a < b THEN a ELSE b
Extent(pieces) == FoldSeq(LAMBDA p, n : p.length + n, 0, pieces)
Limit == Minimum(request.cap, Size[before])

Init ==
  /\ source = 1 /\ keyfile = None /\ keys = 0 /\ chunks = <<>> /\ manifest = None
  /\ pc = "idle" /\ request = None /\ key = None /\ before = None
  /\ offset = 0 /\ sequence = 0 /\ hashed = <<>> /\ piece = None /\ state = None

-----------------------------------------------------------------------------
(* The host. *)
SourceChanges ==
  /\ source < Len(Size) /\ source' = source + 1
  /\ UNCHANGED <<keyfile, keys, store, pc, request, local>>

KeyLost ==
  /\ keyfile # None /\ keyfile' = None
  /\ UNCHANGED <<source, keys, store, pc, request, local>>

-----------------------------------------------------------------------------
(* Leaving acquire: a refusal, an exception, or a crash of the service.  The
   held source is released; the files stay. *)
Leave ==
  /\ pc' = "idle" /\ request' = None /\ key' = None /\ before' = None
  /\ offset' = 0 /\ sequence' = 0 /\ hashed' = <<>> /\ piece' = None /\ state' = None

Fails == pc # "idle" /\ Leave /\ UNCHANGED <<env, store>>

Request ==
  /\ pc = "idle" /\ pc' = "key"
  /\ \E r \in Requests : request' = r
  /\ UNCHANGED <<env, store, local>>

(* load_or_create_dpapi_key: an existing key is used or the call fails; a new
   one is written beside and renamed, and recovery never makes one. *)
LoadKey ==
  /\ pc = "key" /\ pc' = "open"
  /\ \/ keyfile # None /\ key' = keyfile /\ UNCHANGED <<keyfile, keys>>
     \/ /\ keyfile = None /\ ~request.resume /\ keys < MaxKeys
        /\ keys' = keys + 1 /\ keyfile' = keys + 1 /\ key' = keys + 1
  /\ UNCHANGED <<source, store, request, before, offset, sequence, hashed, piece, state>>

(* Same source, same request, and the key that signed the manifest. *)
SameCapture(m, facts) ==
  /\ m.key = key /\ m.version = facts /\ m.cap = request.cap
  /\ request.resume => m.command = request.command

(* persist_manifest: authenticated under the key of this call, written beside
   and renamed. *)
Persist(m) == manifest' = [m EXCEPT !.key = key]

NewManifest(facts) ==
  [key |-> key, version |-> facts, cap |-> request.cap, command |-> request.command,
   captured |-> 0, next |-> 0, state |-> "partial", hashed |-> None]

(* Open and hold the source; adopt the manifest or persist a first one.  A
   finished capture is answered from its manifest; everything else refuses. *)
Open ==
  /\ pc = "open" /\ before' = source
  /\ \/ /\ manifest = None /\ ~request.resume
        /\ Persist(NewManifest(source))
     \/ /\ manifest # None /\ manifest.state = "partial" /\ SameCapture(manifest, source)
        /\ UNCHANGED manifest
  /\ pc' = "verify"
  /\ UNCHANGED <<env, chunks, request, key, offset, sequence, hashed, piece, state>>

Answer ==
  /\ pc = "open" /\ manifest # None /\ manifest.state # "partial" /\ SameCapture(manifest, source)
  /\ Leave /\ UNCHANGED <<env, store>>

(* Every committed chunk is decoded at its place; all but the last are full.
   Anything else throws, see Fails. *)
Decodes(i, at) ==
  i <= Len(chunks) /\ chunks[i].key = key /\ chunks[i].offset = at

Accounted ==
  /\ manifest.captured <= Limit
  /\ manifest.next = (manifest.captured + ChunkBytes - 1) \div ChunkBytes

Verify ==
  /\ pc = "verify" /\ Accounted
  /\ \A i \in 1..manifest.next :
       /\ Decodes(i, Extent(SubSeq(chunks, 1, i - 1)))
       /\ i < manifest.next => chunks[i].length = ChunkBytes
  /\ LET committed == SubSeq(chunks, 1, manifest.next) IN
       /\ Extent(committed) = manifest.captured
       /\ hashed' = committed
  /\ offset' = manifest.captured /\ sequence' = manifest.next
  /\ pc' = "read"
  /\ UNCHANGED <<env, store, request, key, before, piece, state>>

-----------------------------------------------------------------------------
Take == Minimum(ChunkBytes, Limit - offset)

(* encode_chunk: the bytes are sealed with the key, and their place is part of
   what the seal covers. *)
Encoded(got) == [key |-> key, version |-> source, offset |-> offset, length |-> got]

(* The source may end early or give less than asked. *)
Read ==
  /\ pc = "read" /\ offset < Limit
  /\ \E got \in 0..Take :
       IF got = 0
         THEN state' = "partial" /\ pc' = "after" /\ UNCHANGED <<piece, hashed>>
         ELSE /\ piece' = Encoded(got) /\ hashed' = Append(hashed, Encoded(got))
              /\ pc' = "chunk" /\ UNCHANGED state
  /\ UNCHANGED <<env, store, request, key, before, offset, sequence>>

AllRead ==
  /\ pc = "read" /\ offset = Limit /\ pc' = "after"
  /\ UNCHANGED <<env, store, request, local>>

(* Mutant: an orphan is adopted because its place fits. *)
CommitChunkAdopting ==
  /\ pc = "chunk" /\ pc' = "manifest"
  /\ \/ sequence < Len(chunks) /\ Decodes(sequence + 1, offset) /\ UNCHANGED chunks
     \/ sequence = Len(chunks) /\ chunks' = Append(chunks, piece)
  /\ UNCHANGED <<env, manifest, request, local>>

(* The chunk a crash left behind is adopted only if it holds the very bytes;
   otherwise the new one is renamed into place. *)
CommitChunk ==
  /\ pc = "chunk" /\ pc' = "manifest"
  /\ \/ sequence < Len(chunks) /\ chunks[sequence + 1] = piece /\ UNCHANGED chunks
     \/ sequence = Len(chunks) /\ chunks' = Append(chunks, piece)
  /\ UNCHANGED <<env, manifest, request, local>>

CommitManifest ==
  /\ pc = "manifest"
  /\ offset' = offset + piece.length /\ sequence' = sequence + 1
  /\ Persist([manifest EXCEPT !.captured = offset', !.next = sequence', !.state = "partial"])
  /\ IF piece.length = Take THEN pc' = "read" /\ UNCHANGED state
                            ELSE pc' = "after" /\ state' = "partial"
  /\ piece' = None
  /\ UNCHANGED <<env, chunks, request, key, before, hashed>>

(* The facts of the held source are read again before the capture is called
   anything but partial. *)
Outcome ==
  IF state = "partial" \/ source # before THEN "partial"
  ELSE IF offset < Size[before] THEN "truncated" ELSE "complete"

Conclude ==
  /\ pc = "after"
  /\ Persist([manifest EXCEPT !.captured = offset, !.next = sequence, !.state = Outcome,
                               !.hashed = hashed])
  /\ Leave /\ UNCHANGED <<env, chunks>>

-----------------------------------------------------------------------------
Next ==
  \/ SourceChanges \/ KeyLost \/ Fails \/ Request \/ LoadKey \/ Open \/ Answer \/ Verify
  \/ Read \/ AllRead \/ CommitChunk \/ CommitManifest \/ Conclude
Spec == Init /\ [][Next]_vars

-----------------------------------------------------------------------------
Committed == SubSeq(chunks, 1, manifest.next)

(* Whatever crashes, lost keys and changes of the source came between, the
   manifest describes the stored chunks: they are there, they join, and they
   are as long as it says.  A capture called complete or truncated consists of
   one version of the source, the one it names, up to its size or the cap, and
   its digest is the digest of exactly these chunks. *)
EvidenceWhole ==
  manifest # None =>
    /\ manifest.next <= Len(chunks)
    /\ \A i \in 1..manifest.next : chunks[i].offset = Extent(SubSeq(chunks, 1, i - 1))
    /\ manifest.captured = Extent(Committed)
    /\ manifest.state # "partial" =>
         /\ \A i \in 1..manifest.next : chunks[i].version = manifest.version /\ chunks[i].key = manifest.key
         /\ manifest.captured = Minimum(manifest.cap, Size[manifest.version])
         /\ (manifest.state = "complete") <=> (manifest.captured = Size[manifest.version])
         /\ manifest.hashed = Committed
=============================================================================
