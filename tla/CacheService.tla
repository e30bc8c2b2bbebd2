------------------------------ MODULE CacheService ------------------------------
(***************************************************************************)
(* The Actions cache service, src/api/cache_server.rs: saving an archive   *)
(* by the v1 protocol (reserve, upload chunks, commit) and by the v2       *)
(* (Twirp) protocol (create, upload to S3, finalize), the index file that  *)
(* every change rewrites, and a restart from that file.                    *)
(*                                                                         *)
(* Each client saves one archive under one key (a key here is a key with   *)
(* its version).  A handler's steps are the code between two awaits; the   *)
(* write guard of entries waits for the read guards, and save_index holds  *)
(* a read guard while it writes <index>.tmp and renames it.  All savers    *)
(* share that one temporary path.                                          *)
(*                                                                         *)
(* A failed S3 upload or download changes no state and is left out; so are *)
(* I/O errors of the local disk other than a rename that finds no file.    *)
(* Definitions named Wrong_... are plausible bugs that the properties are  *)
(* tested against; no specification uses them.                             *)
(***************************************************************************)
EXTENDS Integers, Sequences, FiniteSets

CONSTANTS
  Clients,     \* the jobs that save an archive
  KeyOf,       \* the key (and version) a client saves under
  V2,          \* the clients that speak the v2 protocol
  MaxRestarts, \* how often the process restarts (a bound on the model)
  WholeIndex,  \* whether it dies only while index.json is whole
  NoOne        \* no archive

ASSUME CacheAssumption ==
  /\ IsFiniteSet(Clients) /\ V2 \subseteq Clients
  /\ MaxRestarts \in Nat /\ WholeIndex \in BOOLEAN
  /\ NoOne \notin Clients

Keys == {KeyOf[c] : c \in Clients}
Ids == 1..Cardinality(Clients)
Entry == [id : Ids, key : Keys, committed : BOOLEAN]

VARIABLES
  entries,   \* CacheState.entries, a Vec: the order decides what is found
  key_index, \* CacheState.key_index; 0 where the map has no id
  next_id,   \* CacheState.next_id
  temps,     \* the upload files in tmp/: NoOne's when still empty
  s3,        \* the archive stored at cache/<id>
  disk,      \* index.json: <<the entries>>, or <<>> when half written
  temp,      \* index.tmp: "none", "partial" or "full"
  stage,     \* how far a client has come
  id_of,     \* the entry it is working on
  saving,    \* how far its handler has come in save_index
  restarts

server == <<entries, key_index, next_id>>
files  == <<temps, s3>>
index_files == <<disk, temp>>
vars == <<entries, key_index, next_id, temps, s3, disk, temp, stage, id_of, saving,
          restarts>>

Handling == {"removed", "allocated", "pushed", "stored", "unlinked", "marked", "indexed"}
Ended == {"saved", "gone", "failed", "aborted"}
EntriesOf == {entries[i] : i \in DOMAIN entries}
Committed(es) == {es[i].id : i \in {j \in DOMAIN es : es[j].committed}}
Unread == \A c \in Clients : saving[c] = "no"

TypeOK ==
  /\ entries \in Seq(Entry)
  /\ key_index \in [Keys -> Ids \cup {0}]
  /\ next_id \in 1..(Cardinality(Clients) + 1)
  /\ \A i \in DOMAIN temps : i \in Ids /\ temps[i] \in Clients \cup {NoOne}
  /\ s3 \in [Ids -> Clients \cup {NoOne}]
  /\ disk \in Seq(Seq(Entry)) /\ Len(disk) <= 1
  /\ temp \in {"none", "partial", "full"}
  /\ stage \in [Clients -> {"idle", "reserved", "uploaded"} \cup Handling \cup Ended]
  /\ id_of \in [Clients -> Ids \cup {0}]
  /\ saving \in [Clients -> {"no", "locked", "writing", "overtaken", "lost", "written"}]
  /\ restarts \in 0..MaxRestarts

Init ==
  /\ entries = <<>>
  /\ key_index = [k \in Keys |-> 0]
  /\ next_id = 1
  /\ temps = <<>>
  /\ s3 = [i \in Ids |-> NoOne]
  /\ disk = << <<>> >>
  /\ temp = "none"
  /\ stage = [c \in Clients |-> "idle"]
  /\ id_of = [c \in Clients |-> 0]
  /\ saving = [c \in Clients |-> "no"]
  /\ restarts = 0

--------------------------------------------------------------------------------
(* save_index                                                              *)

Saves(c, from, to) ==
  /\ saving[c] = from
  /\ saving' = [saving EXCEPT ![c] = to]
  /\ UNCHANGED <<server, files, restarts>>

\* entries.read().await and the serialization.
SaveBegin(c) ==
  /\ stage[c] \in {"pushed", "indexed"}
  /\ Saves(c, "no", "locked")
  /\ UNCHANGED <<index_files, stage, id_of>>

\* fs::write opens and truncates index.tmp ...
SaveOpen(c) ==
  /\ Saves(c, "locked", "writing")
  /\ temp' = "partial"
  /\ UNCHANGED <<disk, stage, id_of>>

\* ... and writes it, wherever the file has been renamed to by now.
SaveWrite(c) ==
  /\ \/ Saves(c, "writing", "written") /\ temp' = "full" /\ UNCHANGED disk
     \/ Saves(c, "overtaken", "written") /\ disk' = <<entries>> /\ UNCHANGED temp
     \/ Saves(c, "lost", "written") /\ UNCHANGED index_files
  /\ UNCHANGED <<stage, id_of>>

Returns(c) == IF stage[c] = "pushed" THEN "reserved" ELSE "saved"

(* rename(index.tmp, index.json): it carries along the writers that have   *)
(* the file open, and fails when another saver has renamed it already.     *)
SaveRename(c) ==
  /\ saving[c] = "written"
  /\ IF temp = "none"
     THEN /\ stage' = [stage EXCEPT ![c] = "failed"]
          /\ saving' = [saving EXCEPT ![c] = "no"]
          /\ UNCHANGED index_files
     ELSE /\ stage' = [stage EXCEPT ![c] = Returns(c)]
          /\ saving' = [d \in Clients |->
                          CASE d = c -> "no"
                            [] saving[d] = "writing" -> "overtaken"
                            [] saving[d] = "overtaken" -> "lost"
                            [] OTHER -> saving[d]]
          /\ disk' = IF temp = "full" THEN <<entries>> ELSE <<>>
          /\ temp' = "none"
  /\ UNCHANGED <<server, files, id_of, restarts>>

--------------------------------------------------------------------------------
(* reserve_cache and twirp_create_cache_entry                              *)

Handles(c, from, to) ==
  /\ stage[c] = from
  /\ stage' = [stage EXCEPT ![c] = to]
  /\ UNCHANGED <<index_files, saving, restarts>>

RemoveFor(c, kept) ==
  /\ key_index[KeyOf[c]] = 0 \/ Unread
  /\ Handles(c, "idle", "removed")
  /\ entries' = kept
  /\ key_index' = [key_index EXCEPT ![KeyOf[c]] = 0]
  /\ UNCHANGED <<next_id, files, id_of>>

\* entries.retain(|e| e.id != id)
Without(es, id) ==
  LET kept[n \in 0..Len(es)] ==
        IF n = 0 THEN <<>>
        ELSE IF es[n].id = id THEN kept[n - 1] ELSE Append(kept[n - 1], es[n])
  IN  kept[Len(es)]

\* Whatever has the key goes, uncommitted entries of other clients too.
Wrong_RemoveOld(c) ==
  RemoveFor(c, SelectSeq(entries, LAMBDA e : e.key # KeyOf[c]))

(* The id that key_index has for the key is removed from both, under the   *)
(* write guards of both.                                                   *)
RemoveOld(c) == RemoveFor(c, Without(entries, key_index[KeyOf[c]]))

\* next_id.fetch_add(1), and the empty upload file of the v1 protocol.
Allocate(c) ==
  /\ Handles(c, "removed", "allocated")
  /\ id_of' = [id_of EXCEPT ![c] = next_id]
  /\ next_id' = next_id + 1
  /\ temps' = IF c \in V2 THEN temps
              ELSE [i \in DOMAIN temps \cup {next_id} |->
                      IF i = next_id THEN NoOne ELSE temps[i]]
  /\ UNCHANGED <<entries, key_index, s3>>

\* entries.write().await.push(entry); save_index follows.
PushEntry(c) ==
  /\ Unread
  /\ Handles(c, "allocated", "pushed")
  /\ entries' = Append(entries, [id |-> id_of[c], key |-> KeyOf[c], committed |-> FALSE])
  /\ UNCHANGED <<key_index, next_id, files, id_of>>

--------------------------------------------------------------------------------
(* upload_chunk, or the client's PUT to the signed URL                     *)

Upload(c) ==
  IF c \in V2
  THEN /\ Handles(c, "reserved", "uploaded")
       /\ s3' = [s3 EXCEPT ![id_of[c]] = c]
       /\ UNCHANGED <<server, temps, id_of>>
  ELSE /\ Handles(c, "reserved", IF id_of[c] \in DOMAIN temps THEN "uploaded" ELSE "gone")
       /\ temps' = [i \in DOMAIN temps |-> IF i = id_of[c] THEN c ELSE temps[i]]
       /\ UNCHANGED <<server, s3, id_of>>

--------------------------------------------------------------------------------
(* commit_cache                                                            *)

\* 404 without the upload file, else upload_to_s3.
CommitStore(c) ==
  /\ c \notin V2
  /\ IF id_of[c] \in DOMAIN temps
     THEN /\ Handles(c, "uploaded", "stored")
          /\ s3' = [s3 EXCEPT ![id_of[c]] = temps[id_of[c]]]
     ELSE Handles(c, "uploaded", "gone") /\ UNCHANGED s3
  /\ UNCHANGED <<server, temps, id_of>>

CommitUnlink(c) ==
  /\ Handles(c, "stored", "unlinked")
  /\ temps' = [i \in DOMAIN temps \ {id_of[c]} |-> temps[i]]
  /\ UNCHANGED <<server, s3, id_of>>

Mark(c, from, found) ==
  /\ Unread
  /\ IF found = {} THEN Handles(c, from, "gone") /\ UNCHANGED <<entries, id_of>>
     ELSE LET first == CHOOSE i \in found : \A j \in found : i <= j
          IN  /\ Handles(c, from, "marked")
              /\ entries' = [entries EXCEPT ![first].committed = TRUE]
              /\ id_of' = [id_of EXCEPT ![c] = entries[first].id]
  /\ UNCHANGED <<key_index, next_id, files>>

MarkOwn(c, from) == Mark(c, from, {i \in DOMAIN entries : entries[i].id = id_of[c]})

\* The entry is marked before the archive is in S3.
Wrong_CommitMark(c) == c \notin V2 /\ MarkOwn(c, "uploaded")

\* The entry with the id is marked committed.
CommitMark(c) == c \notin V2 /\ MarkOwn(c, "unlinked")

(* twirp_finalize_cache_entry marks the first uncommitted entry with the   *)
(* key, whoever created it.                                                *)
FinalizeMark(c) ==
  /\ c \in V2
  /\ Mark(c, "uploaded",
          {i \in DOMAIN entries : entries[i].key = KeyOf[c] /\ ~entries[i].committed})

InsertThen(c, to) ==
  /\ Handles(c, "marked", to)
  /\ key_index' = [key_index EXCEPT ![KeyOf[c]] = id_of[c]]
  /\ UNCHANGED <<entries, next_id, files, id_of>>

\* The response is sent without save_index.
Wrong_InsertIndex(c) == InsertThen(c, "saved")

\* key_index.write().await.insert(..); save_index follows.
InsertIndex(c) == InsertThen(c, "indexed")

--------------------------------------------------------------------------------
(* The process dies and CacheState::new starts from the files: the index   *)
(* is rebuilt from the committed entries, the last one of a key winning;   *)
(* upload files of no uncommitted entry are removed; a half-written index  *)
(* is "corrupted, starting fresh".  A client whose request was being       *)
(* handled gives up; the others go on.                                     *)
Loaded == IF disk = <<>> THEN <<>> ELSE disk[1]
KeptIds == {Loaded[i].id : i \in DOMAIN Loaded}
Greatest(ids) == IF ids = {} THEN 0 ELSE CHOOSE m \in ids : \A i \in ids : i <= m
LastCommitted(k) ==
  LET at == {i \in DOMAIN Loaded : Loaded[i].key = k /\ Loaded[i].committed}
  IN  IF at = {} THEN 0 ELSE Loaded[Greatest(at)].id

RestartFrom(id) ==
  /\ restarts < MaxRestarts
  /\ WholeIndex => disk # <<>>
  /\ restarts' = restarts + 1
  /\ entries' = Loaded
  /\ key_index' = [k \in Keys |-> LastCommitted(k)]
  /\ next_id' = id
  /\ temps' = [i \in DOMAIN temps \cap (KeptIds \ Committed(Loaded)) |-> temps[i]]
  /\ stage' = [c \in Clients |-> IF stage[c] \in Handling THEN "aborted" ELSE stage[c]]
  /\ saving' = [c \in Clients |-> "no"]
  /\ UNCHANGED <<s3, index_files, id_of>>

\* next_id restarts from the committed entries only, or one too low.
Wrong_RestartCommitted == RestartFrom(1 + Greatest(Committed(Loaded)))
Wrong_RestartOneLow == RestartFrom(Greatest(KeptIds))

Restart == RestartFrom(1 + Greatest(KeptIds))

--------------------------------------------------------------------------------
Step(c) ==
  \/ RemoveOld(c) \/ Allocate(c) \/ PushEntry(c) \/ Upload(c)
  \/ CommitStore(c) \/ CommitUnlink(c) \/ CommitMark(c)
  \/ FinalizeMark(c) \/ InsertIndex(c)
  \/ SaveBegin(c) \/ SaveOpen(c) \/ SaveWrite(c) \/ SaveRename(c)

Done == (\A c \in Clients : stage[c] \in Ended) /\ UNCHANGED vars

Next == (\E c \in Clients : Step(c)) \/ Restart \/ Done

Spec == Init /\ [][Next]_vars

--------------------------------------------------------------------------------
(* A committed entry, which a lookup may answer with, has in S3 a whole    *)
(* archive that was saved under its key: "mark entry as committed after    *)
(* client uploaded to S3".                                                 *)
CommittedIsUploaded ==
  \A e \in EntriesOf :
    e.committed => s3[e.id] # NoOne /\ KeyOf[s3[e.id]] = e.key

(* An id that key_index removes on an overwrite is that of a committed     *)
(* entry of the key, and ids in entries are unique and below next_id.      *)
IndexAgrees ==
  /\ \A k \in Keys : key_index[k] # 0 =>
       \E e \in EntriesOf : e.id = key_index[k] /\ e.key = k /\ e.committed
  /\ \A i, j \in DOMAIN entries : entries[i].id = entries[j].id => i = j
  /\ \A e \in EntriesOf : e.id < next_id

(* No two clients ever upload to the same entry: an id given to a client   *)
(* that has not finished is not given out again, even after a restart.     *)
OneWriterPerId ==
  LET working == {c \in Clients : stage[c] \notin Ended \cup {"idle", "removed"}}
  IN  \A c, d \in working : id_of[c] = id_of[d] => c = d

(* When no handler is at work, index.json is whole and says what entries   *)
(* says: sharing one temporary file between savers loses no update.        *)
QuietIndexIsCurrent ==
  (\A c \in Clients : stage[c] \notin Handling) => disk = <<entries>>

Survives(c) ==
  stage[c] = "saved" /\ s3[id_of[c]] = c /\ id_of[c] \in Committed(entries)
    => id_of[c] \in Committed(entries')

(* A save that was answered with success, and that no other save has       *)
(* replaced, is still there after a restart: the index is "persisted as    *)
(* JSON for crash recovery".                                               *)
SavedSurvives == [][restarts' # restarts => \A c \in Clients : Survives(c)]_vars
================================================================================
