-------------------------- MODULE Environment_proofs --------------------------
(***************************************************************************)
(* Proofs about the two components that answer to something outside the    *)
(* program: FileStore, to the file system and to crashes, and Boundary, to *)
(* the boundary daemon.  For any contracts, inodes, failing operations,    *)
(* modes asked for and depths.                                             *)
(*                                                                         *)
(* FileStore: while saves overlap nothing is known of the file.  One that  *)
(* started alone still is, unless others have started meanwhile (Alone);   *)
(* then it renames only what it has written completely to another inode    *)
(* (Ready), which is what the adapter holds (Turn), which has all that was *)
(* acknowledged (Kept).                                                    *)
(*                                                                         *)
(* Boundary: with loops under way, a contract that runs below its mode is  *)
(* in the queue of a loop that suspends (Evaluated), and one that is held  *)
(* although it could operate in the queue of one that resumes (Resumed).   *)
(***************************************************************************)
EXTENDS FileStore, Boundary, SequenceTheorems, TLAPS
-----------------------------------------------------------------------------
(***************************************************************************)
(* The file store: types.                                                  *)
(***************************************************************************)
Stage == {"idle", "open", "write", "rename", "chmod", "access", "unlink"}
Kind == {"save", "delete", "init", "close"}

LEMMA Idling == IdleWriter \in Writer /\ IdleWriter.stage = "idle"
<1>1. IdleWriter.id \in Ids
  BY FileStoreAssumption DEF IdleWriter
<1>2. Nothing \in Snapshot
  BY FileStoreAssumption DEF Nothing, Snapshot
<1> QED BY <1>1, <1>2, FileStoreAssumption DEF IdleWriter, Writer

LEMMA Contents ==
    /\ Empty \in Content /\ Torn \in Content /\ Nothing \in Snapshot
    /\ \A s \in Snapshot : Holding(s) \in Content
BY FileStoreAssumption DEF Empty, Torn, Nothing, Snapshot, Holding, Content

\* What the names lead to stays.
LEMMA Reached ==
    ASSUME NEW new \in [Inodes -> Content], content' = Reachable(new)
    PROVE  /\ content' \in [Inodes -> Content]
           /\ \A i \in Inodes : i = file' \/ i = temp' => content'[i] = new[i]
BY Contents DEF Reachable

\* A writer goes on to another stage, with or without an open file.
LEMMA Moved ==
    ASSUME FileStoreTypeOK, NEW w \in Writers, NEW s \in Stage, NEW fd \in Inodes \cup {NoInode},
           \/ writers' = [writers EXCEPT ![w].stage = s, ![w].fd = fd]
           \/ writers' = [writers EXCEPT ![w].stage = s] /\ fd = writers[w].fd
    PROVE  /\ writers' \in [Writers -> Writer]
           /\ writers'[w].stage = s /\ writers'[w].fd = fd
           /\ writers'[w].kind = writers[w].kind /\ writers'[w].snapshot = writers[w].snapshot
           /\ writers'[w].version = writers[w].version
<1> DEFINE new == [[writers[w] EXCEPT !.stage = s] EXCEPT !.fd = fd]
<1>1. writers[w] \in Writer
  BY DEF FileStoreTypeOK
<1>2. /\ new \in Writer /\ new.stage = s /\ new.fd = fd
      /\ new.kind = writers[w].kind /\ new.snapshot = writers[w].snapshot
      /\ new.version = writers[w].version
  BY <1>1 DEF Writer, Stage
<1>3. fd = writers[w].fd => new = [writers[w] EXCEPT !.stage = s]
  BY <1>1 DEF Writer
<1>4. writers' = [writers EXCEPT ![w] = new]
  BY <1>3 DEF FileStoreTypeOK
<1> HIDE DEF new
<1> QED BY <1>2, <1>4 DEF FileStoreTypeOK

\* A writer starts.
LEMMA Started ==
    ASSUME FileStoreTypeOK, NEW w \in Writers, NEW kind \in Kind, NEW background \in BOOLEAN,
           NEW i \in Ids, NEW v \in 0..MaxVersion, NEW snapshot \in Snapshot,
           SaveToFile(w, SaveOf(kind, background, i, v, snapshot))
    PROVE  /\ writers' \in [Writers -> Writer]
           /\ writers'[w].stage = "open" /\ writers'[w].kind = kind
           /\ writers'[w].snapshot = snapshot /\ writers'[w].version = v
<1> DEFINE new == SaveOf(kind, background, i, v, snapshot)
<1>1. /\ new \in Writer /\ new.stage = "open" /\ new.kind = kind
      /\ new.snapshot = snapshot /\ new.version = v
  BY DEF SaveOf, Writer, Kind
<1>2. writers' = [writers EXCEPT ![w] = new]
  BY DEF SaveToFile
<1> HIDE DEF new
<1> QED BY <1>1, <1>2 DEF FileStoreTypeOK

LEMMA StoreTypesStep ==
    ASSUME FileStoreTypeOK, [Next]_vars
    PROVE  FileStoreTypeOK'
<1> USE FileStoreAssumption
<1>1. ASSUME NEW i \in Ids, NEW w \in Writers, NEW background \in BOOLEAN, Save(i, w, background)
      PROVE  FileStoreTypeOK'
  <2>1. version + 1 \in 0..MaxVersion /\ version' = version + 1
    BY <1>1 DEF Save, FileStoreTypeOK
  <2>2. cache' \in Snapshot /\ store' \in Snapshot
    BY <1>1, <2>1 DEF Save, FileStoreTypeOK, Snapshot
  <2>3. writers' \in [Writers -> Writer]
    BY <1>1, <2>1, <2>2, Started DEF Save, Kind
  <2> QED BY <1>1, <2>1, <2>2, <2>3 DEF Save, FileStoreTypeOK, SaveToFile, diskVars, historyVars
<1>2. ASSUME NEW i \in Ids, NEW w \in Writers, NEW background \in BOOLEAN, Delete(i, w, background)
      PROVE  FileStoreTypeOK'
  <2>1. cache' \in Snapshot /\ store' \in Snapshot /\ acked' \in Snapshot
    BY <1>2 DEF Delete, FileStoreTypeOK, Snapshot
  <2>2. writers' \in [Writers -> Writer]
    BY <1>2, <2>1, Started DEF Delete, Kind
  <2> QED BY <1>2, <2>1, <2>2 DEF Delete, FileStoreTypeOK, SaveToFile, diskVars, historyVars
<1>3. ASSUME NEW i \in Ids, SaveUninitialized(i) PROVE FileStoreTypeOK'
  <2>1. version' \in 0..MaxVersion
    BY <1>3 DEF SaveUninitialized, FileStoreTypeOK
  <2>2. cache' \in Snapshot
    BY <1>3, <2>1 DEF SaveUninitialized, FileStoreTypeOK, Snapshot
  <2> QED BY <1>3, <2>1, <2>2 DEF SaveUninitialized, FileStoreTypeOK, SaveToFile, diskVars, historyVars
<1>4. ASSUME Initialize \/ Flush \/ Close \/ FlushReturns PROVE FileStoreTypeOK'
  BY <1>4 DEF Initialize, Flush, Close, FlushReturns, FileStoreTypeOK, SaveToFile, diskVars, historyVars
<1>5. ASSUME LoadFile PROVE FileStoreTypeOK'
  <2>1. content[file] \in Content
    BY <1>5 DEF LoadFile, Readable, Complete, FileStoreTypeOK
  <2>2. content[file].data \in Snapshot
    BY <2>1 DEF Content
  <2> QED BY <1>5, <2>2, Contents DEF LoadFile, FileStoreTypeOK, diskVars
<1>6. ASSUME NEW w \in Writers, CreateFile(w) \/ CloseAdapter(w) PROVE FileStoreTypeOK'
  <2>1. IdleWriter.id \in Ids
    BY Idling DEF Writer
  <2>2. writers' \in [Writers -> Writer]
    <3>1. PICK kind \in Kind : SaveToFile(w, SaveOf(kind, FALSE, IdleWriter.id, 0, store))
      BY <1>6 DEF CreateFile, CloseAdapter, Kind
    <3>2. 0 \in 0..MaxVersion /\ store \in Snapshot
      BY DEF FileStoreTypeOK
    <3> QED BY <2>1, <3>1, <3>2, Started
  <2> QED BY <1>6, <2>2, Contents DEF CreateFile, CloseAdapter, FileStoreTypeOK, SaveToFile, diskVars
<1>7. ASSUME NEW w \in Writers, Open(w) PROVE FileStoreTypeOK'
  <2>1. PICK i \in Inodes : /\ temp' = i /\ content' = [content EXCEPT ![i] = Empty]
                            /\ writers' = [writers EXCEPT ![w].stage = "write", ![w].fd = i]
    BY <1>7 DEF Open, NewInode, Unused, FileStoreTypeOK
  <2>2. writers' \in [Writers -> Writer]
    BY <2>1, Moved DEF Stage
  <2>3. content' \in [Inodes -> Content]
    BY <2>1, Contents DEF FileStoreTypeOK
  <2> QED BY <1>7, <2>1, <2>2, <2>3 DEF Open, FileStoreTypeOK, repositoryVars, historyVars
<1>8. ASSUME NEW w \in Writers, Write(w) PROVE FileStoreTypeOK'
  <2>1. writers[w].snapshot \in Snapshot
    BY DEF FileStoreTypeOK, Writer
  <2>2. PICK new \in Content : content' = Reachable([content EXCEPT ![writers[w].fd] = new])
    BY <1>8, <2>1, Contents DEF Write, Overwritten
  <2>3. content' \in [Inodes -> Content]
    BY <2>2, Reached DEF FileStoreTypeOK
  <2>4. writers' \in [Writers -> Writer]
    BY <1>8, Moved DEF Write, Stage
  <2> QED BY <1>8, <2>3, <2>4 DEF Write, FileStoreTypeOK, repositoryVars, historyVars
<1>9. ASSUME NEW w \in Writers, Rename(w) PROVE FileStoreTypeOK'
  <2>1. writers[w].fd \in Inodes \cup {NoInode}
    BY DEF FileStoreTypeOK, Writer
  <2>2. writers' \in [Writers -> Writer]
    BY <1>9, <2>1, Moved DEF Rename, MoveTo, Stage
  <2>3. content' \in [Inodes -> Content]
    BY <1>9, Reached DEF Rename, FileStoreTypeOK
  <2> QED BY <1>9, <2>2, <2>3 DEF Rename, FileStoreTypeOK, repositoryVars, historyVars
<1>10. ASSUME NEW w \in Writers, Fail(w) PROVE FileStoreTypeOK'
  <2>1. content' \in [Inodes -> Content]
    BY <1>10, Contents, Reached DEF Fail, FileStoreTypeOK
  <2>2. writers' \in [Writers -> Writer]
    BY <1>10, Moved DEF Fail, Stage
  <2> QED BY <1>10, <2>1, <2>2 DEF Fail, FileStoreTypeOK, repositoryVars, historyVars
<1>11. ASSUME NEW w \in Writers, NEW resolved \in BOOLEAN, Settle(w, resolved) PROVE FileStoreTypeOK'
  <2>1. writers' \in [Writers -> Writer]
    BY <1>11, Idling DEF Settle, FileStoreTypeOK
  <2>2. writers[w] \in Writer
    BY DEF FileStoreTypeOK
  <2>3. writers[w].id \in Ids /\ writers[w].version \in 0..MaxVersion
    BY <2>2 DEF Writer
  <2>4. acked' \in Snapshot
    BY <1>11, <2>3 DEF Settle, FileStoreTypeOK, Snapshot
  <2>5. initialized' \in BOOLEAN /\ cache' \in Snapshot
        /\ call' \in {"none", "init", "initSave", "flush", "closeFlush", "close"}
    BY <1>11 DEF Settle, FileStoreTypeOK
  <2> QED BY <1>11, <2>1, <2>4, <2>5 DEF Settle, FileStoreTypeOK, SaveToFile, diskVars, historyVars
<1>12. ASSUME NEW w \in Writers, Access(w), temp # NoInode PROVE FileStoreTypeOK'
  <2>1. writers[w].fd \in Inodes \cup {NoInode}
    BY DEF FileStoreTypeOK, Writer
  <2>2. writers' \in [Writers -> Writer]
    BY <1>12, <2>1, Moved DEF Access, MoveTo, Stage
  <2> QED BY <1>12, <2>2 DEF Access, FileStoreTypeOK, repositoryVars, diskVars, historyVars
<1>13. ASSUME NEW w \in Writers, Unlink(w) PROVE FileStoreTypeOK'
  <2>1. content' \in [Inodes -> Content]
    BY <1>13, Reached DEF Unlink, FileStoreTypeOK
  <2> QED BY <1>13, <2>1, Idling DEF Unlink, FileStoreTypeOK, historyVars
<1>14. ASSUME Crash PROVE FileStoreTypeOK'
  <2>1. content' \in [Inodes -> Content]
    BY <1>14, Contents, Reached DEF Crash, FileStoreTypeOK
  <2> QED BY <1>14, <2>1, Contents, Idling DEF Crash, FileStoreTypeOK
<1>15. CASE UNCHANGED vars
  BY <1>15 DEF vars, FileStoreTypeOK
<1> QED BY <1>1, <1>2, <1>3, <1>4, <1>5, <1>6, <1>7, <1>8, <1>9, <1>10, <1>11, <1>12, <1>13, <1>14,
           <1>15 DEF Next, CallStep, WriterStep, Chmod, Access

LEMMA StoreTypesInit ==
    ASSUME Init
    PROVE  FileStoreTypeOK
<1>1. initialized \in BOOLEAN
  BY Zenon DEF Init
<1>2. writers \in [Writers -> Writer] /\ content \in [Inodes -> Content]
  BY Contents, Idling DEF Init
<1> QED BY <1>1, <1>2, FileStoreAssumption, Contents DEF Init, FileStoreTypeOK
-----------------------------------------------------------------------------
(***************************************************************************)
(* The file store: the kinds of steps.                                     *)
(***************************************************************************)
Starting(w) ==
    \/ \E i \in Ids, background \in BOOLEAN : Save(i, w, background) \/ Delete(i, w, background)
    \/ CreateFile(w) \/ CloseAdapter(w)

Moving(w) == Open(w) \/ Write(w) \/ Rename(w) \/ Fail(w) \/ (Access(w) /\ temp # NoInode)

Settling(w) == Chmod(w) \/ (Access(w) /\ temp = NoInode) \/ Unlink(w)

Quiet ==
    \/ \E i \in Ids : SaveUninitialized(i)
    \/ Initialize \/ Flush \/ Close \/ FlushReturns \/ LoadFile \/ UNCHANGED vars

LEMMA StepKinds ==
    ASSUME [Next]_vars
    PROVE  (\E w \in Writers : Starting(w) \/ Moving(w) \/ Settling(w)) \/ Quiet \/ Crash
BY DEF Next, CallStep, WriterStep, Starting, Moving, Settling, Quiet

\* The others stay as they are.
OthersStay(w) == \A v \in Writers \ {w} : writers'[v] = writers[v]

\* initialize, flush and close belong to a repository in the right state.
CallsInTurn ==
    /\ call \in {"init", "initSave"} => ~initialized
    /\ call \in {"flush", "closeFlush", "close"} => initialized

\* What is written is what the adapter holds, on behalf of the call that waits for it.
Turn(w) ==
    InFlight(w) =>
       /\ writers[w].snapshot = store
       /\ writers[w].kind \in {"save", "delete"} => initialized
       /\ writers[w].kind = "init" => call = "initSave"
       /\ writers[w].kind = "close" => call = "close"

\* A writer that starts takes what the adapter then holds, and leaves the disk alone.
LEMMA Starts ==
    ASSUME FileStoreTypeOK, CallsInTurn, NEW w \in Writers, Starting(w)
    PROVE  /\ ~InFlight(w) /\ InFlight(w)' /\ writers'[w].stage = "open"
           /\ writers'[w].version <= version' /\ Turn(w)' /\ CallsInTurn'
           /\ OthersStay(w) /\ UNCHANGED diskVars
           /\ overlap' # "some" => \A v \in Writers : ~InFlight(v)
           /\ overlap' = "none" => overlap = "none"
<1> USE FileStoreAssumption
<1>1. version \in Nat
  BY DEF FileStoreTypeOK
<1>2. ASSUME NEW kind \in Kind, NEW background \in BOOLEAN, NEW i \in Ids, NEW v \in 0..MaxVersion,
             store' \in Snapshot, v <= version', UNCHANGED diskVars,
             SaveToFile(w, SaveOf(kind, background, i, v, store')),
             \/ kind \in {"save", "delete"} /\ initialized /\ UNCHANGED <<initialized, call>>
             \/ kind = "init" /\ call = "init" /\ call' = "initSave" /\ UNCHANGED initialized
             \/ kind = "close" /\ call = "closeFlush" /\ call' = "close" /\ UNCHANGED initialized
      PROVE  /\ ~InFlight(w) /\ InFlight(w)' /\ writers'[w].stage = "open"
             /\ writers'[w].version <= version' /\ Turn(w)' /\ CallsInTurn'
             /\ OthersStay(w) /\ UNCHANGED diskVars
             /\ overlap' # "some" => \A u \in Writers : ~InFlight(u)
             /\ overlap' = "none" => overlap = "none"
  <2>1. /\ writers'[w].stage = "open" /\ writers'[w].kind = kind
        /\ writers'[w].snapshot = store' /\ writers'[w].version = v
    BY <1>2, Started
  <2>2. ~InFlight(w) /\ OthersStay(w)
    BY <1>2 DEF SaveToFile, OthersStay, FileStoreTypeOK
  <2>3. /\ overlap' # "some" => \A u \in Writers : ~InFlight(u)
        /\ overlap' = "none" => overlap = "none"
    BY <1>2 DEF SaveToFile
  <2>4. Turn(w)' /\ InFlight(w)'
    BY <1>2, <2>1 DEF Turn, InFlight
  <2>5. CallsInTurn'
    BY <1>2 DEF CallsInTurn
  <2> QED BY <1>2, <2>1, <2>2, <2>3, <2>4, <2>5
<1>3. ASSUME NEW i \in Ids, NEW background \in BOOLEAN, Save(i, w, background)
      PROVE  /\ version + 1 \in 0..MaxVersion /\ version' = version + 1 /\ store' \in Snapshot
  <2>1. version + 1 \in 0..MaxVersion /\ version' = version + 1
    BY <1>3 DEF Save, FileStoreTypeOK
  <2> QED BY <1>3, <2>1 DEF Save, FileStoreTypeOK, Snapshot
<1>4. ASSUME NEW i \in Ids, NEW background \in BOOLEAN, Delete(i, w, background)
      PROVE  store' \in Snapshot
  BY <1>4 DEF Delete, FileStoreTypeOK, Snapshot
<1>5. IdleWriter.id \in Ids /\ 0 \in 0..MaxVersion /\ 0 <= version
  <2>1. IdleWriter.id \in Ids
    BY Idling DEF Writer
  <2>2. 0 \in 0..MaxVersion /\ 0 <= version
    BY DEF FileStoreTypeOK
  <2> QED BY <2>1, <2>2
<1>6. CASE \E i \in Ids, background \in BOOLEAN : Save(i, w, background)
  <2>1. PICK i \in Ids, background \in BOOLEAN : Save(i, w, background)
    BY <1>6
  <2>2. /\ version + 1 \in 0..MaxVersion /\ version' = version + 1 /\ store' \in Snapshot
        /\ version + 1 <= version'
    BY <1>1, <1>3, <2>1
  <2> QED BY <1>2, <2>1, <2>2 DEF Save, Kind
<1>7. CASE \E i \in Ids, background \in BOOLEAN : Delete(i, w, background)
  BY <1>2, <1>4, <1>5, <1>7 DEF Delete, Kind
<1>8. CASE CreateFile(w)
  BY <1>2, <1>5, <1>8 DEF CreateFile, Kind, FileStoreTypeOK
<1>9. CASE CloseAdapter(w)
  BY <1>2, <1>5, <1>9 DEF CloseAdapter, Kind, FileStoreTypeOK
<1> QED BY <1>6, <1>7, <1>8, <1>9 DEF Starting

\* A writer that goes on touches nothing but the disk.
LEMMA Moves ==
    ASSUME FileStoreTypeOK, NEW w \in Writers, Moving(w)
    PROVE  /\ InFlight(w) /\ InFlight(w)'
           /\ writers'[w].kind = writers[w].kind /\ writers'[w].snapshot = writers[w].snapshot
           /\ writers'[w].version = writers[w].version
           /\ OthersStay(w) /\ UNCHANGED <<repositoryVars, version, acked>>
           /\ overlap' \in {overlap, "none"} /\ (overlap' # overlap => overlap = "mending" /\ Rename(w))
<1>1. ASSUME NEW s \in Stage \ {"idle"}, NEW fd \in Inodes \cup {NoInode},
             \/ writers' = [writers EXCEPT ![w].stage = s, ![w].fd = fd]
             \/ writers' = [writers EXCEPT ![w].stage = s] /\ fd = writers[w].fd
      PROVE  /\ InFlight(w)' /\ OthersStay(w)
             /\ writers'[w].kind = writers[w].kind /\ writers'[w].snapshot = writers[w].snapshot
             /\ writers'[w].version = writers[w].version
  <2>1. /\ writers'[w].kind = writers[w].kind /\ writers'[w].snapshot = writers[w].snapshot
        /\ writers'[w].version = writers[w].version /\ writers'[w].stage = s
    BY <1>1, Moved
  <2> QED BY <1>1, <2>1 DEF InFlight, OthersStay, FileStoreTypeOK
<1>2. writers[w].fd \in Inodes \cup {NoInode}
  BY DEF FileStoreTypeOK, Writer
<1>3. \E s \in Stage \ {"idle"}, fd \in Inodes \cup {NoInode} :
         \/ writers' = [writers EXCEPT ![w].stage = s, ![w].fd = fd]
         \/ writers' = [writers EXCEPT ![w].stage = s] /\ fd = writers[w].fd
  <2>1. CASE Open(w)
    <3>1. PICK i \in Inodes : writers' = [writers EXCEPT ![w].stage = "write", ![w].fd = i]
      BY <2>1 DEF Open, NewInode, Unused, FileStoreTypeOK
    <3> QED BY <3>1 DEF Stage
  <2>2. CASE Write(w) \/ Fail(w)
    BY <2>2 DEF Write, Fail, Stage
  <2>3. CASE Rename(w) \/ (Access(w) /\ temp # NoInode)
    BY <1>2, <2>3 DEF Rename, Access, MoveTo, Stage
  <2> QED BY <2>1, <2>2, <2>3 DEF Moving
<1>4. InFlight(w) /\ UNCHANGED <<repositoryVars, version, acked>>
  BY FileStoreAssumption
     DEF Moving, Open, Write, Rename, Fail, Access, At, InFlight, historyVars
<1>5. overlap' = overlap \/ (overlap' = "none" /\ overlap = "mending" /\ Rename(w))
  BY DEF Moving, Open, Write, Rename, Fail, Access, historyVars
<1> QED BY <1>1, <1>3, <1>4, <1>5

\* A writer that settles leaves the storage file alone, and ends the call that waits for it.
LEMMA Settles ==
    ASSUME FileStoreTypeOK, NEW w \in Writers, Settling(w)
    PROVE  /\ InFlight(w) /\ ~InFlight(w)' /\ writers'[w] = IdleWriter
           /\ OthersStay(w) /\ UNCHANGED <<file, store, version, overlap>>
           /\ temp' \in {temp, NoInode} /\ (file # NoInode => content'[file] = content[file])
           /\ \/ UNCHANGED <<call, initialized>>
              \/ writers[w].kind \in {"init", "close"} /\ call' = "none"
           /\ \/ acked' = acked
              \/ /\ At(w, "chmod") /\ store[writers[w].id] = writers[w].version
                 /\ acked' = [acked EXCEPT ![writers[w].id] = writers[w].version]
<1>1. writers' = [writers EXCEPT ![w] = IdleWriter]
  BY DEF Settling, Chmod, Access, Settle, Unlink
<1>2. writers'[w] = IdleWriter /\ ~InFlight(w)' /\ OthersStay(w)
  BY <1>1, Idling DEF FileStoreTypeOK, OthersStay, InFlight
<1>3. CASE Chmod(w)
  BY <1>2, <1>3 DEF Chmod, Settle, At, InFlight, diskVars
<1>4. CASE Access(w) /\ temp = NoInode
  BY <1>2, <1>4 DEF Access, Settle, At, InFlight, diskVars
<1>5. CASE Unlink(w)
  <2>1. file # NoInode => content'[file] = content[file]
    BY <1>5, Reached DEF Unlink, FileStoreTypeOK
  <2> QED BY <1>2, <1>5, <2>1 DEF Unlink, At, InFlight, historyVars
<1> QED BY <1>3, <1>4, <1>5 DEF Settling

\* After a crash nothing is under way; a file that was being written may be torn.
LEMMA Crashes ==
    ASSUME FileStoreTypeOK, Crash
    PROVE  /\ \A w \in Writers : writers'[w] = IdleWriter /\ ~InFlight(w)'
           /\ ~initialized' /\ call' = "none"
           /\ UNCHANGED <<file, temp, version, overlap>>
           /\ acked' \in {acked, Nothing}
           /\ \A i \in Inodes : i = file /\ content'[i] # content[i]
                 => \E w \in Writers : At(w, "write") /\ writers[w].fd = i
<1>1. \A w \in Writers : writers'[w] = IdleWriter /\ ~InFlight(w)'
  BY Idling DEF Crash, InFlight
<1>2. ~initialized'
  BY Zenon DEF Crash
<1>3. PICK torn \in SUBSET {writers[v].fd : v \in {u \in Writers : At(u, "write")}} :
         content' = Reachable([i \in Inodes |-> IF i \in torn THEN Torn ELSE content[i]])
  BY DEF Crash
<1>4. \A i \in Inodes : i = file /\ content'[i] # content[i]
         => \E w \in Writers : At(w, "write") /\ writers[w].fd = i
  <2>1. file' = file
    BY DEF Crash
  <2> QED BY <1>3, <2>1, Contents, Reached DEF FileStoreTypeOK
<1> QED BY <1>1, <1>2, <1>4 DEF Crash
-----------------------------------------------------------------------------
(***************************************************************************)
(* The file store: what is in the file.                                    *)
(***************************************************************************)

\* What the writer has prepared for its next step: never through the file itself.
Ready(w) ==
    /\ At(w, "write") => temp # NoInode /\ writers[w].fd = temp /\ content[temp] = Empty
    /\ At(w, "rename") => temp # NoInode /\ content[temp] = Holding(writers[w].snapshot)
    /\ At(w, "chmod") => file # NoInode /\ content[file] = Holding(writers[w].snapshot)

NamesApart == temp # NoInode => temp # file

\* Whoever started alone, after whatever overlap, still is.
Alone ==
    overlap # "some" =>
       /\ \A u, v \in Writers : InFlight(u) /\ InFlight(v) => u = v
       /\ \A w \in Writers : Ready(w) /\ Turn(w)

\* What was acknowledged, and is still expected, is in what the adapter holds.
Kept ==
    /\ \A w \in Writers : writers[w].version <= version
    /\ \A i \in Ids : acked[i] <= version
    /\ initialized \/ (\E w \in Writers : InFlight(w)) => \A i \in Ids : acked[i] <= store[i]

StoreInv ==
    /\ FileStoreTypeOK /\ CallsInTurn /\ NamesApart /\ Alone /\ Kept
    /\ overlap = "none" => FileIsComplete
    /\ AckedSavesSurvive

LEMMA CallsStep ==
    ASSUME FileStoreTypeOK, CallsInTurn, [Next]_vars
    PROVE  CallsInTurn'
<1>1. ASSUME NEW w \in Writers, Moving(w) PROVE CallsInTurn'
  BY <1>1, Moves DEF CallsInTurn, repositoryVars
<1>2. ASSUME NEW w \in Writers, Settling(w) PROVE CallsInTurn'
  BY <1>2, Settles DEF CallsInTurn
<1>3. CASE Quiet
  BY <1>3
     DEF Quiet, SaveUninitialized, Initialize, Flush, Close, FlushReturns, LoadFile, vars, CallsInTurn
<1>4. CASE Crash
  BY <1>4, Crashes DEF CallsInTurn
<1> QED BY <1>1, <1>2, <1>3, <1>4, StepKinds, Starts

LEMMA NamesStep ==
    ASSUME StoreInv, [Next]_vars
    PROVE  NamesApart'
<1>1. ASSUME NEW w \in Writers, Open(w) PROVE NamesApart'
  BY <1>1 DEF Open, NewInode, Unused, NamesApart, StoreInv
<1>2. ASSUME NEW w \in Writers, Settling(w) PROVE NamesApart'
  BY <1>2, Settles DEF NamesApart, StoreInv
<1>3. ASSUME NEW w \in Writers, Starting(w) PROVE NamesApart'
  BY <1>3, Starts DEF NamesApart, StoreInv, diskVars
<1>4. CASE Quiet
  BY <1>4
     DEF Quiet, SaveUninitialized, Initialize, Flush, Close, FlushReturns, LoadFile, vars, diskVars,
         NamesApart, StoreInv
<1>5. CASE Crash
  BY <1>5 DEF Crash, NamesApart, StoreInv
<1>6. ASSUME NEW w \in Writers, Write(w) \/ Rename(w) \/ Fail(w) \/ (Access(w) /\ temp # NoInode)
      PROVE  NamesApart'
  BY <1>6 DEF Write, Rename, Fail, Access, NamesApart, StoreInv, diskVars
<1> QED BY <1>1, <1>2, <1>3, <1>4, <1>5, <1>6, StepKinds DEF Moving

\* A write in flight that started alone is of a call that is under way, so nothing is
\* loaded meanwhile.
LEMMA LoadsAlone ==
    ASSUME StoreInv, overlap # "some", NEW w \in Writers, call = "init"
    PROVE  ~InFlight(w)
<1>1. writers[w] \in Writer
  BY DEF StoreInv, FileStoreTypeOK
<1>2. writers[w].kind \in Kind
  BY <1>1 DEF Writer, Kind
<1> QED BY <1>2 DEF StoreInv, Alone, CallsInTurn, Turn, Kind

\* A lone writer's step prepares its next one.
LEMMA ReadyMoves ==
    ASSUME StoreInv, overlap # "some", NEW w \in Writers, Moving(w)
    PROVE  Ready(w)'
<1> USE FileStoreAssumption
<1>0. FileStoreTypeOK /\ NamesApart /\ Ready(w)
  BY DEF StoreInv, Alone
<1>1. CASE Open(w)
  <2>1. PICK i \in Inodes : /\ temp' = i /\ content' = [content EXCEPT ![i] = Empty]
                            /\ writers' = [writers EXCEPT ![w].stage = "write", ![w].fd = i]
    BY <1>0, <1>1 DEF Open, NewInode, Unused, FileStoreTypeOK
  <2>2. writers'[w].stage = "write" /\ writers'[w].fd = i
    BY <1>0, <2>1, Moved DEF Stage
  <2>3. content'[i] = Empty
    BY <1>0, <2>1 DEF FileStoreTypeOK
  <2> QED BY <2>1, <2>2, <2>3 DEF Ready, At
<1>2. CASE Write(w)
  <2>1. temp # NoInode /\ writers[w].fd = temp /\ content[temp] = Empty /\ temp \in Inodes
    BY <1>0, <1>2 DEF Write, Ready, FileStoreTypeOK
  <2>2. content' = Reachable([content EXCEPT ![temp] = Holding(writers[w].snapshot)]) /\ temp' = temp
    BY <1>2, <2>1 DEF Write, Overwritten
  <2>3. writers'[w].stage = "rename" /\ writers'[w].snapshot = writers[w].snapshot
    BY <1>0, <1>2, Moved DEF Write, Stage
  <2>4. content'[temp] = Holding(writers[w].snapshot)
    <3>1. writers[w].snapshot \in Snapshot
      BY <1>0 DEF FileStoreTypeOK, Writer
    <3> DEFINE new == [content EXCEPT ![temp] = Holding(writers[w].snapshot)]
    <3>2. new \in [Inodes -> Content] /\ new[temp] = Holding(writers[w].snapshot)
      BY <1>0, <2>1, <3>1, Contents DEF FileStoreTypeOK
    <3> HIDE DEF new
    <3> QED BY <2>1, <2>2, <3>2, Reached DEF new
  <2> QED BY <2>1, <2>2, <2>3, <2>4 DEF Ready, At
<1>3. CASE Rename(w)
  <2>1. temp # NoInode /\ content[temp] = Holding(writers[w].snapshot)
    BY <1>0, <1>3 DEF Rename, Ready
  <2>2. writers[w].fd \in Inodes \cup {NoInode}
    BY <1>0 DEF FileStoreTypeOK, Writer
  <2>3. writers'[w].stage = "chmod" /\ writers'[w].snapshot = writers[w].snapshot
    BY <1>0, <1>3, <2>2, Moved DEF Rename, MoveTo, Stage
  <2>4. file' = temp /\ content'[temp] = content[temp]
    BY <1>0, <1>3, <2>1, Reached DEF Rename, FileStoreTypeOK
  <2> QED BY <2>1, <2>3, <2>4 DEF Ready, At
<1>4. CASE Fail(w)
  <2>1. writers'[w].stage = "access"
    BY <1>0, <1>4, Moved DEF Fail, Stage
  <2> QED BY <2>1 DEF Ready, At
<1>5. CASE Access(w) /\ temp # NoInode
  <2>1. writers[w].fd \in Inodes \cup {NoInode}
    BY <1>0 DEF FileStoreTypeOK, Writer
  <2>2. writers'[w].stage = "unlink"
    BY <1>0, <1>5, <2>1, Moved DEF Access, MoveTo, Stage
  <2> QED BY <2>2 DEF Ready, At
<1> QED BY <1>1, <1>2, <1>3, <1>4, <1>5 DEF Moving

LEMMA AloneStep ==
    ASSUME StoreInv, [Next]_vars
    PROVE  Alone'
<1>0. FileStoreTypeOK /\ CallsInTurn /\ Alone
  BY DEF StoreInv
<1> SUFFICES ASSUME overlap' # "some"
             PROVE  /\ \A u, v \in Writers : InFlight(u)' /\ InFlight(v)' => u = v
                    /\ \A w \in Writers : Ready(w)' /\ Turn(w)'
  BY DEF Alone
<1> DEFINE Sole == \A u, v \in Writers : InFlight(u)' /\ InFlight(v)' => u = v
           Going == \A w \in Writers : Ready(w)' /\ Turn(w)'
\* Who is not in flight has nothing to keep.
<1>1. ASSUME NEW w \in Writers, ~InFlight(w)' PROVE Ready(w)' /\ Turn(w)'
  BY <1>1 DEF Ready, Turn, At, InFlight
<1>2. ASSUME NEW w \in Writers, Starting(w) PROVE Sole /\ Going
  <2>1. /\ \A v \in Writers \ {w} : ~InFlight(v)'
        /\ writers'[w].stage = "open" /\ Turn(w)'
    BY <1>0, <1>2, Starts DEF OthersStay, InFlight
  <2>2. Ready(w)'
    BY <2>1 DEF Ready, At
  <2> QED BY <1>1, <2>1, <2>2
<1>3. ASSUME NEW w \in Writers, Moving(w) PROVE Sole /\ Going
  <2>1. overlap # "some" /\ InFlight(w) /\ OthersStay(w)
    BY <1>0, <1>3, Moves
  <2>2. \A v \in Writers \ {w} : ~InFlight(v)'
    BY <1>0, <2>1 DEF OthersStay, InFlight, Alone
  <2>3. Ready(w)'
    BY <1>3, <2>1, ReadyMoves
  <2>4. Turn(w)'
    BY <1>0, <1>3, <2>1, Moves DEF Alone, Turn, InFlight, repositoryVars
  <2> QED BY <1>1, <2>2, <2>3, <2>4
<1>4. ASSUME NEW w \in Writers, Settling(w) PROVE Sole /\ Going
  <2>1. overlap # "some" /\ InFlight(w) /\ ~InFlight(w)' /\ OthersStay(w)
    BY <1>0, <1>4, Settles
  <2>2. \A v \in Writers : ~InFlight(v)'
    BY <1>0, <2>1 DEF OthersStay, InFlight, Alone
  <2> QED BY <1>1, <2>2
<1>5. CASE Quiet
  <2>1. UNCHANGED <<writers, overlap, file, temp, content>>
    BY <1>5
       DEF Quiet, SaveUninitialized, Initialize, Flush, Close, FlushReturns, LoadFile, vars,
           diskVars, historyVars
  <2>2. overlap # "some"
    BY <2>1
  <2>3. Sole
    BY <1>0, <2>1, <2>2 DEF Alone, InFlight
  <2>4. ASSUME NEW w \in Writers PROVE Ready(w)'
    BY <1>0, <2>1, <2>2 DEF Alone, Ready, At
  <2>5. CASE LoadFile
    <3>1. \A w \in Writers : ~InFlight(w)'
      BY <2>1, <2>2, <2>5, LoadsAlone DEF LoadFile, InFlight
    <3> QED BY <1>1, <2>3, <3>1
  <2>6. ASSUME ~LoadFile, NEW w \in Writers, InFlight(w) PROVE Turn(w)'
    <3>1. Turn(w)
      BY <1>0, <2>2 DEF Alone
    <3>2. store' = store /\ initialized' = initialized /\ writers' = writers
      BY <1>5, <2>1, <2>6
         DEF Quiet, SaveUninitialized, Initialize, Flush, Close, FlushReturns, vars
    <3>3. call' = call \/ call \in {"none", "flush"}
      BY <1>5, <2>6 DEF Quiet, SaveUninitialized, Initialize, Flush, Close, FlushReturns, vars
    <3> QED BY <2>6, <3>1, <3>2, <3>3 DEF Turn, InFlight
  <2> QED BY <1>1, <2>1, <2>3, <2>4, <2>5, <2>6 DEF InFlight
<1>6. CASE Crash
  BY <1>0, <1>1, <1>6, Crashes
<1> QED BY <1>2, <1>3, <1>4, <1>5, <1>6, StepKinds

\* While nothing overlaps only a rename changes what the next start would load.
LEMMA DiskSteps ==
    ASSUME StoreInv, overlap # "some", [Next]_vars
    PROVE  (\E w \in Writers : Rename(w)) \/ (file' = file /\ (file # NoInode => content'[file] = content[file]))
<1> USE FileStoreAssumption
<1> DEFINE Same == file' = file /\ (file # NoInode => content'[file] = content[file])
<1>0. /\ FileStoreTypeOK /\ CallsInTurn /\ NamesApart
      /\ \A w \in Writers : At(w, "write") => writers[w].fd # file
  BY DEF StoreInv, Alone, Ready, NamesApart
<1>1. ASSUME NEW w \in Writers, Open(w) PROVE Same
  <2>1. PICK i \in Inodes : content' = [content EXCEPT ![i] = Empty] /\ file' = file /\ i # file
    BY <1>0, <1>1 DEF Open, NewInode, Unused, FileStoreTypeOK, NamesApart
  <2> QED BY <1>0, <2>1 DEF FileStoreTypeOK
<1>2. ASSUME NEW w \in Writers, Write(w) \/ Fail(w) \/ Access(w) PROVE Same
  <2>1. file' = file
    BY <1>2 DEF Write, Fail, Access, Settle, diskVars
  <2>2. \/ UNCHANGED content
        \/ content' = Reachable(content)
        \/ At(w, "write") /\ \E new \in Content : content' = Reachable([content EXCEPT ![writers[w].fd] = new])
    <3>1. writers[w].snapshot \in Snapshot
      BY <1>0 DEF FileStoreTypeOK, Writer
    <3>2. Overwritten(content[writers[w].fd], writers[w].snapshot) \subseteq Content
      BY <3>1, Contents DEF Overwritten
    <3> QED BY <1>2, <3>2, Contents DEF Write, Fail, Access, Settle, diskVars
  <2>3. ASSUME NEW new \in [Inodes -> Content], content' = Reachable(new),
               file # NoInode => new[file] = content[file]
        PROVE  Same
    BY <1>0, <2>1, <2>3, Reached DEF FileStoreTypeOK
  <2>4. CASE At(w, "write") /\ \E new \in Content :
                content' = Reachable([content EXCEPT ![writers[w].fd] = new])
    <3>1. PICK new \in Content : content' = Reachable([content EXCEPT ![writers[w].fd] = new])
      BY <2>4
    <3> DEFINE after == [content EXCEPT ![writers[w].fd] = new]
    <3>2. after \in [Inodes -> Content] /\ (file # NoInode => after[file] = content[file])
      BY <1>0, <2>4 DEF FileStoreTypeOK
    <3> HIDE DEF after
    <3> QED BY <2>3, <3>1, <3>2 DEF after
  <2> QED BY <1>0, <2>1, <2>2, <2>3, <2>4 DEF FileStoreTypeOK
<1>3. ASSUME NEW w \in Writers, Settling(w) \/ Starting(w) PROVE Same
  BY <1>0, <1>3, Starts, Settles DEF diskVars
<1>4. CASE Quiet
  BY <1>4
     DEF Quiet, SaveUninitialized, Initialize, Flush, Close, FlushReturns, LoadFile, vars, diskVars
<1>5. CASE Crash
  <2>1. file # NoInode => file \in Inodes
    BY <1>0 DEF FileStoreTypeOK
  <2> QED BY <1>0, <1>5, <2>1, Crashes
<1> QED BY <1>1, <1>2, <1>3, <1>4, <1>5, StepKinds DEF Moving

\* A lone writer's rename puts in the file what the adapter holds.
LEMMA Renamed ==
    ASSUME StoreInv, overlap # "some", NEW w \in Writers, Rename(w)
    PROVE  /\ FileIsComplete' /\ OnDisk' = store
           /\ \A i \in Ids : acked[i] <= store[i]
<1>1. InFlight(w) /\ Ready(w) /\ Turn(w)
  BY DEF StoreInv, Alone, Rename, At, InFlight
<1>2. file' = temp /\ temp # NoInode /\ content'[temp] = Holding(store)
  BY <1>1, Reached DEF Rename, Ready, Turn, StoreInv, FileStoreTypeOK
<1> QED BY <1>1, <1>2 DEF FileIsComplete, OnDisk, Complete, Holding, StoreInv, Kept

LEMMA CompleteStep ==
    ASSUME StoreInv, [Next]_vars, overlap' = "none"
    PROVE  FileIsComplete'
<1>0. FileStoreTypeOK /\ CallsInTurn
  BY DEF StoreInv
<1>1. ASSUME NEW w \in Writers, Rename(w) PROVE FileIsComplete'
  BY <1>0, <1>1, Moves, Renamed DEF Moving
<1>2. ASSUME ~\E w \in Writers : Rename(w) PROVE FileIsComplete'
  <2>1. overlap = "none"
    <3>1. CASE Quiet
      BY <3>1
         DEF Quiet, SaveUninitialized, Initialize, Flush, Close, FlushReturns, LoadFile, vars,
             historyVars
    <3> QED BY <1>0, <1>2, <3>1, StepKinds, Starts, Moves, Settles, Crashes
  <2>2. FileIsComplete
    BY <2>1 DEF StoreInv
  <2> QED BY <1>2, <2>1, <2>2, DiskSteps DEF FileIsComplete, Complete
<1> QED BY <1>1, <1>2

LEMMA KeptStep ==
    ASSUME StoreInv, [Next]_vars
    PROVE  Kept'
<1> USE FileStoreAssumption
<1>0. FileStoreTypeOK /\ CallsInTurn /\ Kept /\ FileStoreTypeOK'
  BY StoreTypesStep DEF StoreInv
<1>1. /\ version \in Nat /\ version' \in Nat
      /\ \A i \in Ids : acked[i] \in Nat /\ store[i] \in Nat /\ acked'[i] \in Nat /\ store'[i] \in Nat
      /\ \A w \in Writers : writers[w].version \in Nat
  BY <1>0 DEF FileStoreTypeOK, Snapshot, Writer
<1>2. IdleWriter.version = 0 /\ \A i \in Ids : Nothing[i] = 0
  BY DEF IdleWriter, Nothing
<1> DEFINE Up == initialized \/ \E w \in Writers : InFlight(w)
\* When one writer changes at most, and nothing more is acknowledged.
<1>3. ASSUME version <= version',
             \A w \in Writers : writers'[w].version \in {writers[w].version, 0} \/ writers'[w].version <= version',
             \A i \in Ids : acked'[i] \in {0, acked[i]},
             Up' => \A i \in Ids : acked'[i] <= store'[i]
      PROVE  Kept'
  <2>1. \A w \in Writers : writers'[w].version <= version'
    BY <1>0, <1>1, <1>3 DEF Kept
  <2>2. \A i \in Ids : acked'[i] <= version'
    BY <1>0, <1>1, <1>3 DEF Kept
  <2> HIDE DEF Up
  <2>3. Kept' = (/\ \A w \in Writers : writers'[w].version <= version'
                 /\ \A i \in Ids : acked'[i] <= version'
                 /\ Up' => \A i \in Ids : acked'[i] <= store'[i])
    BY DEF Kept, Up
  <2> QED BY <1>3, <2>1, <2>2, <2>3
<1>4. ASSUME NEW w \in Writers, Starting(w) PROVE Kept'
  <2>1. \A v \in Writers : writers'[v].version = writers[v].version \/ writers'[v].version <= version'
    BY <1>0, <1>4, Starts DEF OthersStay
  <2>2. ASSUME NEW i \in Ids, NEW background \in BOOLEAN, Save(i, w, background) PROVE Kept'
    <3>1. /\ version' = version + 1 /\ acked' = acked /\ store' = [store EXCEPT ![i] = version + 1]
          /\ \A x \in Ids : acked[x] <= store[x] /\ acked[x] <= version
      BY <1>0, <2>2 DEF Save, Kept
    <3>2. \A x \in Ids : acked'[x] <= store'[x]
      BY <1>0, <1>1, <3>1 DEF FileStoreTypeOK, Snapshot
    <3> QED BY <1>1, <1>3, <2>1, <3>1, <3>2
  <2>3. ASSUME NEW i \in Ids, NEW background \in BOOLEAN, Delete(i, w, background) PROVE Kept'
    <3>1. /\ version' = version /\ acked' = [acked EXCEPT ![i] = 0] /\ store' = [store EXCEPT ![i] = 0]
          /\ \A x \in Ids : acked[x] <= store[x]
      BY <1>0, <2>3 DEF Delete, Kept
    <3>2. \A x \in Ids : acked'[x] <= store'[x] /\ acked'[x] \in {0, acked[x]}
      BY <1>0, <1>1, <3>1 DEF FileStoreTypeOK, Snapshot
    <3> QED BY <1>1, <1>3, <2>1, <3>1, <3>2
  <2>4. CASE CreateFile(w)
    <3>1. acked' = Nothing /\ version' = version
      BY <2>4 DEF CreateFile
    <3> QED BY <1>1, <1>2, <1>3, <2>1, <3>1
  <2>5. CASE CloseAdapter(w)
    <3>1. acked' = acked /\ version' = version /\ store' = store /\ initialized
      BY <1>0, <2>5 DEF CloseAdapter, CallsInTurn
    <3> QED BY <1>0, <1>1, <1>3, <2>1, <3>1 DEF Kept
  <2> QED BY <1>4, <2>2, <2>3, <2>4, <2>5 DEF Starting
<1>5. ASSUME NEW w \in Writers, Moving(w) PROVE Kept'
  <2>1. /\ \A v \in Writers : writers'[v].version = writers[v].version
        /\ UNCHANGED <<version, acked, store>> /\ InFlight(w)
    BY <1>0, <1>5, Moves DEF OthersStay, repositoryVars
  <2> QED BY <1>0, <1>1, <1>3, <2>1 DEF Kept
<1>6. ASSUME NEW w \in Writers, Settling(w) PROVE Kept'
  <2>1. /\ \A v \in Writers : writers'[v].version \in {writers[v].version, 0}
        /\ UNCHANGED <<version, store>> /\ InFlight(w)
    BY <1>0, <1>2, <1>6, Settles DEF OthersStay
  <2>2. \A i \in Ids : acked[i] <= store[i]
    BY <1>0, <2>1 DEF Kept
  <2>3. CASE acked' = acked
    <3>1. \A i \in Ids : acked'[i] <= store'[i] /\ acked'[i] \in {0, acked[i]}
      BY <2>1, <2>2, <2>3
    <3> QED BY <1>1, <1>3, <2>1, <3>1
  <2>4. CASE /\ store[writers[w].id] = writers[w].version
             /\ acked' = [acked EXCEPT ![writers[w].id] = writers[w].version]
    <3> DEFINE x == writers[w].id
               v == writers[w].version
    <3>1. \A i \in Ids : acked'[i] = acked[i] \/ (acked'[i] = v /\ store[i] = v)
      <4>1. acked' = [acked EXCEPT ![x] = v] /\ store[x] = v
        BY <2>4
      <4> HIDE DEF x, v
      <4> QED BY <1>0, <4>1 DEF FileStoreTypeOK, Snapshot
    <3>2. \A i \in Ids : acked'[i] <= store'[i]
      BY <1>1, <2>1, <2>2, <3>1
    <3>3. \A i \in Ids : acked'[i] <= version'
      BY <1>0, <1>1, <2>1, <3>1 DEF Kept
    <3>4. \A u \in Writers : writers'[u].version <= version'
      BY <1>0, <1>1, <2>1 DEF Kept
    <3> QED BY <3>2, <3>3, <3>4 DEF Kept
  <2> QED BY <1>0, <1>6, <2>3, <2>4, Settles
<1>7. CASE Quiet
  <2>1. writers' = writers /\ version' \in {version, version + 1}
    BY <1>7
       DEF Quiet, SaveUninitialized, Initialize, Flush, Close, FlushReturns, LoadFile, vars
  <2>2. CASE LoadFile
    <3>1. CASE overlap = "none"
      <4>1. acked' = acked /\ store' = OnDisk /\ \A i \in Ids : acked[i] <= OnDisk[i]
        BY <2>2, <3>1 DEF LoadFile, Readable, OnDisk, StoreInv, AckedSavesSurvive
      <4> QED BY <1>1, <1>3, <2>1, <4>1
    <3>2. CASE overlap # "none"
      BY <1>1, <1>2, <1>3, <2>1, <2>2, <3>2 DEF LoadFile
    <3> QED BY <3>1, <3>2
  <2>3. CASE ~LoadFile
    <3>1. UNCHANGED <<store, acked, initialized>>
      BY <1>7, <2>3
         DEF Quiet, SaveUninitialized, Initialize, Flush, Close, FlushReturns, vars, historyVars
    <3>2. Up' => \A i \in Ids : acked'[i] <= store'[i]
      BY <1>0, <2>1, <3>1 DEF Kept, InFlight
    <3> QED BY <1>1, <1>3, <2>1, <3>1, <3>2
  <2> QED BY <2>2, <2>3
<1>8. CASE Crash
  <2>1. /\ \A w \in Writers : writers'[w] = IdleWriter /\ ~InFlight(w)'
        /\ ~initialized' /\ version' = version /\ acked' \in {acked, Nothing}
    BY <1>0, <1>8, Crashes
  <2> QED BY <1>1, <1>2, <1>3, <2>1
<1> QED BY <1>4, <1>5, <1>6, <1>7, <1>8, StepKinds

LEMMA AckedStep ==
    ASSUME StoreInv, [Next]_vars
    PROVE  AckedSavesSurvive'
<1> USE FileStoreAssumption
<1> SUFFICES ASSUME overlap' = "none" PROVE \A i \in Ids : acked'[i] <= OnDisk'[i]
  BY DEF AckedSavesSurvive
<1>0. FileStoreTypeOK /\ CallsInTurn /\ FileStoreTypeOK'
  BY StoreTypesStep DEF StoreInv
<1>1. \A i \in Ids : acked[i] \in Nat /\ OnDisk'[i] \in Nat
  <2>1. OnDisk' \in Snapshot
    BY <1>0, Contents DEF OnDisk, Complete, FileStoreTypeOK, Content
  <2> QED BY <1>0, <2>1 DEF FileStoreTypeOK, Snapshot
<1>2. ASSUME NEW w \in Writers, Rename(w) PROVE \A i \in Ids : acked'[i] <= OnDisk'[i]
  <2>1. overlap # "some" /\ acked' = acked
    BY <1>0, <1>2, Moves DEF Moving
  <2> QED BY <1>2, <2>1, Renamed
<1>3. ASSUME ~\E w \in Writers : Rename(w) PROVE \A i \in Ids : acked'[i] <= OnDisk'[i]
  <2>1. overlap = "none"
    <3>1. CASE Quiet
      BY <3>1
         DEF Quiet, SaveUninitialized, Initialize, Flush, Close, FlushReturns, LoadFile, vars,
             historyVars
    <3> QED BY <1>0, <1>3, <3>1, StepKinds, Starts, Moves, Settles, Crashes
  <2>2. OnDisk' = OnDisk /\ \A i \in Ids : acked[i] <= OnDisk[i]
    BY <1>3, <2>1, DiskSteps DEF OnDisk, Complete, StoreInv, AckedSavesSurvive
  <2>3. ASSUME \A i \in Ids : acked'[i] \in {0, acked[i]} PROVE \A i \in Ids : acked'[i] <= OnDisk'[i]
    BY <1>1, <2>2, <2>3
  <2>4. ASSUME NEW w \in Writers, Settling(w) PROVE \A i \in Ids : acked'[i] <= OnDisk'[i]
    <3>1. CASE acked' = acked
      BY <2>3, <3>1
    <3>2. CASE /\ At(w, "chmod") /\ store[writers[w].id] = writers[w].version
               /\ acked' = [acked EXCEPT ![writers[w].id] = writers[w].version]
      <4>1. file # NoInode /\ content[file] = Holding(store)
        BY <2>1, <3>2 DEF StoreInv, Alone, Ready, Turn, At, InFlight
      <4>2. OnDisk = store
        BY <4>1 DEF OnDisk, Complete, Holding
      <4>3. \A i \in Ids : acked'[i] = acked[i] \/ acked'[i] = store[i]
        BY <1>0, <3>2 DEF FileStoreTypeOK, Snapshot
      <4> QED BY <1>1, <2>2, <4>2, <4>3
    <3> QED BY <1>0, <2>4, <3>1, <3>2, Settles
  <2>5. ASSUME NEW w \in Writers, Starting(w) PROVE \A i \in Ids : acked'[i] \in {0, acked[i]}
    <3>1. CASE \E i \in Ids, background \in BOOLEAN : Save(i, w, background) \/ Delete(i, w, background)
      BY <1>0, <3>1 DEF Save, Delete, FileStoreTypeOK, Snapshot
    <3>2. CASE CreateFile(w) \/ CloseAdapter(w)
      BY <3>2 DEF CreateFile, CloseAdapter, Nothing
    <3> QED BY <2>5, <3>1, <3>2 DEF Starting
  <2>6. ASSUME Quiet PROVE \A i \in Ids : acked'[i] \in {0, acked[i]}
    BY <2>6
       DEF Quiet, SaveUninitialized, Initialize, Flush, Close, FlushReturns, LoadFile, vars,
           historyVars, Nothing
  <2>7. ASSUME Crash PROVE \A i \in Ids : acked'[i] \in {0, acked[i]}
    BY <1>0, <2>7, Crashes DEF Nothing
  <2> QED BY <1>0, <2>3, <2>4, <2>5, <2>6, <2>7, StepKinds, Moves
<1> QED BY <1>2, <1>3

LEMMA StoreInvInit ==
    ASSUME Init
    PROVE  StoreInv
<1>1. FileStoreTypeOK
  BY StoreTypesInit
<1>2. /\ \A w \in Writers : writers[w].stage = "idle" /\ writers[w].version = 0
      /\ ~initialized /\ file = NoInode /\ temp = NoInode /\ call = "none" /\ version = 0
  BY Idling, Zenon DEF Init, IdleWriter
<1>3. \A i \in Ids : acked[i] = 0 /\ OnDisk[i] = 0
  BY <1>2 DEF Init, OnDisk, Complete, Nothing
<1> QED BY <1>1, <1>2, <1>3
        DEF StoreInv, CallsInTurn, NamesApart, Alone, Ready, Turn, Kept, At, InFlight,
            AckedSavesSurvive, FileIsComplete

LEMMA StoreInvariant == Spec => []StoreInv
<1>1. Init => StoreInv
  BY StoreInvInit
<1>2. StoreInv /\ [Next]_vars => StoreInv'
  <2> SUFFICES ASSUME StoreInv, [Next]_vars PROVE StoreInv'
    OBVIOUS
  <2>1. FileStoreTypeOK' /\ CallsInTurn'
    BY StoreTypesStep, CallsStep DEF StoreInv
  <2>2. NamesApart' /\ Alone' /\ Kept' /\ (overlap' = "none" => FileIsComplete')
    BY NamesStep, AloneStep, KeptStep, CompleteStep
  <2>3. AckedSavesSurvive'
    BY AckedStep
  <2> QED BY <2>1, <2>2, <2>3 DEF StoreInv
<1> QED BY <1>1, <1>2, PTL DEF Spec

\* saveToFile, for any number of calls of it at once, whichever file operation fails and
\* wherever the process dies: the storage file is missing or whole at every moment, unless
\* saves have overlapped and none has run alone since.
THEOREM StorageSound == Spec => []StorageIsSound
<1>1. StoreInv => StorageIsSound
  BY DEF StoreInv, StorageIsSound
<1> QED BY <1>1, StoreInvariant, PTL

\* Once the rename of a save that runs alone is done, after whatever overlap before it, all
\* that was acknowledged is in the file, in that version or a later one, until it is deleted
\* or saves overlap again: through failed saves, restarts, close and crashes.
THEOREM AckedSurvive == Spec => []AckedSavesSurvive
<1>1. StoreInv => AckedSavesSurvive
  BY DEF StoreInv
<1> QED BY <1>1, StoreInvariant, PTL
-----------------------------------------------------------------------------
(***************************************************************************)
(* The boundary: the stack of loops.                                       *)
(***************************************************************************)
\* What the loops of these kinds still have to visit.
Pending(stack, loops) ==
    {c \in ContractIds : \E i \in DOMAIN stack : stack[i].loop \in loops /\ c \in stack[i].queue}

\* The same loops, with what they had to visit except lost.
Keeps(t, s, lost) ==
    /\ t \in Seq(Frame) /\ Len(t) = Len(s)
    /\ \A i \in DOMAIN s : t[i].loop = s[i].loop /\ s[i].queue \ lost \subseteq t[i].queue

LEMMA KeptPending ==
    ASSUME NEW s \in Seq(Frame), NEW t, NEW lost, Keeps(t, s, lost), NEW loops
    PROVE  Pending(s, loops) \ lost \subseteq Pending(t, loops)
<1>1. DOMAIN t = DOMAIN s
  BY DEF Keeps
<1> QED BY <1>1 DEF Keeps, Pending

\* The last frame is replaced.
LEMMA Replaced ==
    ASSUME NEW s \in Seq(Frame), s # <<>>, NEW f \in Frame
    PROVE  /\ [s EXCEPT ![Len(s)] = f] \in Seq(Frame)
           /\ Len([s EXCEPT ![Len(s)] = f]) = Len(s)
           /\ Len(s) \in DOMAIN s /\ Last(s) = s[Len(s)] /\ Last(s) \in Frame
           /\ \A i \in DOMAIN s : [s EXCEPT ![Len(s)] = f][i] = IF i = Len(s) THEN f ELSE s[i]
<1>1. Len(s) \in Nat /\ Len(s) > 0
  OBVIOUS
<1>2. Len(s) \in DOMAIN s /\ s[Len(s)] \in Frame
  BY <1>1
<1> QED BY <1>1, <1>2 DEF Last

LEMMA CallKeeps ==
    ASSUME frames \in Seq(Frame), MayCall
    PROVE  Keeps(CallMade, frames, {})
<1>1. CASE Idle
  BY <1>1 DEF CallMade, Keeps, Idle
<1>2. CASE ~Idle
  <2> DEFINE f == [frames[Len(frames)] EXCEPT !.called = TRUE]
  <2>1. frames[Len(frames)] \in Frame
    BY <1>2 DEF Idle
  <2>2. f \in Frame /\ f.loop = frames[Len(frames)].loop /\ f.queue = frames[Len(frames)].queue
    BY <2>1 DEF Frame
  <2>3. CallMade = [frames EXCEPT ![Len(frames)] = f]
    BY <1>2 DEF CallMade
  <2> HIDE DEF f
  <2> QED BY <1>2, <2>2, <2>3, Replaced DEF Keeps, Idle
<1> QED BY <1>1, <1>2

\* A function over the indices of a sequence is a sequence.
LEMMA Mapped ==
    ASSUME NEW s \in Seq(Frame), NEW t, t \in [DOMAIN s -> Frame]
    PROVE  t \in Seq(Frame) /\ Len(t) = Len(s)
<1>1. Len(s) \in Nat /\ DOMAIN s = 1..Len(s)
  OBVIOUS
<1> QED BY <1>1

LEMMA EnteredKeeps ==
    ASSUME NEW s \in Seq(Frame), NEW c \in ContractIds
    PROVE  Keeps(Entered(s, c), s, {})
<1> DEFINE t == Entered(s, c)
<1>1. \A i \in DOMAIN s : s[i] \in Frame
  OBVIOUS
<1>2. \A f \in Frame : /\ [f EXCEPT !.queue = @ \cup {c}] \in Frame
                       /\ [f EXCEPT !.queue = @ \cup {c}].loop = f.loop
                       /\ [f EXCEPT !.queue = @ \cup {c}].queue = f.queue \cup {c}
  BY DEF Frame
<1>3. t \in [DOMAIN s -> Frame]
  BY <1>1, <1>2 DEF Entered
<1>4. \A i \in DOMAIN s : t[i].loop = s[i].loop /\ s[i].queue \subseteq t[i].queue
  BY <1>1, <1>2 DEF Entered
<1> HIDE DEF t
<1>5. t \in Seq(Frame) /\ Len(t) = Len(s)
  BY <1>3, Mapped
<1> QED BY <1>4, <1>5 DEF Keeps, t

LEMMA LeftKeeps ==
    ASSUME NEW s \in Seq(Frame), NEW c
    PROVE  Keeps(Left(s, c), s, {c})
<1> DEFINE t == Left(s, c)
<1>1. \A i \in DOMAIN s : s[i] \in Frame
  OBVIOUS
<1>2. \A f \in Frame : /\ [f EXCEPT !.queue = @ \ {c}] \in Frame
                       /\ [f EXCEPT !.queue = @ \ {c}].loop = f.loop
                       /\ [f EXCEPT !.queue = @ \ {c}].queue = f.queue \ {c}
  BY DEF Frame
<1>3. t \in [DOMAIN s -> Frame]
  BY <1>1, <1>2 DEF Left
<1>4. \A i \in DOMAIN s : t[i].loop = s[i].loop /\ s[i].queue \ {c} \subseteq t[i].queue
  BY <1>1, <1>2 DEF Left
<1> HIDE DEF t
<1>5. t \in Seq(Frame) /\ Len(t) = Len(s)
  BY <1>3, Mapped
<1> QED BY <1>4, <1>5 DEF Keeps, t

\* A round of a loop takes c off that loop and off no other.
LEMMA VisitKeeps ==
    ASSUME frames \in Seq(Frame), NEW c, NEW listening \in BOOLEAN, ~Idle
    PROVE  /\ Keeps(Visited(c, listening), frames, {c})
           /\ \A loops : Top.loop \notin loops =>
                 Pending(frames, loops) \subseteq Pending(Visited(c, listening), loops)
<1> DEFINE top == frames[Len(frames)]
           queue == top.queue \ {c}
           f == Round(top, c, listening)
           t == Visited(c, listening)
<1>1. top \in Frame /\ Top = top
  BY DEF Idle, Top, Last
<1>2. queue \in SUBSET ContractIds
  BY <1>1 DEF Frame
<1>3. t = [frames EXCEPT ![Len(frames)] = f]
  BY DEF Visited
<1>4. f \in Frame /\ f.loop = top.loop /\ f.queue = queue
  <2>1. f = [[[top EXCEPT !.queue = queue] EXCEPT !.listening = listening] EXCEPT !.called = FALSE]
    BY <1>1 DEF Frame, Round
  <2> HIDE DEF queue
  <2> QED BY <1>1, <1>2, <2>1 DEF Frame
<1> HIDE DEF f
<1>5. /\ t \in Seq(Frame) /\ Len(t) = Len(frames) /\ DOMAIN t = DOMAIN frames
      /\ \A i \in DOMAIN frames : t[i] = IF i = Len(frames) THEN f ELSE frames[i]
  BY <1>3, <1>4, Replaced DEF Idle
<1> HIDE DEF t
<1>6. Keeps(t, frames, {c})
  BY <1>4, <1>5 DEF Keeps, queue
<1>7. ASSUME NEW loops, Top.loop \notin loops
      PROVE  Pending(frames, loops) \subseteq Pending(t, loops)
  BY <1>1, <1>5, <1>7 DEF Pending
<1> HIDE DEF top
<1> QED BY <1>6, <1>7 DEF t

LEMMA PushKeeps ==
    ASSUME NEW s \in Seq(Frame), NEW f \in Frame
    PROVE  /\ Append(s, f) \in Seq(Frame) /\ Len(Append(s, f)) = Len(s) + 1
           /\ \A loops : Pending(s, loops) \subseteq Pending(Append(s, f), loops)
           /\ \A loops : f.loop \in loops => f.queue \subseteq Pending(Append(s, f), loops)
<1> DEFINE t == Append(s, f)
<1>1. /\ t \in Seq(Frame) /\ Len(t) = Len(s) + 1 /\ Len(s) \in Nat
      /\ \A i \in DOMAIN s : t[i] = s[i]
      /\ t[Len(s) + 1] = f
  OBVIOUS
<1>2. DOMAIN s \subseteq DOMAIN t /\ Len(s) + 1 \in DOMAIN t
  BY <1>1
<1> HIDE DEF t
<1>3. f.queue \subseteq ContractIds
  BY DEF Frame
<1>4. \A loops : Pending(s, loops) \subseteq Pending(t, loops)
  BY <1>1, <1>2 DEF Pending
<1>5. \A loops : f.loop \in loops => f.queue \subseteq Pending(t, loops)
  BY <1>1, <1>2, <1>3 DEF Pending
<1> QED BY <1>1, <1>4, <1>5 DEF t
-----------------------------------------------------------------------------
(***************************************************************************)
(* The boundary: types and the invariants of the loops.                    *)
(***************************************************************************)
BoundaryTypes ==
    /\ mode \in DaemonMode /\ cached \in DaemonMode
    /\ active \subseteq ContractIds /\ suspended \subseteq ContractIds
    /\ frames \in Seq(Frame) /\ Len(frames) <= MaxDepth
    /\ reads \subseteq Read
    /\ inLockdown => mode = "lockdown"

\* A contract that runs below its mode waits for a loop that suspends.
Evaluated == Exposed(cached) \subseteq unevaluated \cup Pending(frames, {"downgrade", "initial"})

\* A suspended contract that could operate waits for a loop that resumes.
Resumed == autoResume => Resumable(cached) \subseteq held \cup Pending(frames, {"upgrade"})

StackOK == frames \in Seq(Frame) /\ Len(frames) <= MaxDepth

\* Nothing leaves the queues, and nothing new needs one.
LEMMA StackCovers ==
    ASSUME BoundaryTypes, Evaluated, Resumed,
           \A loops : Pending(frames, loops) \subseteq Pending(frames', loops),
           unevaluated \subseteq unevaluated', held \subseteq held', autoResume' = autoResume,
           Exposed(cached)' \subseteq Exposed(cached) \cup unevaluated',
           Resumable(cached)' \subseteq Resumable(cached) \cup held'
    PROVE  Evaluated' /\ Resumed'
<1>1. Evaluated'
  BY DEF Evaluated
<1>2. Resumed'
  BY DEF Resumed
<1> QED BY <1>1, <1>2

\* A call that starts no loop.
LEMMA NoLoopStep ==
    ASSUME BoundaryTypes, MayCall, frames' = CallMade
    PROVE  StackOK' /\ \A loops : Pending(frames, loops) \subseteq Pending(frames', loops)
<1>1. Keeps(frames', frames, {})
  BY CallKeeps DEF BoundaryTypes
<1>2. StackOK'
  BY <1>1 DEF Keeps, StackOK, BoundaryTypes
<1>3. \A loops : Pending(frames, loops) \ {} \subseteq Pending(frames', loops)
  BY <1>1, KeptPending DEF BoundaryTypes
<1> QED BY <1>2, <1>3

\* A call that starts one.
LEMMA LoopStep ==
    ASSUME BoundaryTypes, MayCall,
           NEW loop \in {"downgrade", "initial", "upgrade"}, NEW queue \in SUBSET ContractIds,
           Calling(loop, queue, FALSE)
    PROVE  /\ StackOK'
           /\ \A loops : Pending(frames, loops) \subseteq Pending(frames', loops)
           /\ \A loops : loop \in loops => queue \subseteq Pending(frames', loops)
<1> DEFINE f == [loop |-> loop, queue |-> queue, listening |-> FALSE, called |-> FALSE]
           s == CallMade
<1>1. f \in Frame /\ f.loop = loop /\ f.queue = queue
  BY DEF Frame
<1>2. frames' = Append(s, f) /\ Len(frames) < MaxDepth
  BY DEF Calling
<1> HIDE DEF f
<1>3. Keeps(s, frames, {})
  BY CallKeeps DEF BoundaryTypes
<1> HIDE DEF s
<1>4. s \in Seq(Frame) /\ Len(s) = Len(frames)
  BY <1>3 DEF Keeps
<1>5. \A loops : Pending(frames, loops) \ {} \subseteq Pending(s, loops)
  BY <1>3, KeptPending DEF BoundaryTypes
<1>6. /\ Append(s, f) \in Seq(Frame) /\ Len(Append(s, f)) = Len(s) + 1
      /\ \A loops : Pending(s, loops) \subseteq Pending(Append(s, f), loops)
      /\ \A loops : f.loop \in loops => f.queue \subseteq Pending(Append(s, f), loops)
  BY <1>1, <1>4, PushKeeps
<1>7. StackOK'
  <2>1. Len(frames) \in Nat /\ MaxDepth \in Nat
    BY BoundaryAssumption DEF BoundaryTypes
  <2> QED BY <1>2, <1>4, <1>6, <2>1 DEF StackOK
<1>8. \A loops : Pending(frames, loops) \subseteq Pending(frames', loops)
  BY <1>2, <1>5, <1>6
<1>9. \A loops : loop \in loops => queue \subseteq Pending(frames', loops)
  BY <1>1, <1>2, <1>6
<1> QED BY <1>7, <1>8, <1>9

\* What can operate can operate in any mode that is no less restrictive, short of lockdown.
LEMMA UpgradesExposeNobody ==
    ASSUME NEW from \in DaemonMode, NEW to \in DaemonMode, NEW c \in ContractIds,
           to # "lockdown", ~IsDowngrade(from, to), CanOperateIn(from, c)
    PROVE  CanOperateIn(to, c)
<1>1. /\ Restrictiveness[from] \in Int /\ Restrictiveness[to] \in Int
      /\ Restrictiveness[RequiredMode[MinMode[c]]] \in Int
  BY BoundaryAssumption DEF Restrictiveness, DaemonMode, RequiredMode
<1>2. Restrictiveness[to] >= Restrictiveness[from]
  BY <1>1 DEF IsDowngrade
<1> QED BY <1>1, <1>2 DEF CanOperateIn

\* A change of mode starts the loop that looks at whom it concerns.
LEMMA ChangeStep ==
    ASSUME BoundaryTypes, Evaluated, Resumed, MayCall,
           NEW from \in DaemonMode, NEW to \in DaemonMode, NotifyModeChange(from, to),
           UNCHANGED <<active, autoResume, subscribed, suspended>>
    PROVE  StackOK' /\ cached' \in DaemonMode /\ Evaluated' /\ Resumed'
<1>1. CASE ~subscribed
  <2>1. frames' = CallMade /\ UNCHANGED <<cached, history>>
    BY <1>1 DEF NotifyModeChange
  <2>2. StackOK' /\ \A loops : Pending(frames, loops) \subseteq Pending(frames', loops)
    BY <2>1, NoLoopStep
  <2>3. Evaluated' /\ Resumed'
    BY <2>1, <2>2, StackCovers DEF Exposed, Resumable, CanOperateIn, history
  <2> QED BY <2>1, <2>2, <2>3 DEF BoundaryTypes
<1>2. CASE subscribed /\ (to = "lockdown" \/ IsDowngrade(from, to))
  <2>1. cached' = to /\ Downgrade(to)
    BY <1>2 DEF NotifyModeChange, HandleModeChange
  <2>2. /\ StackOK'
        /\ \A loops : Pending(frames, loops) \subseteq Pending(frames', loops)
        /\ \A loops : "downgrade" \in loops => active \subseteq Pending(frames', loops)
    BY <2>1, LoopStep DEF Downgrade, BoundaryTypes
  <2>3. Evaluated'
    BY <2>1, <2>2 DEF Evaluated, Exposed
  <2>4. Resumed'
    BY <2>1, <2>2 DEF Resumed, Resumable, Downgrade
  <2> QED BY <2>1, <2>2, <2>3, <2>4
<1>3. CASE subscribed /\ ~(to = "lockdown" \/ IsDowngrade(from, to))
  <2>1. cached' = to /\ Upgrade(from, to)
    BY <1>3 DEF NotifyModeChange, HandleModeChange
  <2>2. /\ StackOK'
        /\ \A loops : Pending(frames, loops) \subseteq Pending(frames', loops)
        /\ autoResume => suspended \subseteq Pending(frames', {"upgrade"})
    <3>1. CASE autoResume
      BY <3>1, <2>1, LoopStep DEF Upgrade, BoundaryTypes
    <3>2. CASE ~autoResume
      BY <3>2, <2>1, NoLoopStep DEF Upgrade
    <3> QED BY <3>1, <3>2
  <2>3. Evaluated'
    <3>1. CASE cached = from
      <4>1. unevaluated' = unevaluated
        BY <2>1, <3>1 DEF Upgrade
      <4>2. Exposed(to) \subseteq Exposed(from)
        BY <1>3, UpgradesExposeNobody DEF Exposed, BoundaryTypes
      <4>3. Exposed(cached)' = Exposed(to)
        BY <2>1 DEF Exposed
      <4> QED BY <2>2, <3>1, <4>1, <4>2, <4>3 DEF Evaluated
    <3>2. CASE cached # from
      BY <2>1, <3>2 DEF Upgrade, Evaluated, Exposed
    <3> QED BY <3>1, <3>2
  <2>4. Resumed'
    BY <2>2 DEF Resumed, Resumable
  <2> QED BY <2>1, <2>2, <2>3, <2>4
<1> QED BY <1>1, <1>2, <1>3

\* One contract is suspended or resumed by hand.
LEMMA ByHandStep ==
    ASSUME BoundaryTypes, Evaluated, Resumed, NEW c \in ContractIds,
           SuspendContract(c) \/ ResumeContract(c)
    PROVE  StackOK' /\ Evaluated' /\ Resumed'
<1> DEFINE s == CallMade
           t == IF c \in suspended' THEN Entered(s, c) ELSE Left(s, c)
           lost == IF c \in suspended' THEN {} ELSE {c}
<1>1. Keeps(s, frames, {})
  BY CallKeeps DEF BoundaryTypes, SuspendContract, ResumeContract
<1>2. /\ frames' = Append(t, Single) /\ Len(frames) < MaxDepth
      /\ UNCHANGED <<active, autoResume, cached, unevaluated>>
      /\ held \subseteq held'
  BY DEF SuspendContract, ResumeContract, history
<1>3. \/ suspended' = suspended \cup {c} /\ c \in held'
      \/ suspended' = suspended \ {c} /\ CanOperate(c)
  BY DEF SuspendContract, ResumeContract
<1> HIDE DEF s
<1>4. s \in Seq(Frame) /\ Len(s) = Len(frames)
  BY <1>1 DEF Keeps
<1>5. Keeps(t, s, lost)
  BY <1>4, EnteredKeeps, LeftKeeps
<1> HIDE DEF t
<1>6. t \in Seq(Frame) /\ Len(t) = Len(frames)
  BY <1>4, <1>5 DEF Keeps
<1>7. Single \in Frame
  BY DEF Single, Frame
<1>8. /\ Append(t, Single) \in Seq(Frame) /\ Len(Append(t, Single)) = Len(t) + 1
      /\ \A loops : Pending(t, loops) \subseteq Pending(Append(t, Single), loops)
  BY <1>6, <1>7, PushKeeps
<1>9. StackOK'
  <2>1. Len(frames) \in Nat /\ MaxDepth \in Nat
    BY BoundaryAssumption DEF BoundaryTypes
  <2> QED BY <1>2, <1>6, <1>8, <2>1 DEF StackOK
<1>10. \A loops : Pending(frames, loops) \ lost \subseteq Pending(frames', loops)
  <2>1. \A loops : Pending(frames, loops) \ {} \subseteq Pending(s, loops)
    BY <1>1, KeptPending DEF BoundaryTypes
  <2>2. \A loops : Pending(s, loops) \ lost \subseteq Pending(t, loops)
    BY <1>4, <1>5, KeptPending
  <2> HIDE DEF lost
  <2> QED BY <1>2, <1>8, <2>1, <2>2
<1>11. Evaluated'
  <2>1. Exposed(cached)' \subseteq Exposed(cached) \ {c}
    BY <1>2, <1>3 DEF Exposed, CanOperate, CanOperateIn
  <2> QED BY <1>2, <1>10, <2>1 DEF Evaluated
<1>12. Resumed'
  <2>1. Resumable(cached)' \subseteq (Resumable(cached) \ lost) \cup held'
    BY <1>2, <1>3 DEF Resumable, CanOperateIn
  <2> HIDE DEF lost
  <2> QED BY <1>2, <1>10, <2>1 DEF Resumed
<1> QED BY <1>9, <1>11, <1>12

\* A round of a loop that suspends: c is suspended, or able to operate, when it is off the queue.
LEMMA VisitActiveStep ==
    ASSUME BoundaryTypes, Evaluated, Resumed, NEW c \in ContractIds, VisitActive(c)
    PROVE  StackOK' /\ Evaluated' /\ Resumed'
<1>1. ~Idle /\ Top.loop \notin {"upgrade"}
  BY DEF VisitActive, LoopIs
<1>2. UNCHANGED <<active, autoResume, cached, held, unevaluated>>
  BY DEF VisitActive, history
<1>3. PICK t :
        /\ \E listening \in BOOLEAN : t = Visited(c, listening)
        /\ frames' = t \/ frames' = Entered(t, c)
  BY DEF VisitActive
<1>4. suspended \subseteq suspended' /\ suspended' \subseteq suspended \cup {c}
  BY DEF VisitActive
<1>5. CanOperate(c) \/ c \in suspended'
  BY DEF VisitActive
<1>6. ~CanOperate(c) \/ suspended' = suspended
  BY DEF VisitActive
<1>7. Keeps(t, frames, {c}) /\ Pending(frames, {"upgrade"}) \subseteq Pending(t, {"upgrade"})
  BY <1>1, <1>3, VisitKeeps DEF BoundaryTypes
<1>8. t \in Seq(Frame) /\ Len(t) = Len(frames)
  BY <1>7 DEF Keeps
<1>9. Keeps(frames', t, {})
  <2>1. Keeps(t, t, {})
    BY <1>8 DEF Keeps
  <2> QED BY <1>3, <1>8, <2>1, EnteredKeeps
<1>10. StackOK'
  BY <1>8, <1>9 DEF Keeps, StackOK, BoundaryTypes
<1>11. \A loops : Pending(t, loops) \ {} \subseteq Pending(frames', loops)
  BY <1>8, <1>9, KeptPending
<1>12. \A loops : Pending(frames, loops) \ {c} \subseteq Pending(t, loops)
  BY <1>7, KeptPending DEF BoundaryTypes
<1>13. Evaluated'
  <2>1. Exposed(cached)' \subseteq Exposed(cached) \ {c}
    BY <1>2, <1>4, <1>5 DEF Exposed, CanOperate, CanOperateIn
  <2> QED BY <1>2, <1>11, <1>12, <2>1 DEF Evaluated
<1>14. Resumed'
  <2>1. Resumable(cached)' \subseteq Resumable(cached)
    BY <1>2, <1>4, <1>6 DEF Resumable, CanOperate, CanOperateIn
  <2> QED BY <1>2, <1>7, <1>11, <2>1 DEF Resumed
<1> QED BY <1>10, <1>13, <1>14

\* A round of a loop that resumes: c is resumed, or unable to operate, when it is off the queue.
LEMMA VisitSuspendedStep ==
    ASSUME BoundaryTypes, Evaluated, Resumed, NEW c \in ContractIds, VisitSuspended(c)
    PROVE  StackOK' /\ Evaluated' /\ Resumed'
<1> DEFINE suspending == {"downgrade", "initial"}
<1>1. ~Idle /\ Top.loop \notin suspending
  BY DEF VisitSuspended, LoopIs
<1>2. UNCHANGED <<active, autoResume, cached, held, unevaluated>>
  BY DEF VisitSuspended, history
<1>3. PICK t :
        /\ \E listening \in BOOLEAN : t = Visited(c, listening)
        /\ \/ frames' = t /\ ~CanOperate(c) /\ suspended' = suspended
           \/ frames' = Left(t, c) /\ CanOperate(c) /\ suspended' = suspended \ {c}
  BY DEF VisitSuspended
<1>4. Keeps(t, frames, {c}) /\ Pending(frames, suspending) \subseteq Pending(t, suspending)
  BY <1>1, <1>3, VisitKeeps DEF BoundaryTypes
<1>5. t \in Seq(Frame) /\ Len(t) = Len(frames)
  BY <1>4 DEF Keeps
<1>6. Keeps(frames', t, {c}) /\ (frames' = t \/ CanOperate(c))
  <2>1. Keeps(t, t, {c})
    BY <1>5 DEF Keeps
  <2> QED BY <1>3, <1>5, <2>1, LeftKeeps
<1>7. StackOK'
  BY <1>5, <1>6 DEF Keeps, StackOK, BoundaryTypes
<1>8. \A loops : Pending(t, loops) \ {c} \subseteq Pending(frames', loops)
  BY <1>5, <1>6, KeptPending
<1>9. \A loops : Pending(frames, loops) \ {c} \subseteq Pending(t, loops)
  BY <1>4, KeptPending DEF BoundaryTypes
<1> HIDE DEF suspending
<1>10. Evaluated'
  <2>1. Exposed(cached)' \subseteq Exposed(cached) /\ (CanOperate(c) => c \notin Exposed(cached)')
    BY <1>2, <1>3 DEF Exposed, CanOperate, CanOperateIn
  <2>2. \A x \in Exposed(cached)' : x \in Pending(frames, suspending) => x \in Pending(frames', suspending)
    BY <1>4, <1>6, <1>8, <2>1
  <2> QED BY <1>2, <2>1, <2>2 DEF Evaluated, suspending
<1>11. Resumed'
  <2>1. Resumable(cached)' \subseteq Resumable(cached) \ {c}
    BY <1>2, <1>3 DEF Resumable, CanOperate, CanOperateIn
  <2> QED BY <1>2, <1>8, <1>9, <2>1 DEF Resumed
<1> QED BY <1>7, <1>10, <1>11

\* The listeners of a round return, or a loop that has nothing left to visit.
LEMMA ReturnStep ==
    ASSUME BoundaryTypes, Evaluated, Resumed, ListenersReturn \/ LoopReturns
    PROVE  StackOK' /\ Evaluated' /\ Resumed'
<1>1. ~Idle
  BY DEF ListenersReturn, LoopReturns
<1>2. UNCHANGED <<active, autoResume, cached, suspended, held, unevaluated>>
  BY DEF ListenersReturn, LoopReturns, history
<1>3. StackOK' /\ \A loops : Pending(frames, loops) \subseteq Pending(frames', loops)
  <2> DEFINE n == Len(frames)
             top == frames[n]
  <2>1. n \in Nat /\ n > 0 /\ n <= MaxDepth /\ MaxDepth \in Nat /\ top \in Frame /\ Top = top
    BY <1>1, BoundaryAssumption DEF Idle, BoundaryTypes, Top, Last
  <2>2. CASE ListenersReturn
    <3> DEFINE f == [top EXCEPT !.listening = FALSE]
    <3>1. f \in Frame /\ f.loop = top.loop /\ f.queue = top.queue
      BY <2>1 DEF Frame
    <3>2. frames' = [frames EXCEPT ![n] = f]
      BY <2>2 DEF ListenersReturn
    <3> HIDE DEF f
    <3>3. Keeps(frames', frames, {})
      BY <1>1, <3>1, <3>2, Replaced DEF Keeps, Idle, BoundaryTypes
    <3>4. StackOK'
      BY <3>3 DEF Keeps, StackOK, BoundaryTypes
    <3>5. \A loops : Pending(frames, loops) \ {} \subseteq Pending(frames', loops)
      BY <3>3, KeptPending DEF BoundaryTypes
    <3> QED BY <3>4, <3>5
  <2>3. CASE LoopReturns
    <3>1. top.queue = {} /\ frames' = SubSeq(frames, 1, n - 1)
      BY <2>1, <2>3 DEF LoopReturns, Front
    <3>2. /\ frames' \in Seq(Frame) /\ Len(frames') = n - 1
          /\ \A i \in 1..(n - 1) : frames'[i] = frames[i]
      <4> DEFINE k == n - 1
      <4>1. k \in Nat /\ frames \in Seq(Frame) /\ \A i \in 1..k : frames[i] \in Frame
        BY <2>1 DEF BoundaryTypes
      <4> HIDE DEF n, k
      <4>2. /\ SubSeq(frames, 1, k) \in Seq(Frame)
            /\ Len(SubSeq(frames, 1, k)) = IF 1 <= k THEN k - 1 + 1 ELSE 0
            /\ \A i \in 1..k - 1 + 1 : SubSeq(frames, 1, k)[i] = frames[1 + i - 1]
        BY <4>1, SubSeqProperties, SMT
      <4>3. Len(SubSeq(frames, 1, k)) = k /\ \A i \in 1..k : SubSeq(frames, 1, k)[i] = frames[i]
        BY <4>1, <4>2
      <4> QED BY <3>1, <4>2, <4>3 DEF k
    <3>3. StackOK'
      BY <2>1, <3>2 DEF StackOK
    <3>4. DOMAIN frames = 1..n /\ DOMAIN frames' = 1..(n - 1)
      BY <2>1, <3>2 DEF BoundaryTypes
    <3>5. \A i \in DOMAIN frames : frames[i].queue # {} => i \in DOMAIN frames' /\ frames'[i] = frames[i]
      BY <2>1, <3>1, <3>2, <3>4
    <3>6. \A loops : Pending(frames, loops) \subseteq Pending(frames', loops)
      BY <3>5 DEF Pending
    <3> QED BY <3>3, <3>6
  <2> QED BY <2>2, <2>3
<1>4. Evaluated' /\ Resumed'
  BY <1>2, <1>3, StackCovers DEF Exposed, Resumable, CanOperateIn
<1> QED BY <1>3, <1>4

BoundaryIInv == BoundaryTypes /\ Evaluated /\ Resumed

\* The daemon sets its mode; or a tripwire announces a lockdown without it.
LEMMA DaemonSteps ==
    ASSUME BoundaryIInv, DaemonStep
    PROVE  BoundaryIInv'
<1>1. MayCall /\ UNCHANGED <<active, autoResume, subscribed, suspended, reads>>
  BY DEF DaemonStep, ModeSet, PerformOverrideCeremony, RequestModeTransition, TriggerLockdown, Tripwire
<1>2. mode' \in DaemonMode /\ (inLockdown' => mode' = "lockdown")
  <2>1. "lockdown" \in DaemonMode /\ Targets \subseteq DaemonMode
    BY BoundaryAssumption DEF DaemonMode
  <2> QED BY <2>1 DEF DaemonStep, PerformOverrideCeremony, RequestModeTransition, TriggerLockdown,
                      Tripwire, BoundaryIInv, BoundaryTypes, daemonVars
<1>3. \/ \E to \in DaemonMode : NotifyModeChange(mode, to)
      \/ frames' = CallMade /\ UNCHANGED <<cached, history>>
  <2>1. ASSUME ModeSet
        PROVE  \/ \E to \in DaemonMode : NotifyModeChange(mode, to)
               \/ frames' = CallMade /\ UNCHANGED <<cached, history>>
    BY <1>2, <2>1 DEF ModeSet
  <2>2. ASSUME NEW manual, Tripwire(manual)
        PROVE  \E to \in DaemonMode : NotifyModeChange(mode, to)
    BY <2>2 DEF Tripwire, DaemonMode
  <2> QED BY <2>1, <2>2
          DEF DaemonStep, PerformOverrideCeremony, RequestModeTransition, TriggerLockdown
<1>4. StackOK' /\ cached' \in DaemonMode /\ Evaluated' /\ Resumed'
  <2>1. CASE \E to \in DaemonMode : NotifyModeChange(mode, to)
    BY <1>1, <2>1, ChangeStep DEF BoundaryIInv, BoundaryTypes
  <2>2. CASE frames' = CallMade /\ UNCHANGED <<cached, history>>
    <3>1. StackOK' /\ \A loops : Pending(frames, loops) \subseteq Pending(frames', loops)
      BY <1>1, <2>2, NoLoopStep DEF BoundaryIInv
    <3>2. Evaluated' /\ Resumed'
      BY <1>1, <2>2, <3>1, StackCovers
         DEF BoundaryIInv, Exposed, Resumable, CanOperateIn, history
    <3> QED BY <2>2, <3>1, <3>2 DEF BoundaryIInv, BoundaryTypes
  <2> QED BY <1>3, <2>1, <2>2
<1> QED BY <1>1, <1>2, <1>4 DEF BoundaryIInv, BoundaryTypes, StackOK

\* An answer about the mode comes back, and initialize has the contracts looked at.
LEMMA ReadSteps ==
    ASSUME BoundaryIInv, NEW read \in reads, ReadReturns(read)
    PROVE  BoundaryIInv'
<1>1. read \in Read
  BY DEF BoundaryIInv, BoundaryTypes
<1>2. /\ cached' = read.mode /\ read.mode \in DaemonMode /\ reads' \subseteq Read /\ MayCall
      /\ held' = held \cup Resumable(read.mode)
      /\ UNCHANGED <<mode, inLockdown, active, autoResume, suspended>>
  BY <1>1 DEF ReadReturns, Read, MayCall, daemonVars, BoundaryIInv, BoundaryTypes
<1>3. /\ StackOK'
      /\ \A loops : Pending(frames, loops) \subseteq Pending(frames', loops)
      /\ \/ active \subseteq Pending(frames', {"downgrade", "initial"})
         \/ unevaluated' = unevaluated \cup Exposed(read.mode)
  <2>1. CASE read.by = "initialize"
    <3>1. Calling("initial", active, FALSE)
      BY <2>1 DEF ReadReturns
    <3>2. /\ StackOK'
          /\ \A loops : Pending(frames, loops) \subseteq Pending(frames', loops)
          /\ \A loops : "initial" \in loops => active \subseteq Pending(frames', loops)
      BY <1>2, <3>1, LoopStep DEF BoundaryIInv, BoundaryTypes
    <3> QED BY <3>2
  <2>2. CASE read.by # "initialize"
    BY <2>2 DEF ReadReturns, StackOK, BoundaryIInv, BoundaryTypes
  <2> QED BY <2>1, <2>2
<1>4. Evaluated'
  BY <1>2, <1>3 DEF Evaluated, Exposed
<1>5. Resumed'
  BY <1>2, <1>3 DEF Resumed, Resumable
<1> QED BY <1>2, <1>3, <1>4, <1>5 DEF BoundaryIInv, BoundaryTypes, StackOK

LEMMA BoundaryStep ==
    ASSUME BoundaryIInv, [BoundaryNext]_boundaryVars
    PROVE  BoundaryIInv'
<1> USE DEF BoundaryIInv
<1>1. CASE UNCHANGED boundaryVars
  BY <1>1 DEF boundaryVars, daemonVars, history, BoundaryTypes, Evaluated, Resumed, Exposed,
              Resumable, CanOperateIn
<1>2. ASSUME NEW c \in ContractIds,
             SuspendContract(c) \/ ResumeContract(c) \/ VisitActive(c) \/ VisitSuspended(c)
      PROVE  BoundaryIInv'
  <2>1. StackOK' /\ Evaluated' /\ Resumed'
    BY <1>2, ByHandStep, VisitActiveStep, VisitSuspendedStep
  <2>2. /\ UNCHANGED <<mode, inLockdown, cached, active, reads>>
        /\ suspended' \subseteq suspended \cup {c}
    BY <1>2 DEF SuspendContract, ResumeContract, VisitActive, VisitSuspended, daemonVars
  <2> QED BY <2>1, <2>2 DEF BoundaryTypes, StackOK
<1>3. ASSUME ListenersReturn \/ LoopReturns
      PROVE  BoundaryIInv'
  <2>1. StackOK' /\ Evaluated' /\ Resumed'
    BY <1>3, ReturnStep
  <2>2. UNCHANGED <<mode, inLockdown, cached, active, suspended, reads>>
    BY <1>3 DEF ListenersReturn, LoopReturns, daemonVars
  <2> QED BY <2>1, <2>2 DEF BoundaryTypes, StackOK
<1>4. ASSUME \/ \E c \in ContractIds : ContractActivated(c) \/ ContractEnds(c)
             \/ \E by \in {"initialize", "getCurrentMode"} : StartRead(by)
             \/ Destroy
      PROVE  BoundaryIInv'
  <2>1. /\ MayCall /\ frames' = CallMade
        /\ UNCHANGED <<mode, inLockdown, cached, autoResume, suspended, held>>
        /\ active' \subseteq active \cup unevaluated' /\ unevaluated \subseteq unevaluated'
        /\ active' \subseteq ContractIds
    BY <1>4 DEF ContractActivated, ContractEnds, StartRead, Destroy, daemonVars, history, BoundaryTypes
  <2>2. reads' \subseteq Read
    BY <1>4 DEF ContractActivated, ContractEnds, StartRead, Destroy, Read, BoundaryTypes
  <2>3. StackOK' /\ \A loops : Pending(frames, loops) \subseteq Pending(frames', loops)
    BY <2>1, NoLoopStep
  <2>4. Evaluated' /\ Resumed'
    BY <2>1, <2>3, StackCovers DEF Exposed, Resumable, CanOperateIn
  <2> QED BY <2>1, <2>2, <2>3, <2>4 DEF BoundaryTypes, StackOK
<1> QED BY <1>1, <1>2, <1>3, <1>4, DaemonSteps, ReadSteps DEF BoundaryNext

LEMMA BoundaryInvariant == BoundarySpec => []BoundaryIInv
<1>1. BoundaryInit => BoundaryIInv
  <2> SUFFICES ASSUME BoundaryInit PROVE BoundaryIInv
    OBVIOUS
  <2>1. mode \in DaemonMode /\ "open" \in DaemonMode /\ MaxDepth \in Nat
    BY BoundaryAssumption DEF BoundaryInit, DaemonMode
  <2> QED BY <2>1 DEF BoundaryInit, BoundaryIInv, BoundaryTypes, Evaluated, Resumed, Exposed, Resumable
<1> QED BY <1>1, BoundaryStep, PTL DEF BoundarySpec

-----------------------------------------------------------------------------
(***************************************************************************)
(* The boundary: the properties.                                           *)
(***************************************************************************)
\* While the daemon's lockdown flag is set its mode is lockdown, whatever requests, ceremonies and
\* tripwires come, and in that mode no recall and no network use is let through.
THEOREM LockdownHeld == BoundarySpec => []LockdownHolds
<1>1. BoundaryIInv => LockdownHolds
  <2> SUFFICES ASSUME BoundaryIInv PROVE LockdownHolds
    OBVIOUS
  <2>1. ASSUME mode = "lockdown"
        PROVE  ~ToolAllowed(TRUE) /\ \A class \in 0..5 : ~RecallAllowed(class)
    BY <2>1 DEF ToolAllowed, RecallAllowed, ClassificationCap
  <2> QED BY <2>1 DEF BoundaryIInv, BoundaryTypes, LockdownHolds
<1> QED BY <1>1, BoundaryInvariant, PTL

\* However deep the listeners of suspensions and resumptions call back: once they are done, an
\* active contract below its mode is suspended, unless it was activated since or a read of the
\* mode replaced the cached one.
THEOREM NobodyBelow == BoundarySpec => []NobodyRunsBelow
<1>1. BoundaryIInv => NobodyRunsBelow
  BY DEF BoundaryIInv, Evaluated, Pending, NobodyRunsBelow, Idle
<1> QED BY <1>1, BoundaryInvariant, PTL

\* And with automatic resumption, what is still suspended although it could operate was suspended
\* by hand since the last upgrade, or became able to operate without one.
THEOREM UpgradesResume == BoundarySpec => []UpgradeResumes
<1>1. BoundaryIInv => UpgradeResumes
  BY DEF BoundaryIInv, Resumed, Pending, UpgradeResumes, Idle
<1> QED BY <1>1, BoundaryInvariant, PTL
=============================================================================
