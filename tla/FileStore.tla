------------------------------- MODULE FileStore -------------------------------
(***************************************************************************)
(* Persistence: ContractRepository, a cache, over FileStorageAdapter,      *)
(* which writes all contracts to one file after every change.              *)
(*                                                                         *)
(* Between two awaits the process runs alone; the file operations a save   *)
(* awaits (open, write, rename, chmod) interleave with those of other      *)
(* saves, with callers and with a crash of the process.  Names lead to     *)
(* inodes, so that a writer may hold an open file another one renames.     *)
(*                                                                         *)
(* A contract is the number of the save that stored it, 0 is no contract.  *)
(* createIfMissing keeps its default, true.  Encryption and the checksum   *)
(* only decide whether a file is readable: a file that is not complete is  *)
(* not.  The system's own crash is modelled, not a loss of power.          *)
(***************************************************************************)
EXTENDS Naturals, FiniteSets

CONSTANTS
    Ids,          \* contract ids
    Writers,      \* the calls of saveToFile that may be under way at once
    Inodes,       \* the inodes of the directory
    NoInode,      \* a name that leads to no file, a writer that holds none
    FailingOps,   \* the file operations that may fail
    MaxVersion    \* bound of the number of saves

ASSUME FileStoreAssumption ==
    /\ NoInode \notin Inodes /\ Ids # {}
    /\ FailingOps \subseteq {"open", "write", "rename", "chmod", "read"}
    /\ MaxVersion \in Nat

VARIABLES
    cache,          \* repository.contracts
    store,          \* adapter.contracts
    initialized,    \* of the repository and its adapter
    call,           \* the initialize, flush or close under way
    awaited,        \* the writes it awaits
    pendingWrites,  \* the writes in repository.pendingWrites that have not settled
    writers,        \* the calls of saveToFile
    file, temp,     \* the inodes the storage file and its .tmp lead to
    content,        \* inode -> what it holds
    version,        \* the number of saves so far
    acked,          \* history: id -> its newest save that resolved, 0 for none, or none that a
                    \* start can still be expected to find
    overlap         \* history: of the saves since the storage file was last sure to be right:
                    \* "none" overlapped another one, "some" did, or "mending", some did, but
                    \* the one under way started alone

repositoryVars == <<cache, store, initialized, call, awaited, pendingWrites>>
diskVars == <<file, temp, content>>
historyVars == <<acked, overlap>>
vars == <<cache, store, initialized, call, awaited, pendingWrites, writers,
          file, temp, content, version, acked, overlap>>

Snapshot == [Ids -> 0..MaxVersion]
Nothing == [i \in Ids |-> 0]

\* Empty: just truncated.  Torn: parts of one or two snapshots, not parseable.
Content == [form : {"empty", "torn", "complete"}, data : Snapshot]
Empty == [form |-> "empty", data |-> Nothing]
Torn == [form |-> "torn", data |-> Nothing]
Holding(snapshot) == [form |-> "complete", data |-> snapshot]

\* id and version: the contract a save stores; background: its promise was pushed to
\* pendingWrites; snapshot: what it writes; fd: the inode it has open.
Writer ==
    [stage : {"idle", "open", "write", "rename", "chmod", "access", "unlink"},
     kind : {"save", "delete", "init", "close"},
     background : BOOLEAN, id : Ids, version : 0..MaxVersion, snapshot : Snapshot, fd : Inodes \cup {NoInode}]

IdleWriter ==
    [stage |-> "idle", kind |-> "save", background |-> FALSE,
     id |-> CHOOSE i \in Ids : TRUE, version |-> 0, snapshot |-> Nothing, fd |-> NoInode]

FileStoreTypeOK ==
    /\ cache \in Snapshot /\ store \in Snapshot
    /\ initialized \in BOOLEAN
    /\ call \in {"none", "init", "initSave", "flush", "closeFlush", "close"}
    /\ awaited \subseteq Writers /\ pendingWrites \subseteq Writers
    /\ writers \in [Writers -> Writer]
    /\ {file, temp} \subseteq Inodes \cup {NoInode}
    /\ content \in [Inodes -> Content]
    /\ version \in 0..MaxVersion
    /\ acked \in Snapshot /\ overlap \in {"none", "some", "mending"}

Init ==
    /\ cache = Nothing /\ store = Nothing
    /\ initialized = FALSE
    /\ call = "none" /\ awaited = {} /\ pendingWrites = {}
    /\ writers = [w \in Writers |-> IdleWriter]
    /\ file = NoInode /\ temp = NoInode
    /\ content = [i \in Inodes |-> Empty]
    /\ version = 0
    /\ acked = Nothing /\ overlap = "none"
-----------------------------------------------------------------------------
InFlight(w) == writers[w].stage # "idle"
At(w, stage) == writers[w].stage = stage
Complete(i) == i # NoInode /\ content[i].form = "complete"
OnDisk == IF Complete(file) THEN content[file].data ELSE Nothing
MayFail(op) == op \in FailingOps

\* saveToFile: the contracts are serialized at once, the file is written later; nobody
\* waits for the saves under way.
SaveToFile(w, save) ==
    /\ ~InFlight(w)
    /\ writers' = [writers EXCEPT ![w] = save]
    /\ overlap' = IF \E v \in Writers : InFlight(v) THEN "some"
                  ELSE IF overlap = "none" THEN "none" ELSE "mending"

SaveOf(kind, background, i, v, snapshot) ==
    [stage |-> "open", kind |-> kind, background |-> background, id |-> i, version |-> v,
     snapshot |-> snapshot, fd |-> NoInode]

MoveTo(w, stage) == writers' = [writers EXCEPT ![w].stage = stage]
-----------------------------------------------------------------------------
(***************************************************************************)
(* The repository's callers.                                               *)
(***************************************************************************)

\* Mutant of Save: the contracts are serialized before the new one is added.
SaveStale(i, w, background) ==
    LET v == version + 1 IN
    /\ initialized /\ version < MaxVersion
    /\ version' = v
    /\ cache' = [cache EXCEPT ![i] = v]
    /\ store' = [store EXCEPT ![i] = v]
    /\ SaveToFile(w, SaveOf("save", background, i, v, store))
    /\ pendingWrites' = IF background THEN pendingWrites \cup {w} ELSE pendingWrites
    /\ UNCHANGED <<diskVars, initialized, call, awaited, acked>>

\* save and saveAsync: cache and adapter change at once.  Only save, which does not
\* wait, leaves its write with pendingWrites.
Save(i, w, background) ==
    LET v == version + 1 IN
    /\ initialized /\ version < MaxVersion
    /\ version' = v
    /\ cache' = [cache EXCEPT ![i] = v]
    /\ store' = [store EXCEPT ![i] = v]
    /\ SaveToFile(w, SaveOf("save", background, i, v, store'))
    /\ pendingWrites' = IF background THEN pendingWrites \cup {w} ELSE pendingWrites
    /\ UNCHANGED <<diskVars, initialized, call, awaited, acked>>

\* Before initialize has finished a save reaches the cache only.
SaveUninitialized(i) ==
    /\ ~initialized /\ version < MaxVersion
    /\ version' = version + 1
    /\ cache' = [cache EXCEPT ![i] = version']
    /\ UNCHANGED <<diskVars, store, initialized, call, awaited, pendingWrites, writers, historyVars>>

Delete(i, w, background) ==
    /\ initialized /\ cache[i] # 0
    /\ cache' = [cache EXCEPT ![i] = 0]
    /\ store' = [store EXCEPT ![i] = 0]
    /\ acked' = [acked EXCEPT ![i] = 0]
    /\ SaveToFile(w, SaveOf("delete", background, i, 0, store'))
    /\ pendingWrites' = IF background THEN pendingWrites \cup {w} ELSE pendingWrites
    /\ UNCHANGED <<diskVars, initialized, call, awaited, version>>

Initialize ==
    /\ ~initialized /\ call = "none"
    /\ call' = "init"
    /\ UNCHANGED <<diskVars, cache, store, initialized, awaited, pendingWrites, writers, version, historyVars>>

Readable == Complete(file)

\* The adapter loads the file, the repository its cache from the adapter.
LoadFile ==
    /\ call = "init" /\ Readable
    /\ store' = content[file].data /\ cache' = content[file].data
    /\ initialized' = TRUE /\ call' = "none"
    /\ acked' = IF overlap = "none" THEN acked ELSE Nothing
    /\ UNCHANGED <<diskVars, awaited, pendingWrites, writers, version, overlap>>

\* Any failure to load, not only a missing file, leads to a new file.
CreateFile(w) ==
    /\ call = "init" /\ (Readable => MayFail("read"))
    /\ call' = "initSave"
    /\ SaveToFile(w, SaveOf("init", FALSE, IdleWriter.id, 0, store))
    /\ acked' = Nothing
    /\ UNCHANGED <<diskVars, cache, store, initialized, awaited, pendingWrites, version>>

Flush ==
    /\ initialized /\ call = "none"
    /\ call' = "flush" /\ awaited' = pendingWrites
    /\ UNCHANGED <<diskVars, cache, store, initialized, pendingWrites, writers, version, historyVars>>

Close ==
    /\ initialized /\ call = "none"
    /\ call' = "closeFlush" /\ awaited' = pendingWrites
    /\ UNCHANGED <<diskVars, cache, store, initialized, pendingWrites, writers, version, historyVars>>

\* Promise.all has resolved: the list is emptied, whatever was pushed meanwhile.
FlushReturns ==
    /\ call = "flush" /\ awaited = {}
    /\ call' = "none" /\ pendingWrites' = {}
    /\ UNCHANGED <<diskVars, cache, store, initialized, awaited, writers, version, historyVars>>

\* close goes on to the adapter, which saves once more.
CloseAdapter(w) ==
    /\ call = "closeFlush" /\ awaited = {}
    /\ call' = "close" /\ pendingWrites' = {}
    /\ SaveToFile(w, SaveOf("close", FALSE, IdleWriter.id, 0, store))
    /\ UNCHANGED <<diskVars, cache, store, initialized, awaited, version, acked>>
-----------------------------------------------------------------------------
(***************************************************************************)
(* The steps of saveToFile.                                                *)
(***************************************************************************)

\* An inode for a new file: it makes no difference which.
Unused == {i \in Inodes : i # file /\ \A v \in Writers : writers[v].fd # i}
NewInode == {i \in Unused : i = CHOOSE j \in Unused : TRUE}

\* An inode that no name and no writer leads to any more is gone: new, without those.
Reachable(new) ==
    [i \in Inodes |-> IF i \in {file', temp'} \cup {writers'[v].fd : v \in Writers}
                      THEN new[i] ELSE Empty]

\* Mutant of Open: the storage file itself is opened.
OpenInPlace(w) ==
    /\ At(w, "open")
    /\ \E i \in IF file # NoInode THEN {file}
                ELSE NewInode \ {temp} :
          /\ file' = i /\ temp' = i
          /\ content' = [content EXCEPT ![i] = Empty]
          /\ writers' = [writers EXCEPT ![w].stage = "write", ![w].fd = i]
    /\ UNCHANGED <<repositoryVars, version, historyVars>>

\* open(tempPath, "w") truncates the file if it is there.
Open(w) ==
    /\ At(w, "open")
    /\ \E i \in IF temp # NoInode THEN {temp}
                ELSE NewInode :
          /\ temp' = i
          /\ content' = [content EXCEPT ![i] = Empty]
          /\ writers' = [writers EXCEPT ![w].stage = "write", ![w].fd = i]
    /\ UNCHANGED <<repositoryVars, file, version, historyVars>>

\* What a write of snapshot s from the start leaves of an inode that held old: of a
\* longer text the tail remains.
Overwritten(old, s) == IF old \in {Empty, Holding(s)} THEN {Holding(s)} ELSE {Holding(s), Torn}

Write(w) ==
    /\ At(w, "write")
    /\ writers' = [writers EXCEPT ![w].stage = "rename", ![w].fd = NoInode]
    /\ UNCHANGED <<repositoryVars, file, temp, version, historyVars>>
    /\ \E new \in Overwritten(content[writers[w].fd], writers[w].snapshot) :
          content' = Reachable([content EXCEPT ![writers[w].fd] = new])

Rename(w) ==
    /\ At(w, "rename") /\ temp # NoInode
    /\ file' = temp /\ temp' = NoInode
    /\ MoveTo(w, "chmod") /\ content' = Reachable(content)
    /\ overlap' = IF overlap = "mending" THEN "none" ELSE overlap
    /\ UNCHANGED <<repositoryVars, version, acked>>

\* A file operation fails; a write may have written a part.
Fail(w) ==
    /\ \/ writers[w].stage \in FailingOps
       \/ At(w, "rename") /\ temp = NoInode
    /\ writers' = [writers EXCEPT ![w].stage = "access", ![w].fd = NoInode]
    /\ UNCHANGED <<repositoryVars, file, temp, version, historyVars>>
    /\ \/ content' = Reachable(content)
       \/ At(w, "write") /\ content' = Reachable([content EXCEPT ![writers[w].fd] = Torn])

\* The promise settles: a flush that awaits it goes on; an initialize or close returns.
Settle(w, resolved) ==
    LET kind == writers[w].kind IN
    /\ writers' = [writers EXCEPT ![w] = IdleWriter]
    /\ awaited' = awaited \ {w}
    /\ pendingWrites' = pendingWrites \ {w}
    /\ call' = IF kind \in {"init", "close"} THEN "none" ELSE call
    /\ initialized' = IF resolved /\ kind = "init" THEN TRUE
                      ELSE IF resolved /\ kind = "close" THEN FALSE ELSE initialized
    /\ cache' = IF resolved /\ kind = "init" THEN store ELSE cache
    /\ acked' = IF resolved /\ kind = "save" /\ store[writers[w].id] = writers[w].version
                THEN [acked EXCEPT ![writers[w].id] = writers[w].version] ELSE acked
    /\ UNCHANGED <<diskVars, store, version, overlap>>

Chmod(w) == At(w, "chmod") /\ Settle(w, TRUE)

\* Mutant of Access: without a temporary file the promise never settles.
AccessHangs(w) ==
    /\ At(w, "access") /\ temp # NoInode
    /\ MoveTo(w, "unlink")
    /\ UNCHANGED <<repositoryVars, diskVars, version, historyVars>>

\* The error path: unlink the temporary file if there is one, then reject.
Access(w) ==
    /\ At(w, "access")
    /\ IF temp # NoInode
       THEN MoveTo(w, "unlink") /\ UNCHANGED <<repositoryVars, diskVars, version, historyVars>>
       ELSE Settle(w, FALSE)

Unlink(w) ==
    /\ At(w, "unlink")
    /\ writers' = [writers EXCEPT ![w] = IdleWriter]
    /\ UNCHANGED file /\ temp' = NoInode /\ content' = Reachable(content)
    /\ awaited' = awaited \ {w}
    /\ pendingWrites' = pendingWrites \ {w}
    /\ call' = IF writers[w].kind \in {"init", "close"} THEN "none" ELSE call
    /\ UNCHANGED <<cache, store, initialized, version, historyVars>>
-----------------------------------------------------------------------------
\* The process dies and starts anew; a write under way may have written a part.
Crash ==
    /\ cache' = Nothing /\ store' = Nothing
    /\ initialized' = FALSE
    /\ call' = "none" /\ awaited' = {} /\ pendingWrites' = {}
    /\ writers' = [w \in Writers |-> IdleWriter]
    /\ acked' = IF overlap = "none" THEN acked ELSE Nothing
    /\ UNCHANGED <<file, temp, version, overlap>>
    /\ \E torn \in SUBSET {writers[w].fd : w \in {v \in Writers : At(v, "write")}} :
          content' = Reachable([i \in Inodes |-> IF i \in torn THEN Torn ELSE content[i]])

WriterStep(w) ==
    Open(w) \/ Write(w) \/ Rename(w) \/ Fail(w) \/ Chmod(w) \/ Access(w) \/ Unlink(w)

CallStep == LoadFile \/ FlushReturns \/ \E w \in Writers : CreateFile(w) \/ CloseAdapter(w)

Next ==
    \/ \E i \in Ids, w \in Writers, background \in BOOLEAN :
          Save(i, w, background) \/ Delete(i, w, background)
    \/ \E i \in Ids : SaveUninitialized(i)
    \/ Initialize \/ Flush \/ Close
    \/ CallStep
    \/ \E w \in Writers : WriterStep(w)
    \/ Crash

\* Every file operation completes or fails, every call that can go on does.
Spec ==
    /\ Init /\ [][Next]_vars
    /\ \A w \in Writers : WF_vars(WriterStep(w))
    /\ WF_vars(CallStep)
-----------------------------------------------------------------------------
\* file-adapter.ts, "using atomic write": saves share one temporary file, so while they
\* overlap nothing is sure (section 5 of the readme).  But the next one that runs alone puts
\* everything right: once its rename is done every contract whose save has resolved, also
\* amid the overlap, is in the file in that version or a later one, and stays there until
\* it is deleted or saves overlap again, whatever fails or crashes.  What a crash amid an
\* overlap or a failed read has lost is not expected any more.
AckedSavesSurvive == overlap = "none" => \A i \in Ids : acked[i] <= OnDisk[i]

\* The storage file is missing or complete, so that the next start can load it.
FileIsComplete == file # NoInode => Complete(file)

\* Disk, adapter and cache are of their types; and the storage file is whole at every
\* moment, also in the middle of a save and after a crash, unless saves have overlapped and
\* none has run alone since.
StorageIsSound == FileStoreTypeOK /\ (overlap = "none" => FileIsComplete)

\* initialize, flush and close come to an end, also when writes fail.
CallsReturn == call # "none" ~> call = "none"
-----------------------------------------------------------------------------
(***************************************************************************)
(* What the documents say, and the code does not keep.                     *)
(***************************************************************************)

\* Atomic writes and acknowledged saves, whoever saves meanwhile: FileIsComplete, and
AckedSavesAlwaysSurvive == \A i \in Ids : acked[i] <= OnDisk[i]

\* createIfMissing: initialize writes a file only if there is none.
CreatesOnlyIfMissing == [][\A w \in Writers : CreateFile(w) => file = NoInode]_vars

\* flush waits for all pending writes: it knows every background write still under way.
FlushKnowsAllWrites ==
    \A w \in Writers : InFlight(w) /\ writers[w].background => w \in pendingWrites
=============================================================================
