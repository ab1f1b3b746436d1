------------------------------- MODULE Catalog -------------------------------
(***************************************************************************)
(* The shared schema catalog (src/src/catalog/mod.rs): a directory with    *)
(* one "<hash>.json" file per registered schema.  Processes register       *)
(* schemas (add_schema), open catalog-mode writers (open_writer), resolve  *)
(* hashes (lookup_by_hash, resolver) and audit the directory               *)
(* (verify_consistency) at the same time, with no lock between them.       *)
(*                                                                         *)
(* The directory is modelled at the level of the POSIX calls the code      *)
(* makes: a name leads to an inode, an open descriptor survives the        *)
(* renaming and the unlinking of its name, File::create truncates the      *)
(* inode the name leads to, each descriptor has its own offset.  A schema  *)
(* is its hash; its canonical JSON is the chunks 1..NChunks, each one      *)
(* write(2); an inode's content is the set of chunks that hold their bytes *)
(* (a missing chunk is a short file or a hole, neither of them valid       *)
(* JSON).                                                                  *)
(***************************************************************************)
EXTENDS Naturals, FiniteSets

CONSTANTS
  Proc,       \* processes sharing the catalog directory
  Hash,       \* the schemas, named by their canonical hash
  Inode,      \* the file system's inodes
  NChunks,    \* number of write(2) calls a canonical schema takes
  Settings    \* the settings the catalog is looked at in, see setting below

NoInode == "no inode"
NoHash == "no hash"

ASSUME NChunksAssumption == NChunks \in Nat \ {0}
ASSUME SettingsAssumption ==
  Settings \subseteq [exclusive : BOOLEAN, faults : SUBSET {"kill", "io", "stat", "power"}]
ASSUME SentinelAssumption == NoInode \notin Inode /\ NoHash \notin Hash

VARIABLES
  setting, \* do callers see to it that no schema is registered by two processes
           \* at once, and what may go wrong; it never changes
  tmp,     \* [Hash -> Inode or NoInode]: the directory entry <hash>.json.tmp
  final,   \* [Hash -> Inode or NoInode]: the directory entry <hash>.json
  data,    \* [Inode -> set of chunks present in the file]
  synced,  \* the inodes whose whole content is on stable storage
  pc,      \* [Proc -> the next step of the call in progress, "idle" if none]
  op,      \* [Proc -> the call in progress, or the last one]
  job,     \* [Proc -> the hash that call works on]
  fd,      \* [Proc -> the inode of the descriptor the call holds]
  off,     \* [Proc -> next chunk to write through that descriptor]
  todo,    \* [Proc -> hashes verify_consistency has listed and not read yet]
  res,     \* [Proc -> result of the last call]
  heFiles  \* hashes that some catalog-mode .he file carries in its header

dirVars == <<tmp, final>>
procVars == <<pc, op, job, fd, off, todo, res>>
vars == <<setting, tmp, final, data, synced, pc, op, job, fd, off, todo, res, heFiles>>

Exclusive == setting.exclusive
Faults == setting.faults

Chunks == 1..NChunks

AddOps == {"add", "open_writer"}
Ops == AddOps \cup {"lookup", "verify"}
AddSteps == {"exists", "unlink", "create", "write", "sync", "rename"}
Steps == {"idle", "header", "open", "read", "verify"} \cup AddSteps
Results == {"none", "ok", "io_error", "not_found", "corrupt"}

TypeOK ==
  /\ setting \in Settings
  /\ tmp \in [Hash -> Inode \cup {NoInode}]
  /\ final \in [Hash -> Inode \cup {NoInode}]
  /\ data \in [Inode -> SUBSET Chunks]
  /\ synced \subseteq Inode
  /\ pc \in [Proc -> Steps]
  /\ op \in [Proc -> Ops]
  /\ job \in [Proc -> Hash \cup {NoHash}]
  /\ fd \in [Proc -> Inode \cup {NoInode}]
  /\ off \in [Proc -> 1..(NChunks + 1)]
  /\ todo \in [Proc -> SUBSET Hash]
  /\ res \in [Proc -> Results]
  /\ heFiles \subseteq Hash

Init ==
  /\ setting \in Settings
  /\ tmp = [h \in Hash |-> NoInode]
  /\ final = [h \in Hash |-> NoInode]
  /\ data = [i \in Inode |-> {}]
  /\ synced = {}
  /\ pc = [p \in Proc |-> "idle"]
  /\ op = [p \in Proc |-> "add"]
  /\ job = [p \in Proc |-> NoHash]
  /\ fd = [p \in Proc |-> NoInode]
  /\ off = [p \in Proc |-> 1]
  /\ todo = [p \in Proc |-> {}]
  /\ res = [p \in Proc |-> "none"]
  /\ heFiles = {}

-----------------------------------------------------------------------------
(* Helpers *)

Linked(i) == \E h \in Hash : tmp[h] = i \/ final[h] = i
Free(i) == ~Linked(i) /\ \A p \in Proc : fd[p] # i

Complete(i) == i \in Inode /\ data[i] = Chunks

\* The call of p ends with result r; its descriptor is closed.
Return(p, r) ==
  /\ pc' = [pc EXCEPT ![p] = "idle"]
  /\ fd' = [fd EXCEPT ![p] = NoInode]
  /\ off' = [off EXCEPT ![p] = 1]
  /\ todo' = [todo EXCEPT ![p] = {}]
  /\ res' = [res EXCEPT ![p] = r]
  /\ UNCHANGED <<op, job>>

Goto(p, step) ==
  /\ pc' = [pc EXCEPT ![p] = step]
  /\ UNCHANGED <<op, job, todo, res>>

\* add_schema has its Ok(hash): the call returns it, or, for open_writer,
\* goes on to the header of the data file.
AddDone(p) ==
  IF op[p] = "open_writer"
  THEN /\ Goto(p, "header")
       /\ fd' = [fd EXCEPT ![p] = NoInode]
       /\ off' = [off EXCEPT ![p] = 1]
  ELSE Return(p, "ok")

Adding(p, h) == pc[p] \in AddSteps /\ job[p] = h

-----------------------------------------------------------------------------
(* Catalog::add_schema, one action per system call *)

\* Mutant: open_writer creates the data file before it registers its schema.
BeginAddHeaderFirst(p, h, o) ==
  /\ pc[p] = "idle"
  /\ Exclusive => \A q \in Proc : ~Adding(q, h)
  /\ pc' = [pc EXCEPT ![p] = "exists"]
  /\ op' = [op EXCEPT ![p] = o]
  /\ job' = [job EXCEPT ![p] = h]
  /\ res' = [res EXCEPT ![p] = "none"]
  /\ heFiles' = IF o = "open_writer" THEN heFiles \cup {h} ELSE heFiles
  /\ UNCHANGED <<dirVars, data, synced, fd, off, todo>>

BeginAdd(p, h, o) ==
  /\ pc[p] = "idle"
  /\ Exclusive => \A q \in Proc : ~Adding(q, h)
  /\ pc' = [pc EXCEPT ![p] = "exists"]
  /\ op' = [op EXCEPT ![p] = o]
  /\ job' = [job EXCEPT ![p] = h]
  /\ res' = [res EXCEPT ![p] = "none"]
  /\ UNCHANGED <<dirVars, data, synced, fd, off, todo, heFiles>>

\* Mutant: the check for an existing file is missing.
CheckNothing(p) ==
  /\ pc[p] = "exists"
  /\ Goto(p, "unlink")
  /\ UNCHANGED <<dirVars, data, synced, fd, off, heFiles>>

\* Mutant: a tmp file is taken for the lock of another registration.
CheckTmpLock(p) ==
  /\ pc[p] = "exists"
  /\ IF final[job[p]] # NoInode THEN AddDone(p)
     ELSE IF tmp[job[p]] # NoInode THEN Return(p, "io_error")
     ELSE Goto(p, "unlink") /\ UNCHANGED <<fd, off>>
  /\ UNCHANGED <<dirVars, data, synced, heFiles>>

\* final_path.exists(): a registered schema is trusted as it is.
CheckExists(p) ==
  /\ pc[p] = "exists"
  /\ IF final[job[p]] # NoInode
     THEN AddDone(p)
     ELSE Goto(p, "unlink") /\ UNCHANGED <<fd, off>>
  /\ UNCHANGED <<dirVars, data, synced, heFiles>>

\* let _ = fs::remove_file(&tmp_path): the error of a missing file is ignored.
RemoveTmp(p) ==
  /\ pc[p] = "unlink"
  /\ tmp' = [tmp EXCEPT ![job[p]] = NoInode]
  /\ Goto(p, "create")
  /\ UNCHANGED <<final, data, synced, fd, off, heFiles>>

\* Mutant: the schema is written in place, under its final name.
CreateInPlace(p) ==
  /\ pc[p] = "create"
  /\ \E i \in Inode :
       /\ IF final[job[p]] = NoInode THEN Free(i) ELSE final[job[p]] = i
       /\ final' = [final EXCEPT ![job[p]] = i]
       /\ data' = [data EXCEPT ![i] = {}]
       /\ synced' = synced \ {i}
       /\ fd' = [fd EXCEPT ![p] = i]
  /\ off' = [off EXCEPT ![p] = 1]
  /\ Goto(p, "write")
  /\ UNCHANGED <<tmp, heFiles>>

\* fs::File::create(&tmp_path): O_CREAT | O_TRUNC, so an existing tmp file
\* keeps its inode and loses its bytes.
CreateTmp(p) ==
  /\ pc[p] = "create"
  /\ \E i \in Inode :
       /\ IF tmp[job[p]] = NoInode THEN Free(i) ELSE tmp[job[p]] = i
       /\ tmp' = [tmp EXCEPT ![job[p]] = i]
       /\ data' = [data EXCEPT ![i] = {}]
       /\ synced' = synced \ {i}
       /\ fd' = [fd EXCEPT ![p] = i]
  /\ off' = [off EXCEPT ![p] = 1]
  /\ Goto(p, "write")
  /\ UNCHANGED <<final, heFiles>>

\* Mutant: write for write_all, so a short write goes unnoticed.
WriteOnce(p) ==
  /\ pc[p] = "write"
  /\ data' = [data EXCEPT ![fd[p]] = @ \cup {off[p]}]
  /\ synced' = synced \ {fd[p]}
  /\ off' = [off EXCEPT ![p] = @ + 1]
  /\ Goto(p, "sync")
  /\ UNCHANGED <<dirVars, fd, heFiles>>

\* Mutant: the loop runs past the last chunk.
WriteForever(p) ==
  /\ pc[p] = "write"
  /\ data' = [data EXCEPT ![fd[p]] = @ \cup {off[p]}]
  /\ synced' = synced \ {fd[p]}
  /\ off' = [off EXCEPT ![p] = @ + 1]
  /\ \E next \in {"write", "sync"} : Goto(p, next)
  /\ UNCHANGED <<dirVars, fd, heFiles>>

\* One write(2) of f.write_all(&canonical).
WriteChunk(p) ==
  /\ pc[p] = "write"
  /\ data' = [data EXCEPT ![fd[p]] = @ \cup {off[p]}]
  /\ synced' = synced \ {fd[p]}
  /\ off' = [off EXCEPT ![p] = @ + 1]
  /\ Goto(p, IF off[p] = NChunks THEN "sync" ELSE "write")
  /\ UNCHANGED <<dirVars, fd, heFiles>>

\* Mutant: no sync_all before the rename.
CloseTmp(p) ==
  /\ pc[p] = "sync"
  /\ fd' = [fd EXCEPT ![p] = NoInode]
  /\ Goto(p, "rename")
  /\ UNCHANGED <<dirVars, data, synced, off, heFiles>>

\* f.sync_all()?; drop(f)
SyncTmp(p) ==
  /\ pc[p] = "sync"
  /\ synced' = synced \cup {fd[p]}
  /\ fd' = [fd EXCEPT ![p] = NoInode]
  /\ Goto(p, "rename")
  /\ UNCHANGED <<dirVars, data, off, heFiles>>

\* Mutant: the final name is removed first, to make way for the rename.
RemoveAndRename(p) ==
  /\ pc[p] = "rename"
  /\ final' = [final EXCEPT ![job[p]] = tmp[job[p]]]
  /\ tmp' = [tmp EXCEPT ![job[p]] = NoInode]
  /\ IF tmp[job[p]] = NoInode THEN Return(p, "io_error") ELSE AddDone(p)
  /\ UNCHANGED <<data, synced, heFiles>>

\* fs::rename(&tmp_path, &final_path): moves whatever inode the tmp name leads
\* to now; fails when another process has taken the name away.
RenameTmp(p) ==
  /\ pc[p] = "rename"
  /\ IF tmp[job[p]] = NoInode
     THEN Return(p, "io_error") /\ UNCHANGED dirVars
     ELSE /\ final' = [final EXCEPT ![job[p]] = tmp[job[p]]]
          /\ tmp' = [tmp EXCEPT ![job[p]] = NoInode]
          /\ AddDone(p)
  /\ UNCHANGED <<data, synced, heFiles>>

\* open_writer goes on with HeliumWriter::with_catalog_ref, which writes the
\* hash into the header of the .he file.
WriteHeader(p) ==
  /\ pc[p] = "header"
  /\ heFiles' = heFiles \cup {job[p]}
  /\ Return(p, "ok")
  /\ UNCHANGED <<dirVars, data, synced>>

\* Path::exists is false also when the call below it fails: a schema that is
\* registered is then registered again.
StatFails(p) ==
  /\ "stat" \in Faults
  /\ pc[p] = "exists"
  /\ Goto(p, "unlink")
  /\ UNCHANGED <<dirVars, data, synced, fd, off, heFiles>>

\* remove_file fails, which is ignored: the tmp file stays.
RemoveFails(p) ==
  /\ "io" \in Faults
  /\ pc[p] = "unlink"
  /\ Goto(p, "create")
  /\ UNCHANGED <<dirVars, data, synced, fd, off, heFiles>>

\* A system call of add_schema that returns its error with `?`.  The tmp file
\* stays where it is.
IoError(p) ==
  /\ "io" \in Faults
  /\ pc[p] \in AddSteps \ {"exists", "unlink"}
  /\ Return(p, "io_error")
  /\ UNCHANGED <<dirVars, data, synced, heFiles>>

-----------------------------------------------------------------------------
(* Catalog::lookup_by_hash, and the closure of Catalog::resolver that a     *)
(* HeliumReader calls                                                       *)

BeginLookup(p, h) ==
  /\ pc[p] = "idle"
  /\ pc' = [pc EXCEPT ![p] = "open"]
  /\ op' = [op EXCEPT ![p] = "lookup"]
  /\ job' = [job EXCEPT ![p] = h]
  /\ res' = [res EXCEPT ![p] = "none"]
  /\ UNCHANGED <<dirVars, data, synced, fd, off, todo, heFiles>>

\* The open half of fs::read(&path).
OpenFinal(p) ==
  /\ pc[p] = "open"
  /\ IF final[job[p]] = NoInode
     THEN Return(p, "not_found")
     ELSE /\ fd' = [fd EXCEPT ![p] = final[job[p]]]
          /\ Goto(p, "read")
          /\ UNCHANGED off
  /\ UNCHANGED <<dirVars, data, synced, heFiles>>

\* The read half, then Schema::from_json: anything but the whole canonical
\* JSON fails to deserialize.
ReadFinal(p) ==
  /\ pc[p] = "read"
  /\ Return(p, IF Complete(fd[p]) THEN "ok" ELSE "corrupt")
  /\ UNCHANGED <<dirVars, data, synced, heFiles>>

-----------------------------------------------------------------------------
(* Catalog::verify_consistency over Catalog::list_schemas *)

\* list_schemas keeps the names <64 hex digits>.json, so never a tmp file.
BeginVerify(p) ==
  /\ pc[p] = "idle"
  /\ pc' = [pc EXCEPT ![p] = "verify"]
  /\ op' = [op EXCEPT ![p] = "verify"]
  /\ todo' = [todo EXCEPT ![p] = {h \in Hash : final[h] # NoInode}]
  /\ res' = [res EXCEPT ![p] = "none"]
  /\ UNCHANGED <<dirVars, data, synced, job, fd, off, heFiles>>

\* One turn of the loop: a file that cannot be read is skipped, one whose
\* content does not canonicalize to the hash in its name ends the audit.
VerifyOne(p) ==
  /\ pc[p] = "verify"
  /\ \E h \in todo[p] :
       IF final[h] = NoInode \/ Complete(final[h])
       THEN /\ todo' = [todo EXCEPT ![p] = @ \ {h}]
            /\ UNCHANGED <<pc, op, job, fd, off, res>>
       ELSE Return(p, "corrupt")
  /\ UNCHANGED <<dirVars, data, synced, heFiles>>

VerifyDone(p) ==
  /\ pc[p] = "verify"
  /\ todo[p] = {}
  /\ Return(p, "ok")
  /\ UNCHANGED <<dirVars, data, synced, heFiles>>

-----------------------------------------------------------------------------
(* Faults *)

\* The process dies between two system calls; the directory survives.
Kill(p) ==
  /\ "kill" \in Faults
  /\ pc[p] # "idle"
  /\ Return(p, "none")
  /\ UNCHANGED <<dirVars, data, synced, heFiles>>

\* The machine loses power: every process is gone, an inode that was not
\* synced keeps any part of its bytes, and, since the code never syncs the
\* directory, a rename may be undone or the entries may be lost with it.
PowerLoss ==
  /\ "power" \in Faults
  /\ \E lost \in SUBSET Hash, undone \in SUBSET Hash :
       /\ tmp' = [h \in Hash |-> IF h \in lost THEN NoInode
                                 ELSE IF h \in undone /\ final[h] # NoInode
                                      THEN final[h] ELSE tmp[h]]
       /\ final' = [h \in Hash |-> IF h \in lost \cup undone
                                   THEN NoInode ELSE final[h]]
  /\ \E torn \in SUBSET Chunks :
       data' = [i \in Inode |-> IF i \in synced THEN data[i]
                                ELSE data[i] \cap torn]
  /\ synced' = Inode
  /\ pc' = [p \in Proc |-> "idle"]
  /\ fd' = [p \in Proc |-> NoInode]
  /\ off' = [p \in Proc |-> 1]
  /\ todo' = [p \in Proc |-> {}]
  /\ res' = [p \in Proc |-> "none"]
  /\ UNCHANGED <<op, job, heFiles>>

-----------------------------------------------------------------------------

AddStep(p) ==
  \/ CheckExists(p)
  \/ RemoveTmp(p)
  \/ CreateTmp(p)
  \/ WriteChunk(p)
  \/ SyncTmp(p)
  \/ RenameTmp(p)
  \/ WriteHeader(p)

ReadStep(p) ==
  \/ OpenFinal(p)
  \/ ReadFinal(p)
  \/ VerifyOne(p)
  \/ VerifyDone(p)

Step ==
  \/ \E p \in Proc :
       \/ \E h \in Hash, o \in AddOps : BeginAdd(p, h, o)
       \/ \E h \in Hash : BeginLookup(p, h)
       \/ BeginVerify(p)
       \/ AddStep(p)
       \/ ReadStep(p)
       \/ StatFails(p)
       \/ RemoveFails(p)
       \/ IoError(p)
       \/ Kill(p)
  \/ PowerLoss

Next == Step /\ UNCHANGED setting

Spec == Init /\ [][Next]_vars

\* A call that has begun is a thread of a running process: it is scheduled.
Fairness ==
  \A p \in Proc : WF_vars((AddStep(p) \/ ReadStep(p)) /\ UNCHANGED setting)

FairSpec == Spec /\ Fairness

-----------------------------------------------------------------------------
(* What the catalog promises *)

Registered(h) == final[h] # NoInode

\* A finished registration of h: it returned Ok, or lost its rename.
Attempted(h) ==
  \E p \in Proc : /\ pc[p] = "idle" /\ op[p] \in AddOps /\ job[p] = h
                  /\ res[p] \in {"ok", "io_error"}

AllComplete == \A h \in Hash : Registered(h) => Complete(final[h])

(* A schema file that exists holds its whole schema, whenever a process is  *)
(* killed, a call fails or the power goes: "POSIX tmpfile + rename is       *)
(* crash-safe per file".  add_schema trusts every file it finds.  Racing    *)
(* registrations are another matter, see below.                             *)
FinalComplete == Exclusive => AllComplete

(* A resolver that finds a schema file gets the schema, and an audit finds  *)
(* no inconsistency, whatever registration is under way: the file is        *)
(* opened in one step and read in a later one.                              *)
ReadersNeverTorn == Exclusive => \A p \in Proc : res[p] # "corrupt"

(* A data file that names a schema hash can be read: open_writer registers  *)
(* the schema before the hash reaches the file's header.  A power loss may  *)
(* undo the registration, for the directory is not synced.                  *)
FilesResolvable ==
  Exclusive /\ "power" \notin Faults =>
    \A h \in heFiles : Registered(h) /\ Complete(final[h])

(* add_schema is a no-op on a registered schema: the file is not replaced,  *)
(* unless it cannot tell that the file is there.                            *)
FinalNeverReplaced ==
  [][Exclusive /\ Faults \cap {"stat", "power"} = {} =>
       \A h \in Hash : Registered(h) => final'[h] = final[h]]_vars

(* The same promise with every call over: no file stays incomplete for good. *)
SettledComplete == (\A p \in Proc : pc[p] = "idle") => AllComplete

(* Two processes registering one schema share the name of the tmp file, and *)
(* one may publish the other's half-written inode.  As long as nobody dies  *)
(* the damage is temporary: whatever is missing in a file with a name is    *)
(* still to be written by a descriptor that is open on it.                  *)
RaceHeals ==
  Faults = {} =>
    \A h \in Hash : Registered(h) =>
      \A c \in Chunks :
        \/ c \in data[final[h]]
        \/ \E p \in Proc : pc[p] = "write" /\ fd[p] = final[h] /\ off[p] <= c

(* A racing add_schema may fail because another one took its tmp file away, *)
(* but a failed attempt never leaves the schema unregistered with nobody    *)
(* left to register it.                                                     *)
RaceRegisters ==
  Faults = {} =>
    \A h \in Hash :
      Attempted(h) => Registered(h) \/ \E p \in Proc : Adding(p, h)

(* add_schema ends with the schema registered unless it is killed: what an  *)
(* earlier, killed call left behind does not stand in its way.              *)
AddRegisters ==
  \A p \in Proc, h \in Hash :
    (Exclusive /\ Faults = {"kill"} /\ Adding(p, h))
      ~> (Registered(h) \/ (pc[p] = "idle" /\ res[p] = "none"))

=============================================================================
