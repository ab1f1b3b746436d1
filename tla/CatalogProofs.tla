---------------------------- MODULE CatalogProofs ----------------------------
(***************************************************************************)
(* Proofs about Catalog, for any processes, schemas, inodes and number of  *)
(* writes.  They fall into two parts, as the promises do: registrations of *)
(* one schema that exclude each other, under every fault (FinalComplete,   *)
(* ReadersNeverTorn, FinalNeverReplaced, FilesResolvable), and racing      *)
(* registrations without faults (RaceHeals, RaceRegisters).                *)
(***************************************************************************)
EXTENDS Catalog, TLAPS

USE NChunksAssumption, SettingsAssumption, SentinelAssumption

-----------------------------------------------------------------------------
(* Type correctness *)

\* A descriptor is held exactly while it is used, and the offset of a writer
\* is within the schema.
HandleOK ==
  \A p \in Proc :
    /\ pc[p] \in AddSteps \cup {"header", "open", "read"} => job[p] \in Hash
    /\ pc[p] \in {"write", "sync", "read"} => fd[p] \in Inode
    /\ pc[p] = "write" => off[p] \in Chunks

TInv == TypeOK /\ HandleOK

LEMMA InitTInv == Init => TInv
  BY DEF Init, TInv, TypeOK, HandleOK, Steps, AddSteps, Ops, AddOps, Results

(* Every step keeps the types and the descriptors in order.                 *)
LEMMA StepTInv == TInv /\ [Next]_vars => TInv'
<1> SUFFICES ASSUME TInv, [Next]_vars PROVE TInv'
  OBVIOUS
<1> setting' = setting
  BY DEF Next, vars
<1> USE DEF TInv, TypeOK, HandleOK, Steps, AddSteps, Ops, AddOps, Results,
        dirVars, Chunks
<1>1. ASSUME NEW p \in Proc, NEW h \in Hash, NEW o \in AddOps, BeginAdd(p, h, o)
      PROVE TInv'
  BY <1>1 DEF BeginAdd
<1>2. ASSUME NEW p \in Proc, NEW h \in Hash, BeginLookup(p, h) PROVE TInv'
  BY <1>2 DEF BeginLookup
<1>3. ASSUME NEW p \in Proc, BeginVerify(p) PROVE TInv'
  BY <1>3 DEF BeginVerify
<1>4. ASSUME NEW p \in Proc, CheckExists(p) PROVE TInv'
  BY <1>4 DEF CheckExists, AddDone, Goto, Return
<1>5. ASSUME NEW p \in Proc, RemoveTmp(p) PROVE TInv'
  BY <1>5 DEF RemoveTmp, Goto
<1>6. ASSUME NEW p \in Proc, CreateTmp(p) PROVE TInv'
  BY <1>6 DEF CreateTmp, Goto
<1>7. ASSUME NEW p \in Proc, WriteChunk(p) PROVE TInv'
  BY <1>7 DEF WriteChunk, Goto
<1>8. ASSUME NEW p \in Proc, SyncTmp(p) PROVE TInv'
  BY <1>8 DEF SyncTmp, Goto
<1>9. ASSUME NEW p \in Proc, RenameTmp(p) PROVE TInv'
  BY <1>9 DEF RenameTmp, AddDone, Goto, Return
<1>10. ASSUME NEW p \in Proc, WriteHeader(p) PROVE TInv'
  BY <1>10 DEF WriteHeader, Return
<1>11. ASSUME NEW p \in Proc, OpenFinal(p) PROVE TInv'
  BY <1>11 DEF OpenFinal, Goto, Return
<1>12. ASSUME NEW p \in Proc, ReadFinal(p) PROVE TInv'
  BY <1>12 DEF ReadFinal, Return
<1>13. ASSUME NEW p \in Proc, VerifyOne(p) PROVE TInv'
  BY <1>13 DEF VerifyOne, Return
<1>14. ASSUME NEW p \in Proc, VerifyDone(p) PROVE TInv'
  BY <1>14 DEF VerifyDone, Return
<1>15. ASSUME NEW p \in Proc, StatFails(p) \/ RemoveFails(p) \/ IoError(p) PROVE TInv'
  BY <1>15 DEF StatFails, RemoveFails, IoError, Goto, Return
<1>16. ASSUME NEW p \in Proc, Kill(p) PROVE TInv'
  BY <1>16 DEF Kill, Return
<1>17. CASE PowerLoss
  BY <1>17 DEF PowerLoss
<1>18. CASE UNCHANGED vars
  BY <1>18 DEF vars
<1>19. QED
  BY <1>1, <1>2, <1>3, <1>4, <1>5, <1>6, <1>7, <1>8, <1>9, <1>10, <1>11,
     <1>12, <1>13, <1>14, <1>15, <1>16, <1>17, <1>18
  DEF Next, Step, AddStep, ReadStep

(* Every reachable state of the catalog and of the calls on it has its type. *)
THEOREM CatalogType == Spec => []TypeOK
<1>1. Spec => []TInv
  BY InitTInv, StepTInv, PTL DEF Spec
<1>2. TInv => TypeOK
  BY DEF TInv
<1>3. QED
  BY <1>1, <1>2, PTL

-----------------------------------------------------------------------------
(* Exclusive registrations, every fault *)

\* At most one registration per schema is under way.
OneAdder ==
  \A p, q \in Proc, h \in Hash : Adding(p, h) /\ Adding(q, h) => p = q

\* An inode has one name.
OneName ==
  \A h, g \in Hash :
    /\ final[h] # NoInode /\ final[h] = final[g] => h = g
    /\ tmp[h] # NoInode /\ tmp[h] = tmp[g] => h = g
    /\ tmp[h] # NoInode => tmp[h] # final[g]

\* A published file is whole and on stable storage.
FinalDurable ==
  \A h \in Hash : Registered(h) => Complete(final[h]) /\ final[h] \in synced

\* exists() is to be trusted.
StatWorks == "stat" \notin Faults

\* What a registration has achieved at each of its steps.
AddProgress ==
  \A p \in Proc :
    /\ StatWorks /\ pc[p] \in AddSteps \ {"exists"} => ~Registered(job[p])
    /\ pc[p] \in {"write", "sync"} => fd[p] = tmp[job[p]]
    /\ pc[p] = "write" => \A c \in Chunks : c < off[p] => c \in data[fd[p]]
    /\ pc[p] = "sync" => data[fd[p]] = Chunks
    /\ pc[p] = "rename" => /\ Complete(tmp[job[p]])
                           /\ tmp[job[p]] \in synced

\* A reader's descriptor is on a whole file that nobody writes any more; its
\* name may have been given to another one since.
ReaderOnWhole ==
  \A p \in Proc : pc[p] = "read" => Complete(fd[p]) /\ \A h \in Hash : tmp[h] # fd[p]

NoReaderTorn == \A p \in Proc : res[p] # "corrupt"

ExInv == /\ TInv /\ OneAdder /\ OneName /\ FinalDurable /\ AddProgress
         /\ ReaderOnWhole /\ NoReaderTorn

LEMMA InitExInv == Init => (Exclusive => ExInv)
<1> SUFFICES ASSUME Init PROVE ExInv
  OBVIOUS
<1>1. TInv
  BY InitTInv
<1>2. OneAdder /\ OneName /\ FinalDurable /\ AddProgress /\ ReaderOnWhole
      /\ NoReaderTorn
  BY DEF Init, OneAdder, OneName, FinalDurable, AddProgress, ReaderOnWhole,
         NoReaderTorn, Adding, AddSteps, Registered
<1>3. QED
  BY <1>1, <1>2 DEF ExInv

(* Every step of the exclusive regime, faults included, keeps it.           *)
LEMMA StepExInv ==
  (Exclusive => ExInv) /\ [Next]_vars => (Exclusive => ExInv)'
<1> SUFFICES ASSUME Exclusive, Exclusive', ExInv, [Next]_vars PROVE ExInv'
  BY DEF Exclusive, Next, vars
<1> setting' = setting /\ (StatWorks' <=> StatWorks)
  BY DEF Next, vars, Faults, StatWorks
<1> TInv'
  BY StepTInv DEF ExInv
<1> USE DEF ExInv, TInv, TypeOK, HandleOK, Steps, AddSteps, Ops, AddOps, Results,
        dirVars, Chunks, OneAdder, OneName, FinalDurable, AddProgress,
        ReaderOnWhole, NoReaderTorn, Adding, Registered, Complete
<1>1. ASSUME NEW p \in Proc, NEW h \in Hash, NEW o \in AddOps, BeginAdd(p, h, o)
      PROVE ExInv'
  BY <1>1 DEF BeginAdd
<1>2. ASSUME NEW p \in Proc, NEW h \in Hash, BeginLookup(p, h) PROVE ExInv'
  BY <1>2 DEF BeginLookup
<1>3. ASSUME NEW p \in Proc, BeginVerify(p) PROVE ExInv'
  BY <1>3 DEF BeginVerify
<1>4. ASSUME NEW p \in Proc, CheckExists(p) PROVE ExInv'
  <2>1. OneAdder'
    BY <1>4 DEF CheckExists, AddDone, Goto, Return
  <2>2. OneName'
    BY <1>4 DEF CheckExists, AddDone, Goto, Return
  <2>3. FinalDurable'
    BY <1>4 DEF CheckExists, AddDone, Goto, Return
  <2>4. AddProgress'
    BY <1>4 DEF CheckExists, AddDone, Goto, Return
  <2>5. ReaderOnWhole'
    BY <1>4 DEF CheckExists, AddDone, Goto, Return
  <2>6. NoReaderTorn'
    BY <1>4 DEF CheckExists, AddDone, Goto, Return
  <2>7. QED
    BY <2>1, <2>2, <2>3, <2>4, <2>5, <2>6
<1>5. ASSUME NEW p \in Proc, RemoveTmp(p) PROVE ExInv'
  BY <1>5 DEF RemoveTmp, Goto
<1>6. ASSUME NEW p \in Proc, CreateTmp(p) PROVE ExInv'
  BY <1>6 DEF CreateTmp, Goto, Free, Linked
<1>7. ASSUME NEW p \in Proc, WriteChunk(p) PROVE ExInv'
  <2>1. /\ pc[p] = "write" /\ fd[p] \in Inode /\ job[p] \in Hash
        /\ off[p] \in 1..NChunks /\ fd[p] = tmp[job[p]]
    BY <1>7 DEF WriteChunk
  <2>2. \A q \in Proc : q # p => pc'[q] = pc[q] /\ off'[q] = off[q]
    BY <1>7 DEF WriteChunk, Goto
  <2>3. /\ UNCHANGED <<tmp, final, job, fd, res>>
        /\ pc'[p] = IF off[p] = NChunks THEN "sync" ELSE "write"
        /\ off'[p] = off[p] + 1
        /\ synced' = synced \ {fd[p]}
        /\ \A i \in Inode : data'[i] = IF i = fd[p] THEN data[i] \cup {off[p]}
                                                   ELSE data[i]
    <3>1. UNCHANGED <<tmp, final, job, fd, res>>
      BY <1>7 DEF WriteChunk, Goto
    <3>2. /\ pc'[p] = IF off[p] = NChunks THEN "sync" ELSE "write"
          /\ off'[p] = off[p] + 1
          /\ synced' = synced \ {fd[p]}
      BY <1>7 DEF WriteChunk, Goto
    <3>3. \A i \in Inode : data'[i] = IF i = fd[p] THEN data[i] \cup {off[p]}
                                                   ELSE data[i]
      <4>1. data' = [data EXCEPT ![fd[p]] = data[fd[p]] \cup {off[p]}]
        BY <1>7 DEF WriteChunk
      <4>2. data \in [Inode -> SUBSET Chunks]
        OBVIOUS
      <4>3. ASSUME NEW i \in Inode, i = fd[p]
            PROVE data'[i] = data[i] \cup {off[p]}
        BY <4>1, <4>2, <4>3
      <4>4. ASSUME NEW i \in Inode, i # fd[p] PROVE data'[i] = data[i]
        BY <4>1, <4>2, <4>4
      <4>5. QED
        BY <4>3, <4>4, Zenon
    <3>4. QED
      BY <3>1, <3>2, <3>3
  <2>4. OneAdder' /\ OneName' /\ ReaderOnWhole' /\ NoReaderTorn'
    <3>1. \A q \in Proc : pc'[q] \in AddSteps => pc[q] \in AddSteps
      BY <2>1, <2>2
    <3>2. \A q \in Proc : pc'[q] = "read" => pc[q] = "read"
      BY <2>2, <2>3
    <3>3. OneAdder'
      BY <3>1, <2>3
    <3>4. OneName'
      BY <2>3
    <3>5. ReaderOnWhole' /\ NoReaderTorn'
      <4>1. ASSUME NEW q \in Proc, pc'[q] = "read"
            PROVE  Complete(fd[q])' /\ \A h \in Hash : tmp'[h] # fd'[q]
        <5>1. Complete(fd[q]) /\ \A h \in Hash : tmp[h] # fd[q]
          BY <3>2, <4>1
        <5>2. fd[q] # fd[p]
          BY <2>1, <5>1
        <5> QED BY <2>3, <5>1, <5>2
      <4> QED BY <2>3, <4>1
    <3>6. QED
      BY <3>3, <3>4, <3>5
  <2>5. FinalDurable'
    BY <2>1, <2>3
  <2>6. AddProgress'
    <3> SUFFICES ASSUME NEW q \in Proc
                 PROVE /\ StatWorks /\ pc'[q] \in AddSteps \ {"exists"}
                            => ~Registered(job[q])
                       /\ pc'[q] \in {"write", "sync"} => fd[q] = tmp[job[q]]
                       /\ pc'[q] = "write" =>
                            \A c \in Chunks : c < off'[q] => c \in data'[fd[q]]
                       /\ pc'[q] = "sync" => data'[fd[q]] = Chunks
                       /\ pc'[q] = "rename" => /\ Complete(tmp[job[q]])'
                                               /\ tmp[job[q]] \in synced'
      BY <2>3
    <3>1. CASE q = p
      <4>1. /\ StatWorks => ~Registered(job[p])
            /\ fd[p] = tmp[job[p]]
            /\ \A c \in Chunks : c < off[p] => c \in data[fd[p]]
        BY <2>1
      <4>2. data'[fd[p]] = data[fd[p]] \cup {off[p]} /\ data[fd[p]] \subseteq Chunks
        BY <2>1, <2>3
      <4>3. \A c \in Chunks : c < off[p] + 1 => c \in data'[fd[p]]
        BY <4>1, <4>2, <2>1
      <4>4. off[p] = NChunks => data'[fd[p]] = Chunks
        BY <4>2, <4>3
      <4>5. pc'[p] \in {"write", "sync"} /\ final' = final /\ tmp' = tmp
        BY <2>3
      <4>6. QED
        BY <3>1, <4>1, <4>3, <4>4, <4>5, <2>3
    <3>2. CASE q # p
      <4>1. pc[q] \in {"write", "sync", "rename"} => tmp[job[q]] # fd[p]
        BY <3>2, <2>1
      <4>2. QED
        BY <3>2, <4>1, <2>1, <2>2, <2>3
    <3>3. QED
      BY <3>1, <3>2
  <2>7. QED
    BY <2>4, <2>5, <2>6
<1>8. ASSUME NEW p \in Proc, SyncTmp(p) PROVE ExInv'
  BY <1>8 DEF SyncTmp, Goto
<1>9. ASSUME NEW p \in Proc, RenameTmp(p) PROVE ExInv'
  <2>1. /\ pc[p] = "rename" /\ job[p] \in Hash /\ tmp[job[p]] \in Inode
        /\ final' = [final EXCEPT ![job[p]] = tmp[job[p]]]
        /\ tmp' = [tmp EXCEPT ![job[p]] = NoInode]
        /\ UNCHANGED <<data, synced, job>>
    BY <1>9 DEF RenameTmp, AddDone, Goto, Return
  <2>2. \A q \in Proc : q # p => /\ pc'[q] = pc[q] /\ fd'[q] = fd[q]
                                 /\ off'[q] = off[q] /\ res'[q] = res[q]
    BY <1>9 DEF RenameTmp, AddDone, Goto, Return
  <2>3. pc'[p] \in {"idle", "header"} /\ res'[p] # "corrupt"
    BY <1>9, <2>1 DEF RenameTmp, AddDone, Goto, Return
  <2>4. OneAdder' /\ NoReaderTorn'
    BY <2>1, <2>2, <2>3
  <2>5. OneName' /\ FinalDurable'
    BY <2>1
  <2>6. \A q \in Proc : pc[q] \in AddSteps /\ q # p => job[q] # job[p]
    BY <2>1
  <2>7. AddProgress'
    <3> SUFFICES ASSUME NEW q \in Proc
                 PROVE /\ StatWorks /\ pc'[q] \in AddSteps \ {"exists"}
                            => ~Registered(job[q])'
                       /\ pc'[q] \in {"write", "sync"} => fd'[q] = tmp'[job'[q]]
                       /\ pc'[q] = "write" =>
                            \A c \in Chunks : c < off'[q] => c \in data'[fd'[q]]
                       /\ pc'[q] = "sync" => data'[fd'[q]] = Chunks
                       /\ pc'[q] = "rename" => /\ Complete(tmp[job[q]])'
                                               /\ tmp'[job'[q]] \in synced'
      BY <2>1
    <3>1. CASE q = p
      BY <2>3, <3>1
    <3>2. CASE q # p /\ pc[q] \in AddSteps
      <4>1. job[q] # job[p] /\ job[q] \in Hash
        BY <2>6, <3>2
      <4>2. final'[job[q]] = final[job[q]] /\ tmp'[job[q]] = tmp[job[q]]
        BY <2>1, <4>1
      <4> QED BY <2>1, <2>2, <3>2, <4>1, <4>2
    <3>3. CASE q # p /\ pc[q] \notin AddSteps
      BY <2>2, <3>3
    <3> QED BY <3>1, <3>2, <3>3
  <2>8. ReaderOnWhole'
    <3>1. \A q \in Proc : pc'[q] = "read" => pc[q] = "read" /\ fd'[q] = fd[q]
      BY <2>2, <2>3
    <3>2. \A h \in Hash : tmp'[h] \in {tmp[h], NoInode}
      BY <2>1
    <3> QED BY <2>1, <3>1, <3>2
  <2>9. QED
    BY <2>4, <2>5, <2>7, <2>8
<1>10. ASSUME NEW p \in Proc, WriteHeader(p) PROVE ExInv'
  BY <1>10 DEF WriteHeader, Return
<1>11. ASSUME NEW p \in Proc, OpenFinal(p) PROVE ExInv'
  <2>1. /\ pc[p] = "open" /\ job[p] \in Hash
        /\ UNCHANGED <<tmp, final, data, synced, job>>
    BY <1>11 DEF OpenFinal, Goto, Return
  <2>2. \A q \in Proc : q # p => /\ pc'[q] = pc[q] /\ fd'[q] = fd[q]
                                 /\ off'[q] = off[q] /\ res'[q] = res[q]
    BY <1>11 DEF OpenFinal, Goto, Return
  <2>3. /\ pc'[p] \in {"idle", "read"} /\ res'[p] # "corrupt"
        /\ pc'[p] = "read" => fd'[p] = final[job[p]] /\ Registered(job[p])
    BY <1>11, <2>1 DEF OpenFinal, Goto, Return
  <2>4. OneAdder' /\ NoReaderTorn' /\ ReaderOnWhole'
    <3>1. \A q \in Proc : pc'[q] \in AddSteps => pc[q] \in AddSteps
      BY <2>2, <2>3
    <3>2. OneAdder'
      BY <3>1, <2>1
    <3>3. NoReaderTorn'
      BY <2>2, <2>3
    <3>4. ReaderOnWhole'
      <4> SUFFICES ASSUME NEW q \in Proc, pc'[q] = "read"
                   PROVE Complete(fd'[q]) /\ \A h \in Hash : tmp[h] # fd'[q]
        BY <2>1
      <4>1. CASE q = p
        BY <2>1, <2>3, <4>1
      <4>2. CASE q # p
        BY <4>2, <2>2
      <4>3. QED
        BY <4>1, <4>2
    <3>5. QED
      BY <3>2, <3>3, <3>4
  <2>5. OneName' /\ FinalDurable'
    BY <2>1
  <2>6. AddProgress'
    <3>1. \A q \in Proc : pc'[q] \in AddSteps =>
                            pc'[q] = pc[q] /\ fd'[q] = fd[q] /\ off'[q] = off[q]
      BY <2>2, <2>3
    <3> QED BY <2>1, <3>1
  <2>7. QED
    BY <2>4, <2>5, <2>6
<1>12. ASSUME NEW p \in Proc, ReadFinal(p) PROVE ExInv'
  <2>1. Complete(fd[p]) /\ pc[p] = "read"
    BY <1>12 DEF ReadFinal
  <2>2. res'[p] = "ok" /\ pc'[p] = "idle"
    BY <1>12, <2>1 DEF ReadFinal, Return
  <2>3. NoReaderTorn'
    BY <1>12, <2>2 DEF ReadFinal, Return
  <2>4. OneAdder' /\ OneName' /\ FinalDurable' /\ ReaderOnWhole'
    BY <1>12, <2>2 DEF ReadFinal, Return
  <2>5. AddProgress'
    <3>1. /\ \A q \in Proc : pc'[q] \in AddSteps =>
                               pc'[q] = pc[q] /\ fd'[q] = fd[q] /\ off'[q] = off[q]
          /\ UNCHANGED <<tmp, final, data, synced, job>>
      BY <1>12, <2>2 DEF ReadFinal, Return
    <3> QED BY <3>1
  <2>6. QED
    BY <2>3, <2>4, <2>5
<1>13. ASSUME NEW p \in Proc, VerifyOne(p) PROVE ExInv'
  BY <1>13 DEF VerifyOne, Return
<1>14. ASSUME NEW p \in Proc, VerifyDone(p) PROVE ExInv'
  BY <1>14 DEF VerifyDone, Return
<1>15. ASSUME NEW p \in Proc, StatFails(p) \/ RemoveFails(p) \/ IoError(p) PROVE ExInv'
  <2>1. CASE StatFails(p)
    <3>1. ~StatWorks
      BY <2>1 DEF StatFails, StatWorks
    <3> QED BY <2>1, <3>1 DEF StatFails, Goto
  <2>2. CASE RemoveFails(p)
    BY <2>2 DEF RemoveFails, Goto
  <2>3. CASE IoError(p)
    BY <2>3 DEF IoError, Return
  <2> QED BY <1>15, <2>1, <2>2, <2>3
<1>16. ASSUME NEW p \in Proc, Kill(p) PROVE ExInv'
  BY <1>16 DEF Kill, Return
<1>17. CASE PowerLoss
  BY <1>17 DEF PowerLoss
<1>18. CASE UNCHANGED vars
  BY <1>18 DEF vars
<1>19. QED
  BY <1>1, <1>2, <1>3, <1>4, <1>5, <1>6, <1>7, <1>8, <1>9, <1>10, <1>11,
     <1>12, <1>13, <1>14, <1>15, <1>16, <1>17, <1>18
  DEF Next, Step, AddStep, ReadStep

(* Registrations of one schema that exclude each other publish only whole   *)
(* files, wherever processes are killed, calls fail or the power goes.      *)
THEOREM CatalogFinalComplete == Spec => []FinalComplete
<1>1. Spec => [](Exclusive => ExInv)
  BY InitExInv, StepExInv, PTL DEF Spec
<1>2. (Exclusive => ExInv) => FinalComplete
  BY DEF ExInv, FinalDurable, FinalComplete, AllComplete
<1>3. QED
  BY <1>1, <1>2, PTL

(* Under the same regime no resolver and no audit ever sees a torn schema.  *)
THEOREM CatalogReadersNeverTorn == Spec => []ReadersNeverTorn
<1>1. Spec => [](Exclusive => ExInv)
  BY InitExInv, StepExInv, PTL DEF Spec
<1>2. (Exclusive => ExInv) => ReadersNeverTorn
  BY DEF ExInv, NoReaderTorn, ReadersNeverTorn
<1>3. QED
  BY <1>1, <1>2, PTL

(* As long as no power is lost and add_schema can tell what exists, such     *)
(* registrations never replace a file: a schema is unregistered when its     *)
(* registration reaches the rename.                                          *)
THEOREM CatalogFinalNeverReplaced == Spec => FinalNeverReplaced
<1>1. Spec => [](Exclusive => ExInv)
  BY InitExInv, StepExInv, PTL DEF Spec
<1>2. (Exclusive => ExInv) /\ [Next]_vars =>
        [Exclusive /\ Faults \cap {"stat", "power"} = {} =>
           \A h \in Hash : Registered(h) => final'[h] = final[h]]_vars
  <2> SUFFICES ASSUME ExInv, Next, Faults \cap {"stat", "power"} = {}, NEW h \in Hash, Registered(h)
               PROVE final'[h] = final[h]
    OBVIOUS
  <2>1. ASSUME NEW p \in Proc, RenameTmp(p) PROVE final'[h] = final[h]
    <3>1. pc[p] = "rename" /\ ~Registered(job[p])
      BY <2>1 DEF RenameTmp, ExInv, AddProgress, AddSteps, StatWorks
    <3>2. job[p] # h
      BY <3>1
    <3>3. QED
      BY <2>1, <3>2 DEF RenameTmp, dirVars, ExInv, TInv, TypeOK
  <2>2. CASE PowerLoss
    BY <2>2 DEF PowerLoss
  <2>3. CASE final' = final
    BY <2>3
  <2>4. QED
    BY <2>1, <2>2, <2>3
    DEF Next, Step, AddStep, ReadStep, BeginAdd, BeginLookup, BeginVerify, CheckExists,
        RemoveTmp, CreateTmp, WriteChunk, SyncTmp, WriteHeader, OpenFinal, ReadFinal,
        VerifyOne, VerifyDone, StatFails, RemoveFails, IoError, Kill, dirVars
<1>3. QED
  BY <1>1, <1>2, PTL DEF Spec, FinalNeverReplaced

\* open_writer comes to the header with its schema registered.
HeadersRegistered ==
  /\ \A h \in heFiles : Registered(h)
  /\ \A p \in Proc : pc[p] = "header" => Registered(job[p])

FilesInv == ExInv /\ HeadersRegistered

(* As long as no power is lost, a data file's schema is in the catalog.     *)
THEOREM CatalogFilesResolvable == Spec => []FilesResolvable
<1> DEFINE Calm == Exclusive /\ "power" \notin Faults
<1>1. Init => (Calm => FilesInv)
  BY InitExInv DEF Init, FilesInv, HeadersRegistered
<1>2. (Calm => FilesInv) /\ [Next]_vars => (Calm => FilesInv)'
  <2> SUFFICES ASSUME Calm, FilesInv, [Next]_vars PROVE FilesInv'
    BY DEF Exclusive, Faults, Next, vars
  <2>1. ExInv'
    <3>1. Exclusive'
      BY DEF Exclusive, Next, vars
    <3>2. QED
      BY <3>1, StepExInv DEF FilesInv
  <2> HeadersRegistered /\ TInv
    BY DEF FilesInv, ExInv
  <2> USE DEF HeadersRegistered, Registered, TInv, TypeOK, HandleOK, dirVars
  <2>2. HeadersRegistered'
    <3>1. ASSUME NEW p \in Proc, NEW h \in Hash, NEW o \in AddOps, BeginAdd(p, h, o)
          PROVE HeadersRegistered'
      BY <3>1 DEF BeginAdd
    <3>2. ASSUME NEW p \in Proc, NEW h \in Hash, BeginLookup(p, h)
          PROVE HeadersRegistered'
      BY <3>2 DEF BeginLookup
    <3>3. ASSUME NEW p \in Proc, BeginVerify(p) PROVE HeadersRegistered'
      BY <3>3 DEF BeginVerify
    <3>4. ASSUME NEW p \in Proc, CheckExists(p) PROVE HeadersRegistered'
      BY <3>4 DEF CheckExists, AddDone, Goto, Return
    <3>5. ASSUME NEW p \in Proc, RemoveTmp(p) \/ SyncTmp(p) PROVE HeadersRegistered'
      BY <3>5 DEF RemoveTmp, SyncTmp, Goto
    <3>6. ASSUME NEW p \in Proc, CreateTmp(p) PROVE HeadersRegistered'
      BY <3>6 DEF CreateTmp, Goto
    <3>7. ASSUME NEW p \in Proc, WriteChunk(p) PROVE HeadersRegistered'
      BY <3>7 DEF WriteChunk, Goto
    <3>8. ASSUME NEW p \in Proc, RenameTmp(p) PROVE HeadersRegistered'
      <4>1. \A h \in Hash : Registered(h) => Registered(h)'
        BY <3>8 DEF RenameTmp
      <4>2. \A q \in Proc : q # p => pc'[q] = pc[q]
        BY <3>8 DEF RenameTmp, AddDone, Goto, Return
      <4>3. /\ heFiles' = heFiles /\ job' = job /\ job[p] \in Hash
            /\ heFiles \subseteq Hash
        BY <3>8 DEF RenameTmp, AddDone, Goto, Return, AddSteps
      <4>4. pc'[p] = "header" => Registered(job[p])'
        BY <3>8, <4>3 DEF RenameTmp, AddDone, Goto, Return
      <4>5. \A q \in Proc : pc[q] = "header" => job[q] \in Hash
        OBVIOUS
      <4>6. QED
        BY <4>1, <4>2, <4>3, <4>4, <4>5
    <3>9. ASSUME NEW p \in Proc, WriteHeader(p) PROVE HeadersRegistered'
      BY <3>9 DEF WriteHeader, Return
    <3>10. ASSUME NEW p \in Proc, OpenFinal(p) \/ ReadFinal(p) PROVE HeadersRegistered'
      BY <3>10 DEF OpenFinal, ReadFinal, Goto, Return
    <3>11. ASSUME NEW p \in Proc, VerifyOne(p) \/ VerifyDone(p)
           PROVE HeadersRegistered'
      BY <3>11 DEF VerifyOne, VerifyDone, Return
    <3>12. ASSUME NEW p \in Proc, StatFails(p) \/ RemoveFails(p) \/ IoError(p) \/ Kill(p)
           PROVE  HeadersRegistered'
      BY <3>12 DEF StatFails, RemoveFails, IoError, Kill, Goto, Return
    <3>13. CASE PowerLoss
      BY <3>13 DEF PowerLoss
    <3>14. CASE UNCHANGED vars
      BY <3>14 DEF vars
    <3>15. QED
      BY <3>1, <3>2, <3>3, <3>4, <3>5, <3>6, <3>7, <3>8, <3>9, <3>10, <3>11,
         <3>12, <3>13, <3>14
      DEF Next, Step, AddStep, ReadStep
  <2>3. QED
    BY <2>1, <2>2 DEF FilesInv
<1>3. (Calm => FilesInv) => FilesResolvable
  <2> SUFFICES ASSUME FilesInv, NEW h \in heFiles
               PROVE Registered(h) /\ Complete(final[h])
    BY DEF FilesResolvable
  <2>1. h \in Hash /\ Registered(h)
    BY DEF FilesInv, ExInv, HeadersRegistered, TInv, TypeOK
  <2>2. QED
    BY <2>1 DEF FilesInv, ExInv, FinalDurable
<1>4. QED
  BY <1>1, <1>2, <1>3, PTL DEF Spec

-----------------------------------------------------------------------------
(* Racing registrations, no faults *)

\* Some descriptor open for writing on inode i has chunk c before it.
Pending(i, c) == \E p \in Proc : pc[p] = "write" /\ fd[p] = i /\ off[p] <= c

\* Nothing that has a name is missing a chunk nobody will write.
NamedHeal ==
  \A h \in Hash, c \in Chunks :
    /\ tmp[h] # NoInode => c \in data[tmp[h]] \/ Pending(tmp[h], c)
    /\ final[h] # NoInode => c \in data[final[h]] \/ Pending(final[h], c)

\* A writer's schema is registered, or some tmp file of it exists, or another
\* racer is about to create one.
TmpPending ==
  \A p \in Proc :
    pc[p] \in {"write", "sync", "rename"} =>
      \/ Registered(job[p]) \/ tmp[job[p]] # NoInode
      \/ \E q \in Proc : pc[q] = "create" /\ job[q] = job[p]

\* A call that reads is not a registration, and a registration that is about
\* to write a data file's header has registered its schema.
CallOK ==
  \A p \in Proc :
    /\ pc[p] \in {"open", "read", "verify"} => op[p] \notin AddOps
    /\ pc[p] = "header" => Registered(job[p])

\* RaceRegisters, without its condition.
AttemptsCount ==
  \A h \in Hash :
    Attempted(h) => Registered(h) \/ \E p \in Proc : Adding(p, h)

RaceInv == TInv /\ CallOK /\ NamedHeal /\ TmpPending /\ AttemptsCount

LEMMA InitRaceInv == Init => (Faults = {} => RaceInv)
<1> SUFFICES ASSUME Init PROVE RaceInv
  OBVIOUS
<1>1. TInv
  BY InitTInv
<1>2. CallOK /\ NamedHeal /\ TmpPending /\ AttemptsCount
  BY DEF Init, CallOK, NamedHeal, TmpPending, AttemptsCount, Attempted, Registered
<1>3. QED
  BY <1>1, <1>2 DEF RaceInv

\* Only the call of p moves.
OnlyCallOf(p) ==
  \A q \in Proc \ {p} :
    /\ pc'[q] = pc[q] /\ op'[q] = op[q] /\ job'[q] = job[q]
    /\ fd'[q] = fd[q] /\ off'[q] = off[q] /\ res'[q] = res[q]

\* What the call of p may do when it leaves the directory and the files alone.
QuietStep(p) ==
  /\ OnlyCallOf(p)
  /\ UNCHANGED <<tmp, final, data>>
  /\ pc[p] \notin {"write", "create"}
  /\ pc'[p] = "create" => job'[p] = job[p]
  /\ pc'[p] \in {"sync", "rename"} => pc[p] = "sync" /\ job'[p] = job[p]
  /\ pc'[p] # "write"
  /\ pc[p] \in AddSteps =>
       job'[p] = job[p] /\ (pc'[p] \in AddSteps \/ Registered(job[p]))
  /\ pc'[p] = "idle" /\ op'[p] \in AddOps /\ res'[p] \in {"ok", "io_error"} =>
       Registered(job'[p])

(* Such a step keeps the three racing invariants.                           *)
LEMMA QuietStepRace ==
  ASSUME RaceInv, NEW p \in Proc, QuietStep(p)
  PROVE NamedHeal' /\ TmpPending' /\ AttemptsCount'
<1> USE DEF QuietStep, OnlyCallOf, Registered, Adding
<1>1. NamedHeal'
  <2>1. \A i, c : Pending(i, c) => Pending(i, c)'
    BY DEF Pending
  <2>2. QED
    BY <2>1 DEF NamedHeal, RaceInv
<1>2. TmpPending'
  <2> SUFFICES ASSUME NEW q \in Proc, pc'[q] \in {"write", "sync", "rename"}
               PROVE \/ final[job'[q]] # NoInode \/ tmp[job'[q]] # NoInode
                     \/ \E r \in Proc : pc'[r] = "create" /\ job'[r] = job'[q]
    BY DEF TmpPending
  <2>1. pc[q] \in {"write", "sync", "rename"} /\ job'[q] = job[q]
    OBVIOUS
  <2>2. ASSUME NEW r \in Proc, pc[r] = "create", job[r] = job[q]
        PROVE pc'[r] = "create" /\ job'[r] = job'[q]
    BY <2>1, <2>2
  <2>3. QED
    BY <2>1, <2>2 DEF RaceInv, TmpPending
<1>3. AttemptsCount'
  <2> SUFFICES ASSUME NEW h \in Hash, Attempted(h)', final[h] = NoInode
               PROVE \E q \in Proc : Adding(q, h)'
    BY DEF AttemptsCount
  <2>1. Attempted(h)
    BY DEF Attempted
  <2>2. PICK q \in Proc : Adding(q, h)
    BY <2>1 DEF RaceInv, AttemptsCount
  <2>3. QED
    BY <2>2
<1>4. QED
  BY <1>1, <1>2, <1>3

(* Without faults every step keeps it, however registrations interleave.    *)
LEMMA StepRaceInv ==
  (Faults = {} => RaceInv) /\ [Next]_vars => (Faults = {} => RaceInv)'
<1> SUFFICES ASSUME Faults = {}, Faults' = {}, RaceInv, [Next]_vars PROVE RaceInv'
  BY DEF Faults, Next, vars
<1> setting' = setting
  BY DEF Next, vars
<1> TInv'
  BY StepTInv DEF RaceInv
<1> USE DEF TInv, TypeOK, HandleOK, Steps, AddSteps, Ops, AddOps, Results,
        dirVars, Chunks, CallOK, Registered
<1>1. ASSUME NEW p \in Proc, NEW h \in Hash, NEW o \in AddOps, BeginAdd(p, h, o) PROVE RaceInv'
  <2>1. QuietStep(p)
    BY <1>1 DEF RaceInv, QuietStep, OnlyCallOf, BeginAdd
  <2>2. CallOK'
    BY <1>1 DEF RaceInv, BeginAdd
  <2>3. QED
    BY <2>1, <2>2, QuietStepRace DEF RaceInv
<1>2. ASSUME NEW p \in Proc, NEW h \in Hash, BeginLookup(p, h) PROVE RaceInv'
  <2>1. QuietStep(p)
    BY <1>2 DEF RaceInv, QuietStep, OnlyCallOf, BeginLookup
  <2>2. CallOK'
    BY <1>2 DEF RaceInv, BeginLookup
  <2>3. QED
    BY <2>1, <2>2, QuietStepRace DEF RaceInv
<1>3. ASSUME NEW p \in Proc, BeginVerify(p) PROVE RaceInv'
  <2>1. QuietStep(p)
    BY <1>3 DEF RaceInv, QuietStep, OnlyCallOf, BeginVerify
  <2>2. CallOK'
    BY <1>3 DEF RaceInv, BeginVerify
  <2>3. QED
    BY <2>1, <2>2, QuietStepRace DEF RaceInv
<1>4. ASSUME NEW p \in Proc, CheckExists(p) PROVE RaceInv'
  <2>1. QuietStep(p)
    BY <1>4 DEF RaceInv, QuietStep, OnlyCallOf, CheckExists, AddDone, Goto, Return
  <2>2. CallOK'
    BY <1>4 DEF RaceInv, CheckExists, AddDone, Goto, Return
  <2>3. QED
    BY <2>1, <2>2, QuietStepRace DEF RaceInv
<1>5. ASSUME NEW p \in Proc, SyncTmp(p) PROVE RaceInv'
  <2>1. QuietStep(p)
    BY <1>5 DEF RaceInv, QuietStep, OnlyCallOf, SyncTmp, Goto
  <2>2. CallOK'
    BY <1>5 DEF RaceInv, SyncTmp, Goto
  <2>3. QED
    BY <2>1, <2>2, QuietStepRace DEF RaceInv
<1>6. ASSUME NEW p \in Proc, WriteHeader(p) PROVE RaceInv'
  <2>1. QuietStep(p)
    BY <1>6 DEF RaceInv, QuietStep, OnlyCallOf, WriteHeader, Return
  <2>2. CallOK'
    BY <1>6 DEF RaceInv, WriteHeader, Return
  <2>3. QED
    BY <2>1, <2>2, QuietStepRace DEF RaceInv
<1>7. ASSUME NEW p \in Proc, OpenFinal(p) PROVE RaceInv'
  <2>1. QuietStep(p)
    BY <1>7 DEF RaceInv, QuietStep, OnlyCallOf, OpenFinal, Goto, Return
  <2>2. CallOK'
    BY <1>7 DEF RaceInv, OpenFinal, Goto, Return
  <2>3. QED
    BY <2>1, <2>2, QuietStepRace DEF RaceInv
<1>8. ASSUME NEW p \in Proc, ReadFinal(p) PROVE RaceInv'
  <2>1. QuietStep(p)
    BY <1>8 DEF RaceInv, QuietStep, OnlyCallOf, ReadFinal, Return
  <2>2. CallOK'
    BY <1>8 DEF RaceInv, ReadFinal, Return
  <2>3. QED
    BY <2>1, <2>2, QuietStepRace DEF RaceInv
<1>9. ASSUME NEW p \in Proc, VerifyOne(p) PROVE RaceInv'
  <2>1. QuietStep(p)
    BY <1>9 DEF RaceInv, QuietStep, OnlyCallOf, VerifyOne, Return
  <2>2. CallOK'
    BY <1>9 DEF RaceInv, VerifyOne, Return
  <2>3. QED
    BY <2>1, <2>2, QuietStepRace DEF RaceInv
<1>10. ASSUME NEW p \in Proc, VerifyDone(p) PROVE RaceInv'
  <2>1. QuietStep(p)
    BY <1>10 DEF RaceInv, QuietStep, OnlyCallOf, VerifyDone, Return
  <2>2. CallOK'
    BY <1>10 DEF RaceInv, VerifyDone, Return
  <2>3. QED
    BY <2>1, <2>2, QuietStepRace DEF RaceInv
<1>11. ASSUME NEW p \in Proc, RemoveTmp(p) PROVE RaceInv'
  <2>1. OnlyCallOf(p) /\ pc[p] = "unlink" /\ pc'[p] = "create"
        /\ UNCHANGED <<final, data, op, job, fd, off, res>>
        /\ job[p] \in Hash /\ tmp' = [tmp EXCEPT ![job[p]] = NoInode]
    BY <1>11 DEF RaceInv, RemoveTmp, OnlyCallOf, Goto
  <2>2. CallOK'
    BY <2>1 DEF RaceInv, OnlyCallOf
  <2>3. \A i, c : Pending(i, c) => Pending(i, c)'
    BY <2>1 DEF Pending, OnlyCallOf
  <2>4. NamedHeal'
    BY <2>1, <2>3 DEF RaceInv, NamedHeal
  <2>5. TmpPending'
    BY <2>1 DEF RaceInv, TmpPending, OnlyCallOf
  <2>6. AttemptsCount'
    BY <2>1 DEF RaceInv, AttemptsCount, OnlyCallOf, Attempted, Adding
  <2>7. QED
    BY <2>2, <2>4, <2>5, <2>6 DEF RaceInv
<1>12. ASSUME NEW p \in Proc, CreateTmp(p) PROVE RaceInv'
  <2>1. PICK i \in Inode :
          /\ tmp' = [tmp EXCEPT ![job[p]] = i]
          /\ data' = [data EXCEPT ![i] = {}]
          /\ fd' = [fd EXCEPT ![p] = i]
    BY <1>12 DEF CreateTmp
  <2>2. OnlyCallOf(p) /\ pc[p] = "create" /\ pc'[p] = "write" /\ off'[p] = 1
        /\ UNCHANGED <<final, op, job, res>> /\ job[p] \in Hash
    BY <1>12 DEF RaceInv, CreateTmp, OnlyCallOf, Goto
  <2>3. CallOK'
    BY <2>2 DEF RaceInv, OnlyCallOf
  <2>4. \A j, c : Pending(j, c) => Pending(j, c)'
    BY <2>2 DEF Pending, OnlyCallOf
  <2>5. \A c \in Chunks : Pending(i, c)'
    BY <2>1, <2>2 DEF Pending, RaceInv
  <2>6. \A j \in Inode : j # i => data'[j] = data[j]
    BY <2>1 DEF RaceInv
  <2>7. NamedHeal'
    <3>1. \A j \in Inode, c \in Chunks :
            c \in data[j] \/ Pending(j, c) => c \in data'[j] \/ Pending(j, c)'
      BY <2>4, <2>5, <2>6
    <3>2. ASSUME NEW j \in Inode, \E h \in Hash : tmp'[h] = j \/ final'[h] = j,
                 NEW c \in Chunks
          PROVE c \in data'[j] \/ Pending(j, c)'
      <4>1. CASE j = i
        BY <4>1, <2>5
      <4>2. CASE j # i
        <5>1. \E h \in Hash : tmp[h] = j \/ final[h] = j
          BY <3>2, <4>2, <2>1, <2>2 DEF RaceInv
        <5>2. c \in data[j] \/ Pending(j, c)
          BY <5>1 DEF RaceInv, NamedHeal
        <5>3. QED
          BY <5>2, <3>1
      <4>3. QED
        BY <4>1, <4>2
    <3>3. \A h \in Hash : /\ tmp'[h] # NoInode => tmp'[h] \in Inode
                          /\ final'[h] # NoInode => final'[h] \in Inode
      BY TInv'
    <3>4. QED
      BY <3>2, <3>3 DEF NamedHeal, Pending
  <2>8. TmpPending'
    BY <2>1, <2>2 DEF RaceInv, TmpPending, OnlyCallOf
  <2>9. AttemptsCount'
    BY <2>2 DEF RaceInv, AttemptsCount, OnlyCallOf, Attempted, Adding
  <2>10. QED
    BY <2>3, <2>7, <2>8, <2>9 DEF RaceInv
<1>13. ASSUME NEW p \in Proc, WriteChunk(p) PROVE RaceInv'
  <2>1. /\ OnlyCallOf(p) /\ pc[p] = "write" /\ pc'[p] \in {"write", "sync"}
        /\ UNCHANGED <<tmp, final, op, job, fd, res>> /\ job[p] \in Hash
    BY <1>13 DEF RaceInv, WriteChunk, OnlyCallOf, Goto
  <2>2. /\ fd[p] \in Inode /\ off[p] \in Chunks /\ off'[p] = off[p] + 1
        /\ off[p] # NChunks => pc'[p] = "write"
    BY <1>13 DEF RaceInv, WriteChunk, Goto
  <2>3. \A j \in Inode : /\ data[j] \subseteq data'[j]
                         /\ j = fd[p] => off[p] \in data'[j]
    BY <1>13, <2>2 DEF RaceInv, WriteChunk
  <2>4. CallOK'
    BY <2>1 DEF RaceInv, OnlyCallOf
  <2>5. ASSUME NEW j \in Inode, NEW c \in Chunks, c \in data[j] \/ Pending(j, c)
        PROVE c \in data'[j] \/ Pending(j, c)'
    <3>1. CASE c \in data[j]
      BY <3>1, <2>3
    <3>2. ASSUME NEW q \in Proc, pc[q] = "write", fd[q] = j, off[q] <= c
          PROVE c \in data'[j] \/ Pending(j, c)'
      <4>1. CASE q # p
        BY <3>2, <4>1, <2>1 DEF Pending, OnlyCallOf
      <4>2. CASE q = p /\ off[p] = c
        BY <3>2, <4>2, <2>3
      <4>3. CASE q = p /\ off[p] # c
        <5>1. off[p] \in 1..NChunks /\ c \in 1..NChunks /\ off[p] <= c /\ off[p] # c
          BY <3>2, <4>3, <2>2
        <5>2. off[p] + 1 <= c /\ off[p] # NChunks
          BY <5>1
        <5>3. pc'[p] = "write" /\ fd'[p] = j /\ off'[p] <= c
          BY <3>2, <4>3, <5>2, <2>1, <2>2
        <5> QED BY <5>3 DEF Pending
      <4>4. QED
        BY <4>1, <4>2, <4>3
    <3>3. QED
      BY <2>5, <3>1, <3>2 DEF Pending
  <2>6. NamedHeal'
    BY <2>1, <2>5 DEF RaceInv, NamedHeal
  <2>7. TmpPending'
    BY <2>1 DEF RaceInv, TmpPending, OnlyCallOf
  <2>8. AttemptsCount'
    BY <2>1 DEF RaceInv, AttemptsCount, OnlyCallOf, Attempted, Adding
  <2>9. QED
    BY <2>4, <2>6, <2>7, <2>8 DEF RaceInv
<1>14. ASSUME NEW p \in Proc, RenameTmp(p) PROVE RaceInv'
  <2>1. OnlyCallOf(p) /\ pc[p] = "rename" /\ pc'[p] \in {"idle", "header"}
        /\ UNCHANGED <<data, job, op>> /\ job[p] \in Hash
    BY <1>14 DEF RaceInv, RenameTmp, OnlyCallOf, AddDone, Goto, Return
  <2>2. \A j, c : Pending(j, c) => Pending(j, c)'
    BY <2>1 DEF Pending, OnlyCallOf
  <2>3. CASE tmp[job[p]] = NoInode
    <3>1. UNCHANGED <<tmp, final>> /\ pc'[p] = "idle"
      BY <1>14, <2>3 DEF RenameTmp, Return
    <3>2. final[job[p]] # NoInode \/ \E q \in Proc : pc[q] = "create" /\ job[q] = job[p]
      BY <2>1, <2>3 DEF RaceInv, TmpPending
    <3>3. CallOK'
      BY <2>1, <3>1 DEF RaceInv, OnlyCallOf
    <3>4. NamedHeal'
      BY <2>1, <2>2, <3>1 DEF RaceInv, NamedHeal
    <3>5. TmpPending'
      BY <2>1, <3>1 DEF RaceInv, TmpPending, OnlyCallOf
    <3>6. AttemptsCount'
      <4> SUFFICES ASSUME NEW h \in Hash, Attempted(h)', final[h] = NoInode
                   PROVE \E q \in Proc : Adding(q, h)'
        BY <3>1 DEF AttemptsCount
      <4>1. CASE h = job[p]
        BY <4>1, <3>2, <2>1 DEF OnlyCallOf, Adding
      <4>2. CASE h # job[p]
        <5>1. Attempted(h)
          BY <4>2, <2>1 DEF Attempted, OnlyCallOf
        <5>2. PICK q \in Proc : Adding(q, h)
          BY <5>1 DEF RaceInv, AttemptsCount
        <5>3. QED
          BY <5>2, <4>2, <2>1 DEF OnlyCallOf, Adding
      <4>3. QED
        BY <4>1, <4>2
    <3>7. QED
      BY <3>3, <3>4, <3>5, <3>6 DEF RaceInv
  <2>4. CASE tmp[job[p]] # NoInode
    <3>1. /\ final' = [final EXCEPT ![job[p]] = tmp[job[p]]]
          /\ tmp' = [tmp EXCEPT ![job[p]] = NoInode]
      BY <1>14, <2>4 DEF RenameTmp
    <3>2. \A h \in Hash : /\ h = job[p] => Registered(h)'
                          /\ h # job[p] => tmp'[h] = tmp[h] /\ final'[h] = final[h]
      BY <3>1, <2>4, <2>1 DEF RaceInv
    <3>3. CallOK'
      BY <2>1, <3>2 DEF RaceInv, OnlyCallOf
    <3>4. NamedHeal'
      BY <2>1, <2>2, <3>1 DEF RaceInv, NamedHeal
    <3>5. TmpPending'
      BY <2>1, <3>2 DEF RaceInv, TmpPending, OnlyCallOf
    <3>6. AttemptsCount'
      BY <2>1, <3>2 DEF RaceInv, AttemptsCount, OnlyCallOf, Attempted, Adding
    <3>7. QED
      BY <3>3, <3>4, <3>5, <3>6 DEF RaceInv
  <2>5. QED
    BY <2>3, <2>4
<1>15. ASSUME NEW p \in Proc, StatFails(p) \/ RemoveFails(p) \/ IoError(p) \/ Kill(p)
       PROVE  RaceInv'
  BY <1>15 DEF StatFails, RemoveFails, IoError, Kill
<1>16. CASE PowerLoss
  BY <1>16 DEF PowerLoss
<1>17. CASE UNCHANGED vars
  BY <1>17 DEF vars, RaceInv, NamedHeal, TmpPending, AttemptsCount, Pending, Adding,
               Attempted
<1>18. QED
  BY <1>1, <1>2, <1>3, <1>4, <1>5, <1>6, <1>7, <1>8, <1>9, <1>10, <1>11,
     <1>12, <1>13, <1>14, <1>15, <1>16, <1>17
  DEF Next, Step, AddStep, ReadStep

(* Without faults a published file that is incomplete is being completed.   *)
THEOREM CatalogRaceHeals == Spec => []RaceHeals
<1>1. Spec => [](Faults = {} => RaceInv)
  BY InitRaceInv, StepRaceInv, PTL DEF Spec
<1>2. (Faults = {} => RaceInv) => RaceHeals
  BY DEF RaceInv, NamedHeal, RaceHeals, Registered, Pending
<1>3. QED
  BY <1>1, <1>2, PTL

(* Without faults a failed registration leaves the schema registered, or    *)
(* another registration of it under way.                                    *)
THEOREM CatalogRaceRegisters == Spec => []RaceRegisters
<1>1. Spec => [](Faults = {} => RaceInv)
  BY InitRaceInv, StepRaceInv, PTL DEF Spec
<1>2. (Faults = {} => RaceInv) => RaceRegisters
  BY DEF RaceInv, AttemptsCount, RaceRegisters
<1>3. QED
  BY <1>1, <1>2, PTL

=============================================================================
