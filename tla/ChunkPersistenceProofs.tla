----------------------- MODULE ChunkPersistenceProofs -----------------------
(***************************************************************************)
(* Proofs about ChunkPersistence: what each process leaves alone, that     *)
(* every step preserves the type invariant, the conjuncts of IInv about    *)
(* who refers to a holder and about what a snapshot holds, and that a      *)
(* clean chunk is in storage or on its way there.  Hence IInv is           *)
(* inductive, and the safety properties of the module follow from it.      *)
(*                                                                         *)
(* Each lemma about a conjunct first shows that it survives a step that    *)
(* leaves its variables alone, then goes through the actions that change   *)
(* one of them.                                                            *)
(***************************************************************************)
EXTENDS ChunkPersistence, TLAPS

\* The constant assumptions as the provers use them.
LEMMA VersionType ==
    /\ 0 \in Version /\ NoData \in Content /\ Unread \notin Version
    /\ NothingRead \in [Sections -> Version \cup {Unread}]
    /\ \A v \in Version : v < MaxVersion => v + 1 \in Version
BY MaxVersionAssumption DEF Version, NoData, Content, Unread, NothingRead

-----------------------------------------------------------------------------
(* Type correctness, one part at a time.                                   *)

\* What each kind of process leaves alone.
LEMMA GameThreadFrame ==
    ASSUME NEW c \in Chunks, GameThread(c)
    PROVE  UNCHANGED <<producer, missed, disk, handles, phase, tosave>>
BY Zenon DEF GameThread, CreateHolder, BeginChunkUnload, EnterUnloadingMap, ReviveFromUnloading,
   EnterActiveMap, ModifyActive, QueueLightChange, SpawnSave, FinalizeUnload, dataVars,
   storeVars, runVars

LEMMA LightWriterFrame ==
    ASSUME NEW c \in Chunks, LightWriter(c)
    PROVE  UNCHANGED <<map, lifecycle, status, producer, pc, target, snap, torn, disk,
                       handles, releases, phase, tosave>>
BY Zenon DEF LightWriter, LightSetup, LightWrite, LightUnchanged, LightChangedActive,
   LightChangedUnloading, FinishInFlight, holderVars, taskVars, storeVars, runVars

LEMMA ProducerFrame ==
    ASSUME NEW c \in Chunks, Producer(c)
    PROVE  UNCHANGED <<map, lifecycle, light, pc, target, snap, torn, missed, disk, releases,
                       phase, tosave>>
BY Zenon DEF Producer, StartStep, AcquireGivesUp, AcquireChunk, GiveUpAcquired, PublishLoaded,
   PublishCreated, StepWrite, FinishStep, holderVars, dataVars, taskVars, storeVars, runVars

LEMMA SaveTaskFrame ==
    ASSUME NEW t \in SaveTasks, SaveTask(t)
    PROVE  UNCHANGED <<map, status, light, producer, mem, version, missed, handles, releases,
                       phase, tosave>>
BY Zenon DEF SaveTask, FlushLight, TryBeginSavePreparation, TakeDirty, CopySection,
   FinishPreparation, AbandonPreparation, SaveSucceeds, SaveFails, holderVars, dataVars,
   storeVars, runVars

LEMMA StateNames == {"flush", "prepare", "began", "copying", "writing"} \subseteq TaskState
BY Zenon DEF TaskState

\* A save task moves on, or ends.
LEMMA GoToType ==
    ASSUME TaskTypeOK, NEW t \in SaveTasks, NEW next \in TaskState, GoTo(t, next)
    PROVE  TaskTypeOK'
BY Zenon DEF GoTo, TaskTypeOK

LEMMA EndTaskType ==
    ASSUME TaskTypeOK, NEW t \in SaveTasks, EndTask(t)
    PROVE  TaskTypeOK'
BY VersionType, Zenon DEF EndTask, TaskTypeOK, TaskState

\* The states of a holder, its light update and its producer.
LEMMA HolderTypeStep ==
    ASSUME HolderTypeOK, TaskTypeOK, [Next]_vars
    PROVE  HolderTypeOK'
<1>1. CASE UNCHANGED <<map, lifecycle, status, light, producer>>
  BY <1>1, Zenon DEF HolderTypeOK
<1>2. ASSUME NEW c \in Chunks, GameThread(c)
      PROVE  HolderTypeOK'
  <2>1. CASE CreateHolder(c)
    BY <2>1, Zenon DEF CreateHolder, HolderTypeOK, MapState, Lifecycle, LightState, ProducerState,
       holderVars
  <2>2. CASE BeginChunkUnload(c) \/ ReviveFromUnloading(c)
    BY <2>2, Zenon DEF BeginChunkUnload, ReviveFromUnloading, HolderTypeOK, MapState, Lifecycle,
       LightState, ProducerState, holderVars
  <2>3. CASE EnterUnloadingMap(c) \/ EnterActiveMap(c) \/ FinalizeUnload(c)
    BY <2>3, ZenonT(30) DEF EnterUnloadingMap, EnterActiveMap, FinalizeUnload, HolderTypeOK, MapState,
       Lifecycle, LightState, ProducerState, holderVars
  <2>4. CASE QueueLightChange(c)
    BY <2>4, Zenon DEF QueueLightChange, HolderTypeOK, MapState, Lifecycle, LightState, ProducerState,
       holderVars
  <2>5. CASE UNCHANGED <<map, lifecycle, status, light, producer>>
    BY <2>5, <1>1, Zenon
  <2> QED
    BY <1>2, <2>1, <2>2, <2>3, <2>4, <2>5, Zenon DEF GameThread, ModifyActive, SpawnSave, holderVars,
       dataVars, taskVars, storeVars, runVars
<1>3. ASSUME NEW c \in Chunks, LightWriter(c)
      PROVE  HolderTypeOK'
  <2>1. CASE LightSetup(c)
    BY <2>1, Zenon DEF LightSetup, HolderTypeOK, MapState, Lifecycle, LightState, ProducerState,
       holderVars
  <2>2. ASSUME NEW s \in Sections, LightWrite(c, s)
        PROVE  HolderTypeOK'
    BY <2>2, Zenon DEF LightWrite, HolderTypeOK, MapState, Lifecycle, LightState, ProducerState,
       holderVars
  <2>3. CASE LightUnchanged(c) \/ FinishInFlight(c)
    BY <2>3, Zenon DEF LightUnchanged, FinishInFlight, HolderTypeOK, MapState, Lifecycle, LightState,
       ProducerState, holderVars
  <2>4. CASE LightChangedActive(c) \/ LightChangedUnloading(c)
    BY <2>4, ZenonT(30) DEF LightChangedActive, LightChangedUnloading, HolderTypeOK, MapState,
       Lifecycle,
       LightState, ProducerState, holderVars
  <2> QED
    BY <1>3, <2>1, <2>2, <2>3, <2>4, Zenon DEF LightWriter
<1>4. ASSUME NEW c \in Chunks, Producer(c)
      PROVE  HolderTypeOK'
  <2>1. CASE StartStep(c) \/ AcquireGivesUp(c)
    BY <2>1, ZenonT(30) DEF StartStep, AcquireGivesUp, HolderTypeOK, MapState, Lifecycle, LightState,
       ProducerState, holderVars
  <2>2. CASE AcquireChunk(c) \/ GiveUpAcquired(c)
    BY <2>2, ZenonT(30) DEF AcquireChunk, GiveUpAcquired, HolderTypeOK, MapState, Lifecycle, LightState,
       ProducerState, holderVars
  <2>3. CASE PublishLoaded(c)
    BY <2>3, Zenon DEF PublishLoaded, HolderTypeOK, MapState, Lifecycle, LightState, ProducerState,
       holderVars
  <2>4. CASE PublishCreated(c) \/ FinishStep(c)
    BY <2>4, ZenonT(30) DEF PublishCreated, FinishStep, HolderTypeOK, MapState, Lifecycle, LightState,
       ProducerState, holderVars
  <2>5. CASE UNCHANGED <<map, lifecycle, status, light, producer>>
    BY <2>5, <1>1
  <2> QED
    BY <1>4, <2>1, <2>2, <2>3, <2>4, <2>5, Zenon DEF Producer, StepWrite, holderVars, dataVars,
       taskVars,
       storeVars, runVars
<1>5. ASSUME NEW t \in SaveTasks, SaveTask(t)
      PROVE  HolderTypeOK'
  <2>1. CASE TryBeginSavePreparation(t)
    BY <2>1, ZenonT(30) DEF TryBeginSavePreparation, TaskTypeOK, HolderTypeOK, MapState, Lifecycle,
       LightState,
       ProducerState, holderVars
  <2>2. CASE TakeDirty(t)
    BY <2>2, ZenonT(30) DEF TakeDirty, TaskTypeOK, EndSavePreparation, HolderTypeOK, MapState,
       Lifecycle,
       LightState, ProducerState, holderVars
  <2>3. CASE FinishPreparation(t)
    BY <2>3, Zenon DEF FinishPreparation, TaskTypeOK, EndSavePreparation, HolderTypeOK, MapState,
       Lifecycle, LightState, ProducerState, holderVars
  <2>4. CASE AbandonPreparation(t)
    BY <2>4, Zenon DEF AbandonPreparation, TaskTypeOK, EndSavePreparation, HolderTypeOK, MapState,
       Lifecycle, LightState, ProducerState, holderVars
  <2>5. CASE UNCHANGED <<map, lifecycle, status, light, producer>>
    BY <2>5, <1>1
  <2> QED
    BY <1>5, <2>1, <2>2, <2>3, <2>4, <2>5, Zenon DEF SaveTask, FlushLight, CopySection, SaveSucceeds,
       SaveFails, holderVars, dataVars, taskVars, storeVars, runVars
<1>6. ASSUME (\E c \in Chunks : ReleaseChunk(c)) \/ (\E c \in Chunks : SaveAllOne(c)) \/ Shutdown \/ StartSaveAll \/ CloseAll \/ UNCHANGED vars
      PROVE  UNCHANGED <<map, lifecycle, status, light, producer>>
  BY <1>6, Zenon DEF ReleaseChunk, SaveAllOne, Shutdown, StartSaveAll, CloseAll, vars, holderVars,
     dataVars, taskVars, storeVars, runVars
<1> QED
  BY <1>1, <1>2, <1>3, <1>4, <1>5, <1>6, Zenon DEF Next

\* The contents: a completed snapshot is a content.
LEMMA DataTypeStep ==
    ASSUME DataTypeOK, TaskTypeOK, SnapshotInv, [Next]_vars
    PROVE  DataTypeOK'
<1>1. CASE UNCHANGED <<mem, version, disk>>
  BY <1>1, Zenon DEF DataTypeOK
<1>2. ASSUME NEW c \in Chunks, GameThread(c)
      PROVE  DataTypeOK'
  <2>1. CASE ModifyActive(c)
    <3>1. mem' \in [Chunks -> Content] /\ version' \in [Chunks -> Version]
      BY <2>1, VersionType DEF ModifyActive, DataTypeOK, Content
    <3> QED
      BY <2>1, <3>1, Zenon DEF ModifyActive, DataTypeOK, storeVars
  <2>2. CASE UNCHANGED <<mem, version, disk>>
    BY <2>2, <1>1, Zenon
  <2> QED
    BY <1>2, <2>1, <2>2, Zenon DEF GameThread, CreateHolder, BeginChunkUnload, EnterUnloadingMap,
       ReviveFromUnloading, EnterActiveMap, QueueLightChange, SpawnSave, FinalizeUnload, holderVars,
       dataVars, taskVars, storeVars, runVars
<1>3. ASSUME NEW c \in Chunks, LightWriter(c)
      PROVE  DataTypeOK'
  <2>1. ASSUME NEW s \in Sections, LightWrite(c, s)
        PROVE  DataTypeOK'
    BY <2>1, VersionType, Zenon DEF LightWrite, WriteSection, Content, storeVars, DataTypeOK
  <2>2. CASE UNCHANGED <<mem, version, disk>>
    BY <2>2, <1>1
  <2> QED
    BY <1>3, <2>1, <2>2, Zenon DEF LightWriter, LightSetup, LightUnchanged, LightChangedActive,
       LightChangedUnloading, FinishInFlight, holderVars, dataVars, taskVars, storeVars, runVars
<1>4. ASSUME NEW c \in Chunks, Producer(c)
      PROVE  DataTypeOK'
  <2>1. CASE PublishLoaded(c)
    BY <2>1, Zenon DEF PublishLoaded, storeVars, DataTypeOK
  <2>2. ASSUME NEW s \in Sections, StepWrite(c, s)
        PROVE  DataTypeOK'
    BY <2>2, VersionType, Zenon DEF StepWrite, WriteSection, Content, storeVars, DataTypeOK
  <2>3. CASE UNCHANGED <<mem, version, disk>>
    BY <2>3, <1>1
  <2> QED
    BY <1>4, <2>1, <2>2, <2>3, Zenon DEF Producer, StartStep, AcquireGivesUp, AcquireChunk,
       GiveUpAcquired,
       PublishCreated, FinishStep, holderVars, dataVars, taskVars, storeVars, runVars
<1>5. ASSUME NEW t \in SaveTasks, SaveTask(t)
      PROVE  DataTypeOK'
  <2>1. CASE SaveSucceeds(t)
    <3>1. snap[t] \in Content
      BY <2>1, ZenonT(30) DEF SaveSucceeds, SnapshotInv, SnapshotOf, TaskTypeOK, Content
    <3> QED
      BY <2>1, <3>1, Zenon DEF SaveSucceeds, DataTypeOK, dataVars
  <2>2. CASE UNCHANGED <<mem, version, disk>>
    BY <2>2, <1>1
  <2> QED
    BY <1>5, <2>1, <2>2, Zenon DEF SaveTask, FlushLight, TryBeginSavePreparation, TakeDirty,
       CopySection,
       FinishPreparation, AbandonPreparation, SaveFails, holderVars, dataVars, taskVars, storeVars,
       runVars
<1>6. ASSUME NEW c \in Chunks, SaveAllOne(c)
      PROVE  DataTypeOK'
  BY <1>6, Zenon DEF SaveAllOne, DataTypeOK, DataTypeOK
<1>7. ASSUME (\E c \in Chunks : ReleaseChunk(c)) \/ Shutdown \/ StartSaveAll \/ CloseAll \/ UNCHANGED vars
      PROVE  UNCHANGED <<mem, version, disk>>
  BY <1>7, Zenon DEF ReleaseChunk, Shutdown, StartSaveAll, CloseAll, vars, holderVars, dataVars,
     taskVars,
     storeVars, runVars
<1> QED
  BY <1>1, <1>2, <1>3, <1>4, <1>5, <1>6, <1>7, Zenon DEF Next

\* The dirty flag, and the history of missed light changes.
LEMMA FlagTypeStep ==
    ASSUME FlagTypeOK, [Next]_vars
    PROVE  FlagTypeOK'
<1>1. CASE UNCHANGED <<dirty, missed>>
  BY <1>1, Zenon DEF FlagTypeOK
<1>2. ASSUME NEW c \in Chunks, GameThread(c)
      PROVE  FlagTypeOK'
  <2>1. CASE CreateHolder(c) \/ ModifyActive(c)
    BY <2>1, Zenon DEF CreateHolder, ModifyActive, FlagTypeOK
  <2>2. CASE UNCHANGED <<dirty, missed>>
    BY <2>2, <1>1, Zenon
  <2> QED
    BY <1>2, <2>1, <2>2, Zenon DEF GameThread, BeginChunkUnload, EnterUnloadingMap, ReviveFromUnloading,
       EnterActiveMap, QueueLightChange, SpawnSave, FinalizeUnload, holderVars, dataVars, taskVars,
       storeVars, runVars
<1>3. ASSUME NEW c \in Chunks, LightWriter(c)
      PROVE  FlagTypeOK'
  <2>1. CASE LightChangedActive(c)
    BY <2>1, Zenon DEF LightChangedActive, FlagTypeOK
  <2>2. CASE LightChangedUnloading(c)
    BY <2>2, Zenon DEF LightChangedUnloading, FlagTypeOK
  <2>3. CASE UNCHANGED <<dirty, missed>>
    BY <2>3, <1>1
  <2> QED
    BY <1>3, <2>1, <2>2, <2>3, Zenon DEF LightWriter, LightSetup, LightWrite, LightUnchanged,
       FinishInFlight, holderVars, dataVars, taskVars, storeVars, runVars
<1>4. ASSUME NEW c \in Chunks, Producer(c)
      PROVE  FlagTypeOK'
  <2>1. CASE PublishLoaded(c) \/ PublishCreated(c) \/ FinishStep(c)
    BY <2>1, Zenon DEF PublishLoaded, PublishCreated, FinishStep, FlagTypeOK
  <2>2. CASE UNCHANGED <<dirty, missed>>
    BY <2>2, <1>1
  <2> QED
    BY <1>4, <2>1, <2>2, Zenon DEF Producer, StartStep, AcquireGivesUp, AcquireChunk, GiveUpAcquired,
       StepWrite, holderVars, dataVars, taskVars, storeVars, runVars
<1>5. ASSUME NEW t \in SaveTasks, SaveTask(t)
      PROVE  FlagTypeOK'
  <2>1. CASE TakeDirty(t)
    BY <2>1, Zenon DEF TakeDirty, FlagTypeOK
  <2>2. CASE FinishPreparation(t) \/ AbandonPreparation(t) \/ SaveFails(t)
    BY <2>2, Zenon DEF FinishPreparation, AbandonPreparation, SaveFails, FlagTypeOK
  <2>3. CASE UNCHANGED <<dirty, missed>>
    BY <2>3, <1>1
  <2> QED
    BY <1>5, <2>1, <2>2, <2>3, Zenon DEF SaveTask, FlushLight, TryBeginSavePreparation, CopySection,
       SaveSucceeds, holderVars, dataVars, taskVars, storeVars, runVars
<1>6. ASSUME NEW c \in Chunks, SaveAllOne(c)
      PROVE  FlagTypeOK'
  BY <1>6, Zenon DEF SaveAllOne, FlagTypeOK
<1>7. ASSUME (\E c \in Chunks : ReleaseChunk(c)) \/ Shutdown \/ StartSaveAll \/ CloseAll \/ UNCHANGED vars
      PROVE  UNCHANGED <<dirty, missed>>
  BY <1>7, Zenon DEF ReleaseChunk, Shutdown, StartSaveAll, CloseAll, vars, holderVars, dataVars,
     taskVars,
     storeVars, runVars
<1> QED
  BY <1>1, <1>2, <1>3, <1>4, <1>5, <1>6, <1>7, Zenon DEF Next

\* The save tasks.
LEMMA TaskTypeStep ==
    ASSUME TaskTypeOK, DataTypeOK, [Next]_vars
    PROVE  TaskTypeOK'
<1>1. CASE UNCHANGED taskVars
  BY <1>1, Zenon DEF TaskTypeOK, taskVars
<1>2. ASSUME NEW c \in Chunks, GameThread(c)
      PROVE  TaskTypeOK'
  <2>1. CASE ModifyActive(c)
    BY <2>1, Zenon DEF ModifyActive, TaskTypeOK, TaskState
  <2>2. ASSUME NEW t \in SaveTasks, SpawnSave(c, t)
        PROVE  TaskTypeOK'
    BY <2>2, Zenon DEF SpawnSave, TaskTypeOK, TaskState
  <2>3. CASE UNCHANGED taskVars
    BY <2>3, <1>1, Zenon
  <2> QED
    BY <1>2, <2>1, <2>2, <2>3, Zenon DEF GameThread, CreateHolder, BeginChunkUnload, EnterUnloadingMap,
       ReviveFromUnloading, EnterActiveMap, QueueLightChange, FinalizeUnload, holderVars, dataVars,
       taskVars, storeVars, runVars
<1>3. ASSUME NEW c \in Chunks, LightWriter(c)
      PROVE  UNCHANGED taskVars
  BY <1>3, LightWriterFrame, Zenon DEF taskVars
<1>4. ASSUME NEW c \in Chunks, Producer(c)
      PROVE  UNCHANGED taskVars
  BY <1>4, ProducerFrame, Zenon DEF taskVars
<1>5. ASSUME NEW t \in SaveTasks, SaveTask(t)
      PROVE  TaskTypeOK'
  <2>1. CASE FlushLight(t)
    BY <2>1, GoToType, StateNames, Zenon DEF FlushLight
  <2>2. CASE TryBeginSavePreparation(t)
    BY <2>2, GoToType, StateNames, EndTaskType, Zenon DEF TryBeginSavePreparation
  <2>3. CASE TakeDirty(t)
    BY <2>3, GoToType, StateNames, EndTaskType, Zenon DEF TakeDirty
  <2>4. ASSUME NEW s \in Sections, CopySection(t, s)
        PROVE  TaskTypeOK'
    BY <2>4 DEF CopySection, DataTypeOK, Content, TaskTypeOK, TaskState
  <2>5. CASE FinishPreparation(t)
    BY <2>5, GoToType, StateNames, EndTaskType, Zenon DEF FinishPreparation
  <2>6. CASE AbandonPreparation(t) \/ SaveSucceeds(t) \/ SaveFails(t)
    BY <2>6, EndTaskType, Zenon DEF AbandonPreparation, SaveSucceeds, SaveFails
  <2> QED
    BY <1>5, <2>1, <2>2, <2>3, <2>4, <2>5, <2>6, Zenon DEF SaveTask
<1>6. ASSUME (\E c \in Chunks : ReleaseChunk(c)) \/ (\E c \in Chunks : SaveAllOne(c)) \/ Shutdown \/ StartSaveAll \/ CloseAll \/ UNCHANGED vars
      PROVE  UNCHANGED taskVars
  BY <1>6, Zenon DEF ReleaseChunk, SaveAllOne, Shutdown, StartSaveAll, CloseAll, vars, holderVars,
     dataVars, taskVars, storeVars, runVars
<1> QED
  BY <1>1, <1>2, <1>3, <1>4, <1>5, <1>6, Zenon DEF Next

\* Handles and shutdown: a producer releases only a handle it has.
LEMMA RunTypeStep ==
    ASSUME RunTypeOK, HandlesBalanced, QuietInv, [Next]_vars
    PROVE  RunTypeOK'
<1>1. CASE UNCHANGED <<handles, releases, phase, tosave>>
  BY <1>1, Zenon DEF RunTypeOK
<1>2. ASSUME NEW c \in Chunks, GameThread(c)
      PROVE  RunTypeOK'
  <2>1. CASE FinalizeUnload(c)
    BY <2>1 DEF FinalizeUnload, RunTypeOK, runVars
  <2>2. CASE UNCHANGED <<handles, releases, phase, tosave>>
    BY <2>2, <1>1, Zenon
  <2> QED
    BY <1>2, <2>1, <2>2, Zenon DEF GameThread, CreateHolder, BeginChunkUnload, EnterUnloadingMap,
       ReviveFromUnloading, EnterActiveMap, ModifyActive, QueueLightChange, SpawnSave, holderVars,
       dataVars, taskVars, storeVars, runVars
<1>3. ASSUME NEW c \in Chunks, LightWriter(c)
      PROVE  UNCHANGED <<handles, releases, phase, tosave>>
  BY <1>3, LightWriterFrame, Zenon
<1>4. ASSUME NEW c \in Chunks, Producer(c)
      PROVE  RunTypeOK'
  <2>1. CASE AcquireChunk(c)
    BY <2>1 DEF AcquireChunk, RunTypeOK, runVars
  <2>2. CASE GiveUpAcquired(c)
    <3>1. phase # "closed" /\ handles[c] > 0
      BY <2>2 DEF GiveUpAcquired, RunTypeOK, HandlesBalanced, QuietInv, TasksDrained
    <3> QED
      BY <2>2, <3>1 DEF GiveUpAcquired, RunTypeOK, runVars
  <2>3. CASE UNCHANGED <<handles, releases, phase, tosave>>
    BY <2>3, <1>1
  <2> QED
    BY <1>4, <2>1, <2>2, <2>3, Zenon DEF Producer, StartStep, AcquireGivesUp, PublishLoaded,
       PublishCreated, StepWrite, FinishStep, holderVars, dataVars, taskVars, storeVars, runVars
<1>5. ASSUME NEW t \in SaveTasks, SaveTask(t)
      PROVE  UNCHANGED <<handles, releases, phase, tosave>>
  BY <1>5, SaveTaskFrame, Zenon
<1>6. ASSUME NEW c \in Chunks, ReleaseChunk(c)
      PROVE  RunTypeOK'
  BY <1>6 DEF ReleaseChunk, RunTypeOK, runVars
<1>7. ASSUME NEW c \in Chunks, SaveAllOne(c)
      PROVE  RunTypeOK'
  BY <1>7, Zenon DEF SaveAllOne, RunTypeOK, runVars
<1>8. CASE Shutdown
  BY <1>8, Zenon DEF Shutdown, storeVars, RunTypeOK, runVars
<1>9. CASE StartSaveAll
  BY <1>9, Zenon DEF StartSaveAll, storeVars, RunTypeOK, runVars
<1>10. CASE CloseAll
  BY <1>10, Zenon DEF CloseAll, RunTypeOK, runVars
<1>11. ASSUME UNCHANGED vars
      PROVE  UNCHANGED <<handles, releases, phase, tosave>>
  BY <1>11, Zenon DEF vars, holderVars, dataVars, taskVars, storeVars, runVars
<1> QED
  BY <1>1, <1>2, <1>3, <1>4, <1>5, <1>6, <1>7, <1>8, <1>9, <1>10, <1>11, Zenon DEF Next

-----------------------------------------------------------------------------
(* The safety properties and the strengthenings.                           *)


\* process_unloads spawns a save only when no other task refers to the holder.
LEMMA OneSaveStep ==
    ASSUME TaskTypeOK, OneSavePerHolder, [Next]_vars
    PROVE  OneSavePerHolder'
<1>1. CASE UNCHANGED <<pc, target>>
  BY <1>1, Zenon DEF OneSavePerHolder
<1>2. ASSUME NEW c \in Chunks, GameThread(c)
      PROVE  OneSavePerHolder'
  <2>1. ASSUME NEW t \in SaveTasks, SpawnSave(c, t)
        PROVE  OneSavePerHolder'
    BY <2>1, Zenon DEF SpawnSave, MayLeaveUnloading, StrongCountIsOne, TasksOf, OneSavePerHolder,
       TaskTypeOK
  <2>2. CASE UNCHANGED <<pc, target>>
    BY <2>2, <1>1, Zenon
  <2> QED
    BY <1>2, <2>1, <2>2, Zenon DEF GameThread, CreateHolder, BeginChunkUnload, EnterUnloadingMap,
       ReviveFromUnloading, EnterActiveMap, ModifyActive, QueueLightChange, FinalizeUnload,
       holderVars, dataVars, taskVars, storeVars, runVars
<1>3. ASSUME NEW c \in Chunks, LightWriter(c)
      PROVE  UNCHANGED <<pc, target>>
  BY <1>3, LightWriterFrame, Zenon
<1>4. ASSUME NEW c \in Chunks, Producer(c)
      PROVE  UNCHANGED <<pc, target>>
  BY <1>4, ProducerFrame, Zenon
<1>5. ASSUME NEW t \in SaveTasks, SaveTask(t)
      PROVE  OneSavePerHolder'
  <2>1. CASE FlushLight(t)
    BY <2>1, Zenon DEF FlushLight, GoTo, OneSavePerHolder, TaskTypeOK
  <2>2. CASE TryBeginSavePreparation(t)
    BY <2>2, ZenonT(30) DEF TryBeginSavePreparation, GoTo, EndTask, OneSavePerHolder, TaskTypeOK
  <2>3. CASE TakeDirty(t)
    BY <2>3, Zenon DEF TakeDirty, GoTo, EndTask, OneSavePerHolder, TaskTypeOK
  <2>4. CASE FinishPreparation(t)
    BY <2>4, ZenonT(30) DEF FinishPreparation, GoTo, EndTask, OneSavePerHolder, TaskTypeOK
  <2>5. CASE AbandonPreparation(t)
    BY <2>5, Zenon DEF AbandonPreparation, EndTask, OneSavePerHolder, TaskTypeOK
  <2>6. CASE SaveSucceeds(t) \/ SaveFails(t)
    BY <2>6, Zenon DEF SaveSucceeds, SaveFails, EndTask, OneSavePerHolder, TaskTypeOK
  <2>7. CASE UNCHANGED <<pc, target>>
    BY <2>7, <1>1
  <2> QED
    BY <1>5, <2>1, <2>2, <2>3, <2>4, <2>5, <2>6, <2>7, Zenon DEF SaveTask, CopySection, holderVars,
       dataVars, taskVars, storeVars, runVars
<1>6. ASSUME (\E c \in Chunks : ReleaseChunk(c)) \/ (\E c \in Chunks : SaveAllOne(c)) \/ Shutdown \/ StartSaveAll \/ CloseAll \/ UNCHANGED vars
      PROVE  UNCHANGED <<pc, target>>
  BY <1>6, Zenon DEF ReleaseChunk, SaveAllOne, Shutdown, StartSaveAll, CloseAll, vars, holderVars,
     dataVars, taskVars, storeVars, runVars
<1> QED
  BY <1>1, <1>2, <1>3, <1>4, <1>5, <1>6, Zenon DEF Next

\* A holder is dropped only when nobody refers to it, so every reference has
\* a holder behind it, in a status that fits.
LEMMA ReferencesStep ==
    ASSUME HolderTypeOK, TaskTypeOK, ReferencesInv, [Next]_vars
    PROVE  ReferencesInv'
<1>1. CASE UNCHANGED <<map, status, light, producer, pc, target>>
  BY <1>1, Zenon DEF ReferencesInv, HasHolder
<1>2. ASSUME NEW c \in Chunks, GameThread(c)
      PROVE  ReferencesInv'
  <2>1. CASE CreateHolder(c)
    BY <2>1, Zenon DEF CreateHolder, taskVars, ReferencesInv, HolderTypeOK, TaskTypeOK, HasHolder
  <2>2. CASE BeginChunkUnload(c) \/ EnterUnloadingMap(c)
    BY <2>2 DEF BeginChunkUnload, EnterUnloadingMap, taskVars, ReferencesInv, HolderTypeOK,
       TaskTypeOK, HasHolder
  <2>3. CASE ReviveFromUnloading(c) \/ EnterActiveMap(c)
    BY <2>3 DEF ReviveFromUnloading, EnterActiveMap, taskVars, ReferencesInv, HolderTypeOK,
       TaskTypeOK, HasHolder
  <2>4. CASE QueueLightChange(c)
    BY <2>4, Zenon DEF QueueLightChange, holderVars, taskVars, ReferencesInv, HolderTypeOK, TaskTypeOK,
       HasHolder
  <2>5. ASSUME NEW t \in SaveTasks, SpawnSave(c, t)
        PROVE  ReferencesInv'
    BY <2>5, Zenon DEF SpawnSave, MayLeaveUnloading, IsDirty, holderVars, ReferencesInv, HolderTypeOK,
       TaskTypeOK, HasHolder
  <2>6. CASE FinalizeUnload(c)
    BY <2>6, Zenon DEF FinalizeUnload, MayLeaveUnloading, StrongCountIsOne, TasksOf, TouchesChunk,
       taskVars, ReferencesInv, HolderTypeOK, TaskTypeOK, HasHolder
  <2>7. CASE UNCHANGED <<map, status, light, producer, pc, target>>
    BY <2>7, <1>1, Zenon
  <2> QED
    BY <1>2, <2>1, <2>2, <2>3, <2>4, <2>5, <2>6, <2>7, Zenon DEF GameThread, ModifyActive, holderVars,
       dataVars, taskVars, storeVars, runVars
<1>3. ASSUME NEW c \in Chunks, LightWriter(c)
      PROVE  ReferencesInv'
  <2>1. CASE LightSetup(c) \/ LightUnchanged(c) \/ FinishInFlight(c)
    BY <2>1 DEF LightSetup, LightUnchanged, FinishInFlight, holderVars, taskVars, ReferencesInv,
       HolderTypeOK, TaskTypeOK, HasHolder
  <2>2. ASSUME NEW s \in Sections, LightWrite(c, s)
        PROVE  ReferencesInv'
    BY <2>2, Zenon DEF LightWrite, holderVars, taskVars, ReferencesInv, HolderTypeOK, TaskTypeOK,
       HasHolder
  <2>3. CASE LightChangedActive(c) \/ LightChangedUnloading(c)
    BY <2>3 DEF LightChangedActive, LightChangedUnloading, holderVars, taskVars, ReferencesInv,
       HolderTypeOK, TaskTypeOK, HasHolder
  <2> QED
    BY <1>3, <2>1, <2>2, <2>3, Zenon DEF LightWriter
<1>4. ASSUME NEW c \in Chunks, Producer(c)
      PROVE  ReferencesInv'
  <2>1. CASE StartStep(c) \/ AcquireGivesUp(c)
    BY <2>1 DEF StartStep, AcquireGivesUp, holderVars, taskVars, ReferencesInv, HolderTypeOK,
       TaskTypeOK, HasHolder
  <2>2. CASE AcquireChunk(c) \/ GiveUpAcquired(c)
    BY <2>2 DEF AcquireChunk, GiveUpAcquired, holderVars, taskVars, ReferencesInv, HolderTypeOK,
       TaskTypeOK, HasHolder
  <2>3. CASE PublishLoaded(c)
    BY <2>3, Zenon DEF PublishLoaded, taskVars, ReferencesInv, HolderTypeOK, TaskTypeOK, HasHolder
  <2>4. CASE PublishCreated(c)
    BY <2>4, Zenon DEF PublishCreated, taskVars, ReferencesInv, HolderTypeOK, TaskTypeOK, HasHolder
  <2>5. CASE FinishStep(c)
    BY <2>5, Zenon DEF FinishStep, taskVars, ReferencesInv, HolderTypeOK, TaskTypeOK, HasHolder
  <2>6. CASE UNCHANGED <<map, status, light, producer, pc, target>>
    BY <2>6, <1>1
  <2> QED
    BY <1>4, <2>1, <2>2, <2>3, <2>4, <2>5, <2>6, Zenon DEF Producer, StepWrite, holderVars, dataVars,
       taskVars, storeVars, runVars
<1>5. ASSUME NEW t \in SaveTasks, SaveTask(t)
      PROVE  ReferencesInv'
  <2>1. CASE FlushLight(t)
    BY <2>1, Zenon DEF FlushLight, GoTo, holderVars, ReferencesInv, HolderTypeOK, TaskTypeOK, HasHolder
  <2>2. CASE TryBeginSavePreparation(t)
    BY <2>2 DEF TryBeginSavePreparation, GoTo, EndTask, ReferencesInv, HolderTypeOK, TaskTypeOK,
       HasHolder
  <2>3. CASE TakeDirty(t)
    BY <2>3, ZenonT(30) DEF TakeDirty, GoTo, EndTask, ReferencesInv, HolderTypeOK, TaskTypeOK, HasHolder
  <2>4. CASE FinishPreparation(t)
    BY <2>4 DEF FinishPreparation, GoTo, EndTask, ReferencesInv, HolderTypeOK, TaskTypeOK, HasHolder
  <2>5. CASE AbandonPreparation(t)
    BY <2>5, Zenon DEF AbandonPreparation, EndTask, ReferencesInv, HolderTypeOK, TaskTypeOK, HasHolder
  <2>6. CASE SaveSucceeds(t) \/ SaveFails(t)
    BY <2>6, ZenonT(30) DEF SaveSucceeds, SaveFails, EndTask, holderVars, ReferencesInv, HolderTypeOK,
       TaskTypeOK, HasHolder
  <2>7. CASE UNCHANGED <<map, status, light, producer, pc, target>>
    BY <2>7, <1>1
  <2> QED
    BY <1>5, <2>1, <2>2, <2>3, <2>4, <2>5, <2>6, <2>7, Zenon DEF SaveTask, CopySection, holderVars,
       dataVars, taskVars, storeVars, runVars
<1>6. ASSUME (\E c \in Chunks : ReleaseChunk(c)) \/ (\E c \in Chunks : SaveAllOne(c)) \/ Shutdown \/ StartSaveAll \/ CloseAll \/ UNCHANGED vars
      PROVE  UNCHANGED <<map, status, light, producer, pc, target>>
  BY <1>6, Zenon DEF ReleaseChunk, SaveAllOne, Shutdown, StartSaveAll, CloseAll, vars, holderVars,
     dataVars, taskVars, storeVars, runVars
<1> QED
  BY <1>1, <1>2, <1>3, <1>4, <1>5, <1>6, Zenon DEF Next

\* save_all_chunks runs alone: nothing that starts work is enabled then.
LEMMA QuietStep ==
    ASSUME QuietInv, [Next]_vars
    PROVE  QuietInv'
<1>1. CASE UNCHANGED <<phase, pc, light, producer, releases>>
  BY <1>1, Zenon DEF QuietInv, TasksDrained, LightFlushed, TouchesChunk
<1>2. ASSUME NEW c \in Chunks, GameThread(c)
      PROVE  QuietInv'
  <2>1. CASE QueueLightChange(c) \/ FinalizeUnload(c)
    <3>1. phase' = "running"
      BY <2>1, ZenonT(30) DEF QueueLightChange, FinalizeUnload, MayLeaveUnloading, GameThreadFree,
         runVars
    <3> QED
      BY <3>1, Zenon DEF QuietInv
  <2>2. ASSUME NEW t \in SaveTasks, SpawnSave(c, t)
        PROVE  QuietInv'
    <3>1. phase' = "running"
      BY <2>2, Zenon DEF SpawnSave, MayLeaveUnloading, GameThreadFree, runVars
    <3> QED
      BY <3>1, Zenon DEF QuietInv
  <2>3. CASE UNCHANGED <<phase, pc, light, producer, releases>>
    BY <2>3, <1>1, Zenon
  <2> QED
    BY <1>2, <2>1, <2>2, <2>3, Zenon DEF GameThread, CreateHolder, BeginChunkUnload, EnterUnloadingMap,
       ReviveFromUnloading, EnterActiveMap, ModifyActive, holderVars, dataVars, taskVars, storeVars,
       runVars
<1>3. ASSUME NEW c \in Chunks, LightWriter(c)
      PROVE  QuietInv'
  <2>1. CASE LightSetup(c) \/ LightUnchanged(c) \/ FinishInFlight(c)
    BY <2>1, Zenon DEF LightSetup, LightUnchanged, FinishInFlight, runVars, QuietInv, TasksDrained,
       LightFlushed, TouchesChunk
  <2>2. ASSUME NEW s \in Sections, LightWrite(c, s)
        PROVE  QuietInv'
    BY <2>2, Zenon DEF LightWrite, runVars, QuietInv, TasksDrained, LightFlushed, TouchesChunk
  <2>3. CASE LightChangedActive(c) \/ LightChangedUnloading(c)
    BY <2>3, Zenon DEF LightChangedActive, LightChangedUnloading, runVars, QuietInv, TasksDrained,
       LightFlushed, TouchesChunk
  <2> QED
    BY <1>3, <2>1, <2>2, <2>3, Zenon DEF LightWriter
<1>4. ASSUME NEW c \in Chunks, Producer(c)
      PROVE  QuietInv'
  <2>1. CASE StartStep(c) \/ AcquireGivesUp(c) \/ AcquireChunk(c) \/ GiveUpAcquired(c)
    BY <2>1, Zenon DEF StartStep, AcquireGivesUp, AcquireChunk, GiveUpAcquired, runVars, QuietInv,
       TasksDrained, LightFlushed, TouchesChunk
  <2>2. CASE PublishLoaded(c) \/ PublishCreated(c) \/ FinishStep(c)
    BY <2>2, Zenon DEF PublishLoaded, PublishCreated, FinishStep, runVars, QuietInv, TasksDrained,
       LightFlushed, TouchesChunk
  <2>3. CASE UNCHANGED <<phase, pc, light, producer, releases>>
    BY <2>3, <1>1
  <2> QED
    BY <1>4, <2>1, <2>2, <2>3, Zenon DEF Producer, StepWrite, holderVars, dataVars, taskVars, storeVars,
       runVars
<1>5. ASSUME NEW t \in SaveTasks, SaveTask(t)
      PROVE  QuietInv'
  <2>1. CASE FlushLight(t) \/ TryBeginSavePreparation(t) \/ TakeDirty(t)
    BY <2>1, ZenonT(30) DEF FlushLight, TryBeginSavePreparation, TakeDirty, runVars, QuietInv,
       TasksDrained,
       LightFlushed, TouchesChunk
  <2>2. CASE FinishPreparation(t) \/ AbandonPreparation(t) \/ SaveSucceeds(t) \/ SaveFails(t)
    BY <2>2, Zenon DEF FinishPreparation, AbandonPreparation, SaveSucceeds, SaveFails, runVars,
       QuietInv,
       TasksDrained, LightFlushed, TouchesChunk
  <2>3. CASE UNCHANGED <<phase, pc, light, producer, releases>>
    BY <2>3, <1>1, SMTT(30)
  <2> QED
    BY <1>5, <2>1, <2>2, <2>3, Zenon DEF SaveTask, CopySection, holderVars, dataVars, taskVars,
       storeVars,
       runVars
<1>6. ASSUME NEW c \in Chunks, ReleaseChunk(c)
      PROVE  QuietInv'
  BY <1>6 DEF ReleaseChunk, runVars, QuietInv, TasksDrained, LightFlushed, TouchesChunk
<1>7. CASE Shutdown
  BY <1>7, Zenon DEF Shutdown, GameThreadFree, QuietInv, TasksDrained, LightFlushed, TouchesChunk
<1>8. CASE StartSaveAll
  BY <1>8, Zenon DEF StartSaveAll, storeVars, taskVars, QuietInv, TasksDrained, LightFlushed,
     TouchesChunk
<1>9. CASE CloseAll
  BY <1>9, Zenon DEF CloseAll, taskVars, QuietInv, TasksDrained, LightFlushed, TouchesChunk
<1>10. ASSUME (\E c \in Chunks : SaveAllOne(c)) \/ UNCHANGED vars
      PROVE  UNCHANGED <<phase, pc, light, producer, releases>>
  BY <1>10, Zenon DEF SaveAllOne, vars, holderVars, dataVars, taskVars, storeVars, runVars
<1> QED
  BY <1>1, <1>2, <1>3, <1>4, <1>5, <1>6, <1>7, <1>8, <1>9, <1>10, Zenon DEF Next

\* Every acquired handle is accounted for.
LEMMA HandlesStep ==
    ASSUME HolderTypeOK, RunTypeOK, HandlesBalanced, ReferencesInv, QuietInv, [Next]_vars
    PROVE  HandlesBalanced'
<1>1. CASE UNCHANGED <<map, status, producer, handles, releases, phase>>
  BY <1>1, Zenon DEF HandlesBalanced
<1>2. ASSUME NEW c \in Chunks, GameThread(c)
      PROVE  HandlesBalanced'
  <2>1. CASE CreateHolder(c)
    BY <2>1, Zenon DEF CreateHolder, storeVars, runVars, HandlesBalanced, HolderTypeOK, RunTypeOK
  <2>2. CASE BeginChunkUnload(c) \/ EnterUnloadingMap(c)
    BY <2>2, Zenon DEF BeginChunkUnload, EnterUnloadingMap, storeVars, runVars, HandlesBalanced,
       HolderTypeOK, RunTypeOK
  <2>3. CASE ReviveFromUnloading(c) \/ EnterActiveMap(c)
    BY <2>3, Zenon DEF ReviveFromUnloading, EnterActiveMap, storeVars, runVars, HandlesBalanced,
       HolderTypeOK, RunTypeOK
  <2>4. CASE FinalizeUnload(c)
    BY <2>4 DEF FinalizeUnload, MayLeaveUnloading, StrongCountIsOne, runVars, HandlesBalanced,
       HolderTypeOK, RunTypeOK
  <2>5. CASE UNCHANGED <<map, status, producer, handles, releases, phase>>
    BY <2>5, <1>1, Zenon
  <2> QED
    BY <1>2, <2>1, <2>2, <2>3, <2>4, <2>5, Zenon DEF GameThread, ModifyActive, QueueLightChange,
       SpawnSave,
       holderVars, dataVars, taskVars, storeVars, runVars
<1>3. ASSUME NEW c \in Chunks, LightWriter(c)
      PROVE  UNCHANGED <<map, status, producer, handles, releases, phase>>
  BY <1>3, LightWriterFrame, Zenon
<1>4. ASSUME NEW c \in Chunks, Producer(c)
      PROVE  HandlesBalanced'
  <2>1. CASE StartStep(c) \/ AcquireGivesUp(c)
    BY <2>1, Zenon DEF StartStep, AcquireGivesUp, holderVars, storeVars, runVars, HandlesBalanced,
       HolderTypeOK, RunTypeOK
  <2>2. CASE AcquireChunk(c)
    BY <2>2 DEF AcquireChunk, holderVars, runVars, HandlesBalanced, HolderTypeOK, RunTypeOK
  <2>3. CASE GiveUpAcquired(c)
    BY <2>3 DEF GiveUpAcquired, holderVars, runVars, HandlesBalanced, HolderTypeOK, RunTypeOK
  <2>4. CASE PublishLoaded(c)
    <3>1. map[c] # "absent" /\ status[c] = "none"
      BY <2>4, ZenonT(30) DEF PublishLoaded, ReferencesInv, HasHolder
    <3> QED
      BY <2>4, <3>1, SMTT(30) DEF PublishLoaded, HandlesBalanced, HolderTypeOK, RunTypeOK,
         storeVars, runVars
  <2>5. CASE PublishCreated(c)
    <3>1. map[c] # "absent" /\ status[c] = "none"
      BY <2>5, Zenon DEF PublishCreated, ReferencesInv, HasHolder
    <3> QED
      BY <2>5, <3>1 DEF PublishCreated, HandlesBalanced, HolderTypeOK, RunTypeOK, storeVars, runVars
  <2>6. CASE FinishStep(c)
    <3>1. map[c] # "absent" /\ status[c] # "none"
      BY <2>6, Zenon DEF FinishStep, ReferencesInv, HasHolder
    <3> QED
      BY <2>6, <3>1, Zenon DEF FinishStep, HandlesBalanced, HolderTypeOK, RunTypeOK, storeVars, runVars
  <2>7. CASE UNCHANGED <<map, status, producer, handles, releases, phase>>
    BY <2>7, <1>1
  <2> QED
    BY <1>4, <2>1, <2>2, <2>3, <2>4, <2>5, <2>6, <2>7, Zenon DEF Producer, StepWrite, holderVars,
       dataVars,
       taskVars, storeVars, runVars
<1>5. ASSUME NEW t \in SaveTasks, SaveTask(t)
      PROVE  UNCHANGED <<map, status, producer, handles, releases, phase>>
  BY <1>5, SaveTaskFrame, Zenon
<1>6. ASSUME NEW c \in Chunks, ReleaseChunk(c)
      PROVE  HandlesBalanced'
  BY <1>6 DEF ReleaseChunk, QuietInv, TasksDrained, holderVars, runVars, HandlesBalanced,
     HolderTypeOK, RunTypeOK
<1>7. CASE Shutdown
  BY <1>7, Zenon DEF Shutdown, GameThreadFree, holderVars, storeVars, HandlesBalanced, HolderTypeOK,
     RunTypeOK
<1>8. CASE StartSaveAll
  BY <1>8, Zenon DEF StartSaveAll, holderVars, storeVars, HandlesBalanced, HolderTypeOK, RunTypeOK
<1>9. CASE CloseAll
  BY <1>9, Zenon DEF CloseAll, HandlesBalanced, HolderTypeOK, RunTypeOK
<1>10. ASSUME (\E c \in Chunks : SaveAllOne(c)) \/ UNCHANGED vars
      PROVE  UNCHANGED <<map, status, producer, handles, releases, phase>>
  BY <1>10, ZenonT(30) DEF SaveAllOne, vars, holderVars, dataVars, taskVars, storeVars, runVars
<1> QED
  BY <1>1, <1>2, <1>3, <1>4, <1>5, <1>6, <1>7, <1>8, <1>9, <1>10, Zenon DEF Next

\* Revival takes PREPARING away, and only the one task of the holder could
\* bring it back, so a torn snapshot never finds it again.
LEMMA LifecycleStep ==
    ASSUME HolderTypeOK, TaskTypeOK, LifecycleInv, OneSavePerHolder, ReferencesInv, [Next]_vars
    PROVE  LifecycleInv'
<1>1. CASE UNCHANGED <<map, lifecycle, pc, target, torn>>
  BY <1>1, Zenon DEF LifecycleInv
<1>2. ASSUME NEW c \in Chunks, GameThread(c)
      PROVE  LifecycleInv'
  <2>1. CASE CreateHolder(c)
    BY <2>1, ZenonT(30) DEF CreateHolder, ReferencesInv, HasHolder, taskVars, LifecycleInv,
       HolderTypeOK,
       TaskTypeOK
  <2>2. CASE BeginChunkUnload(c) \/ EnterUnloadingMap(c)
    BY <2>2, SMTT(30) DEF BeginChunkUnload, EnterUnloadingMap, taskVars, LifecycleInv, HolderTypeOK,
       TaskTypeOK
  <2>3. CASE ReviveFromUnloading(c) \/ EnterActiveMap(c)
    BY <2>3, SMTT(30) DEF ReviveFromUnloading, EnterActiveMap, taskVars, LifecycleInv, HolderTypeOK,
       TaskTypeOK
  <2>4. CASE ModifyActive(c)
    BY <2>4, Zenon DEF ModifyActive, TasksOf, holderVars, LifecycleInv, HolderTypeOK, TaskTypeOK
  <2>5. ASSUME NEW t \in SaveTasks, SpawnSave(c, t)
        PROVE  LifecycleInv'
    BY <2>5, Zenon DEF SpawnSave, holderVars, LifecycleInv, HolderTypeOK, TaskTypeOK
  <2>6. CASE FinalizeUnload(c)
    BY <2>6, Zenon DEF FinalizeUnload, taskVars, LifecycleInv, HolderTypeOK, TaskTypeOK
  <2>7. CASE UNCHANGED <<map, lifecycle, pc, target, torn>>
    BY <2>7, <1>1, Zenon
  <2> QED
    BY <1>2, <2>1, <2>2, <2>3, <2>4, <2>5, <2>6, <2>7, ZenonT(30) DEF GameThread, QueueLightChange,
       holderVars,
       dataVars, taskVars, storeVars, runVars
<1>3. ASSUME NEW c \in Chunks, LightWriter(c)
      PROVE  UNCHANGED <<map, lifecycle, pc, target, torn>>
  BY <1>3, LightWriterFrame, Zenon
<1>4. ASSUME NEW c \in Chunks, Producer(c)
      PROVE  UNCHANGED <<map, lifecycle, pc, target, torn>>
  BY <1>4, ProducerFrame, Zenon
<1>5. ASSUME NEW t \in SaveTasks, SaveTask(t)
      PROVE  LifecycleInv'
  <2>1. CASE FlushLight(t)
    BY <2>1, Zenon DEF FlushLight, GoTo, holderVars, LifecycleInv, HolderTypeOK, TaskTypeOK
  <2>2. CASE TryBeginSavePreparation(t)
    <3>1. CASE lifecycle[target[t]] = "UNLOADING"
      <4>1. \A u \in SaveTasks : torn[u] => target[u] # target[t]
        BY <2>2, ZenonT(30) DEF TryBeginSavePreparation, LifecycleInv, OneSavePerHolder
      <4> QED
        BY <2>2, <3>1, <4>1, SMTT(30) DEF TryBeginSavePreparation, GoTo, LifecycleInv,
           HolderTypeOK, TaskTypeOK
    <3>2. CASE lifecycle[target[t]] # "UNLOADING"
      BY <2>2, <3>2, Zenon DEF TryBeginSavePreparation, EndTask, LifecycleInv, TaskTypeOK
    <3> QED
      BY <3>1, <3>2, Zenon
  <2>3. CASE TakeDirty(t)
    BY <2>3, SMTT(30) DEF TakeDirty, GoTo, EndTask, EndSavePreparation, LifecycleInv, HolderTypeOK,
       TaskTypeOK
  <2>4. CASE FinishPreparation(t)
    <3>1. CASE lifecycle[target[t]] = "PREPARING"
      BY <2>4, <3>1, SMTT(30) DEF FinishPreparation, GoTo, EndSavePreparation, LifecycleInv,
         HolderTypeOK, TaskTypeOK
    <3>2. CASE lifecycle[target[t]] # "PREPARING"
      BY <2>4, <3>2, ZenonT(30) DEF FinishPreparation, EndTask, EndSavePreparation, LifecycleInv,
         HolderTypeOK, TaskTypeOK
    <3> QED
      BY <3>1, <3>2, Zenon
  <2>5. CASE AbandonPreparation(t)
    BY <2>5, ZenonT(30) DEF AbandonPreparation, EndTask, EndSavePreparation, LifecycleInv, HolderTypeOK,
       TaskTypeOK
  <2>6. CASE SaveSucceeds(t) \/ SaveFails(t)
    BY <2>6, ZenonT(30) DEF SaveSucceeds, SaveFails, EndTask, holderVars, LifecycleInv,
       HolderTypeOK, TaskTypeOK
  <2>7. CASE UNCHANGED <<map, lifecycle, pc, target, torn>>
    BY <2>7, <1>1
  <2> QED
    BY <1>5, <2>1, <2>2, <2>3, <2>4, <2>5, <2>6, <2>7, Zenon DEF SaveTask, CopySection, holderVars,
       dataVars, taskVars, storeVars, runVars
<1>6. ASSUME (\E c \in Chunks : ReleaseChunk(c)) \/ (\E c \in Chunks : SaveAllOne(c)) \/ Shutdown \/ StartSaveAll \/ CloseAll \/ UNCHANGED vars
      PROVE  UNCHANGED <<map, lifecycle, pc, target, torn>>
  BY <1>6, Zenon DEF ReleaseChunk, SaveAllOne, Shutdown, StartSaveAll, CloseAll, vars, holderVars,
     dataVars, taskVars, storeVars, runVars
<1> QED
  BY <1>1, <1>2, <1>3, <1>4, <1>5, <1>6, Zenon DEF Next

\* A task that ends has no snapshot, and those of the others stay what they were.
LEMMA EndSnapshot ==
    ASSUME TaskTypeOK, SnapshotInv, NEW t \in SaveTasks, EndTask(t),
           UNCHANGED <<mem, missed, light, producer>>, \A c \in Chunks : dirty[c] => dirty'[c]
    PROVE  SnapshotInv'
<1>1. pc'[t] = "idle" /\ snap'[t] = NothingRead
  BY Zenon DEF EndTask, TaskTypeOK
<1>2. \A u \in SaveTasks : target'[u] = target[u] /\ target[u] \in Chunks
  BY Zenon DEF EndTask, TaskTypeOK
<1>3. \A u \in SaveTasks : u # t => pc'[u] = pc[u] /\ snap'[u] = snap[u]
  BY Zenon DEF EndTask, TaskTypeOK
<1>4. SnapshotOf(t)'
  BY <1>1, Zenon DEF SnapshotOf
<1>5. \A u \in SaveTasks : u # t => SnapshotOf(u)'
  BY <1>2, <1>3, SMTT(30) DEF SnapshotInv, SnapshotOf, ReadsMatch, Pending
<1> QED
  BY <1>4, <1>5, Zenon DEF SnapshotInv

\* Whoever changes a section leaves the chunk Pending, until it is dirty.
LEMMA SnapshotStep ==
    ASSUME HolderTypeOK, DataTypeOK, FlagTypeOK, TaskTypeOK, SnapshotInv, OneSavePerHolder, ReferencesInv, QuietInv, [Next]_vars
    PROVE  SnapshotInv'
<1>1. CASE UNCHANGED <<mem, dirty, missed, light, producer, pc, target, snap>>
  BY <1>1, ZenonT(30) DEF SnapshotInv, SnapshotOf, ReadsMatch, Pending
<1>2. ASSUME NEW c \in Chunks, GameThread(c)
      PROVE  SnapshotInv'
  <2>1. CASE CreateHolder(c)
    <3>1. \A t \in SaveTasks : pc[t] # "idle" => target[t] # c
      <4>1. ~HasHolder(c)
        BY <2>1, Zenon DEF CreateHolder, HasHolder
      <4>2. ASSUME NEW t \in SaveTasks, pc[t] # "idle", target[t] = c
            PROVE  FALSE
        <5>1. HasHolder(target[t])
          BY <4>2, Zenon DEF ReferencesInv
        <5> QED
          BY <4>1, <4>2, <5>1, Zenon
      <4> QED
        BY <4>2, Zenon
    <3>2. UNCHANGED <<mem, missed, light, producer, pc, target, snap>>
      BY <2>1, ZenonT(30) DEF CreateHolder, taskVars
    <3>3. \A d \in Chunks : d # c => dirty'[d] = dirty[d]
      BY <2>1, Zenon DEF CreateHolder, FlagTypeOK
    <3>4. \A t \in SaveTasks : pc[t] # "idle" => dirty'[target[t]] = dirty[target[t]]
      BY <3>1, <3>3, Zenon DEF TaskTypeOK
    <3> QED
      BY <3>2, <3>4, Zenon DEF SnapshotInv, SnapshotOf, ReadsMatch, Pending
  <2>2. CASE ModifyActive(c)
    BY <2>2, ZenonT(30) DEF ModifyActive, DataTypeOK, HolderTypeOK, SnapshotInv, SnapshotOf, ReadsMatch,
       Pending, TaskTypeOK, FlagTypeOK
  <2>3. CASE QueueLightChange(c)
    BY <2>3, Zenon DEF QueueLightChange, HolderTypeOK, dataVars, taskVars, SnapshotInv, SnapshotOf,
       ReadsMatch, Pending, TaskTypeOK, FlagTypeOK
  <2>4. ASSUME NEW t \in SaveTasks, SpawnSave(c, t)
        PROVE  SnapshotInv'
    BY <2>4, ZenonT(30) DEF SpawnSave, dataVars, SnapshotInv, SnapshotOf, ReadsMatch, Pending,
       TaskTypeOK,
       FlagTypeOK
  <2>5. CASE UNCHANGED <<mem, dirty, missed, light, producer, pc, target, snap>>
    BY <2>5, <1>1, Zenon
  <2> QED
    BY <1>2, <2>1, <2>2, <2>3, <2>4, <2>5, Zenon DEF GameThread, BeginChunkUnload, EnterUnloadingMap,
       ReviveFromUnloading, EnterActiveMap, FinalizeUnload, holderVars, dataVars, taskVars,
       storeVars, runVars
<1>3. ASSUME NEW c \in Chunks, LightWriter(c)
      PROVE  SnapshotInv'
  <2>1. CASE LightSetup(c) \/ LightUnchanged(c) \/ FinishInFlight(c)
    BY <2>1 DEF LightSetup, LightUnchanged, FinishInFlight, HolderTypeOK, dataVars, taskVars,
       SnapshotInv, SnapshotOf, ReadsMatch, Pending, TaskTypeOK, FlagTypeOK
  <2>2. ASSUME NEW s \in Sections, LightWrite(c, s)
        PROVE  SnapshotInv'
    BY <2>2, Zenon DEF LightWrite, WriteSection, DataTypeOK, HolderTypeOK, taskVars, SnapshotInv,
       SnapshotOf, ReadsMatch, Pending, TaskTypeOK, FlagTypeOK
  <2>3. CASE LightChangedActive(c)
    BY Zenon, <2>3 DEF LightChangedActive, HolderTypeOK, taskVars, SnapshotInv, SnapshotOf, ReadsMatch,
       Pending, TaskTypeOK, FlagTypeOK
  <2>4. CASE LightChangedUnloading(c)
    BY Zenon, <2>4 DEF LightChangedUnloading, HolderTypeOK, taskVars, SnapshotInv, SnapshotOf,
       ReadsMatch,
       Pending, TaskTypeOK, FlagTypeOK
  <2> QED
    BY <1>3, <2>1, <2>2, <2>3, <2>4, Zenon DEF LightWriter
<1>4. ASSUME NEW c \in Chunks, Producer(c)
      PROVE  SnapshotInv'
  <2>1. CASE StartStep(c)
    BY <2>1, Zenon DEF StartStep, HolderTypeOK, dataVars, taskVars, SnapshotInv, SnapshotOf, ReadsMatch,
       Pending, TaskTypeOK, FlagTypeOK
  <2>2. CASE AcquireGivesUp(c) \/ AcquireChunk(c) \/ GiveUpAcquired(c)
    BY SMTT(120), <2>2 DEF AcquireGivesUp, AcquireChunk, GiveUpAcquired, HolderTypeOK, dataVars,
       taskVars,
       SnapshotInv, SnapshotOf, ReadsMatch, Pending, TaskTypeOK, FlagTypeOK
  <2>3. CASE PublishLoaded(c)
    <3>1. \A t \in SaveTasks : pc[t] # "idle" => target[t] # c
      BY <2>3, Zenon DEF PublishLoaded, ReferencesInv
    <3> QED
      BY <2>3, <3>1, ZenonT(30) DEF PublishLoaded, SnapshotInv, SnapshotOf, ReadsMatch, Pending,
         HolderTypeOK, TaskTypeOK, DataTypeOK, FlagTypeOK, taskVars
  <2>4. CASE PublishCreated(c)
    BY <2>4, Zenon DEF PublishCreated, HolderTypeOK, taskVars, SnapshotInv, SnapshotOf, ReadsMatch,
       Pending, TaskTypeOK, FlagTypeOK
  <2>5. ASSUME NEW s \in Sections, StepWrite(c, s)
        PROVE  SnapshotInv'
    BY <2>5, Zenon DEF StepWrite, WriteSection, DataTypeOK, taskVars, SnapshotInv, SnapshotOf,
       ReadsMatch,
       Pending, TaskTypeOK, FlagTypeOK
  <2>6. CASE FinishStep(c)
    BY <2>6, Zenon DEF FinishStep, HolderTypeOK, taskVars, SnapshotInv, SnapshotOf, ReadsMatch, Pending,
       TaskTypeOK, FlagTypeOK
  <2> QED
    BY <1>4, <2>1, <2>2, <2>3, <2>4, <2>5, <2>6, Zenon DEF Producer
<1>5. ASSUME NEW t \in SaveTasks, SaveTask(t)
      PROVE  SnapshotInv'
  <2>1. CASE FlushLight(t)
    BY <2>1, Zenon DEF FlushLight, GoTo, dataVars, SnapshotInv, SnapshotOf, ReadsMatch, Pending,
       TaskTypeOK, FlagTypeOK
  <2>2. CASE TryBeginSavePreparation(t)
    BY <2>2 DEF TryBeginSavePreparation, GoTo, EndTask, dataVars, SnapshotInv, SnapshotOf,
       ReadsMatch, Pending, TaskTypeOK, FlagTypeOK
  <2>3. CASE TakeDirty(t)
    <3>1. UNCHANGED <<mem, missed, light, producer, target, snap>>
      BY <2>3 DEF TakeDirty, GoTo, EndTask, NothingRead, SnapshotInv, SnapshotOf, TaskTypeOK
    <3>2. ASSUME NEW u \in SaveTasks, u # t
          PROVE  SnapshotOf(u)'
      <4>1. pc'[u] = pc[u]
        BY <2>3, <3>2, Zenon DEF TakeDirty, GoTo, EndTask, TaskTypeOK
      <4>2. pc[u] \in {"copying", "writing"} => dirty'[target[u]] = dirty[target[u]]
        BY <2>3, <3>2, Zenon DEF TakeDirty, OneSavePerHolder, FlagTypeOK, TaskTypeOK
      <4> QED
        BY <3>1, <4>1, <4>2, Zenon DEF SnapshotInv, SnapshotOf, ReadsMatch, Pending
    <3>3. SnapshotOf(t)'
      <4>1. pc'[t] \in {"copying", "idle"} /\ snap[t] = NothingRead
        BY <2>3, Zenon DEF TakeDirty, GoTo, EndTask, TaskTypeOK, SnapshotInv, SnapshotOf
      <4> QED
        BY <3>1, <4>1, Zenon DEF SnapshotOf, ReadsMatch, NothingRead
    <3> QED
      BY <3>2, <3>3, Zenon DEF SnapshotInv
  <2>4. ASSUME NEW s \in Sections, CopySection(t, s)
        PROVE  SnapshotInv'
    <3>1. UNCHANGED <<mem, dirty, missed, light, producer, pc, target>>
      BY <2>4, Zenon DEF CopySection, dataVars
    <3>2. ASSUME NEW u \in SaveTasks, u # t
          PROVE  SnapshotOf(u)'
      <4>1. snap'[u] = snap[u]
        BY <2>4, <3>2, Zenon DEF CopySection, TaskTypeOK
      <4> QED
        BY <3>1, <4>1, Zenon DEF SnapshotInv, SnapshotOf, ReadsMatch, Pending
    <3>3. SnapshotOf(t)'
      <4>1. pc[t] = "copying" /\ \A x \in Sections : snap'[t][x] \in {snap[t][x], mem[target[t]][x]}
        BY <2>4, Zenon DEF CopySection, TaskTypeOK
      <4>2. Pending(target[t]) => Pending(target[t])'
        BY <3>1, Zenon DEF Pending
      <4>3. ReadsMatch(t) => ReadsMatch(t)'
        BY <3>1, <4>1, Zenon DEF ReadsMatch
      <4> QED
        BY <3>1, <4>1, <4>2, <4>3, ZenonT(30) DEF SnapshotInv, SnapshotOf
    <3> QED
      BY <3>2, <3>3, Zenon DEF SnapshotInv
  <2>5. CASE FinishPreparation(t)
    <3>1. CASE lifecycle[target[t]] = "PREPARING"
      <4>1. UNCHANGED <<mem, dirty, missed, light, producer, target, snap>>
        BY <2>5, <3>1, ZenonT(30) DEF FinishPreparation, GoTo
      <4>2. \A u \in SaveTasks : u # t => pc'[u] = pc[u]
        BY <2>5, <3>1, Zenon DEF FinishPreparation, GoTo, TaskTypeOK
      <4>3. pc[t] = "copying" /\ pc'[t] = "writing" /\ \A s \in Sections : snap[t][s] # Unread
        BY <2>5, <3>1, Zenon DEF FinishPreparation, GoTo, TaskTypeOK
      <4> QED
        BY <4>1, <4>2, <4>3, ZenonT(30) DEF SnapshotInv, SnapshotOf, ReadsMatch, Pending
    <3>2. CASE lifecycle[target[t]] # "PREPARING"
      <4>1. EndTask(t) /\ UNCHANGED <<mem, missed, light, producer>>
        BY <2>5, <3>2, ZenonT(30) DEF FinishPreparation
      <4>2. \A c \in Chunks : dirty[c] => dirty'[c]
        BY <2>5, <3>2, Zenon DEF FinishPreparation, FlagTypeOK
      <4> QED
        BY <4>1, <4>2, EndSnapshot, Zenon
    <3> QED
      BY <3>1, <3>2, Zenon
  <2>6. CASE AbandonPreparation(t)
    <3>1. EndTask(t) /\ UNCHANGED <<mem, missed, light, producer>>
      BY <2>6, ZenonT(30) DEF AbandonPreparation
    <3>2. \A c \in Chunks : dirty[c] => dirty'[c]
      BY <2>6, Zenon DEF AbandonPreparation, FlagTypeOK
    <3> QED
      BY <3>1, <3>2, EndSnapshot
  <2>7. CASE SaveSucceeds(t)
    <3>1. EndTask(t) /\ UNCHANGED <<mem, dirty, missed, light, producer>>
      BY <2>7, ZenonT(30) DEF SaveSucceeds, dataVars
    <3> QED
      BY <3>1, EndSnapshot, Zenon
  <2>8. CASE SaveFails(t)
    <3>1. EndTask(t) /\ UNCHANGED <<mem, missed, light, producer>>
      BY <2>8, ZenonT(30) DEF SaveFails
    <3>2. \A c \in Chunks : dirty[c] => dirty'[c]
      BY <2>8, Zenon DEF SaveFails, FlagTypeOK
    <3> QED
      BY <3>1, <3>2, EndSnapshot
  <2> QED
    BY <1>5, <2>1, <2>2, <2>3, <2>4, <2>5, <2>6, <2>7, <2>8, Zenon DEF SaveTask
<1>6. ASSUME NEW c \in Chunks, SaveAllOne(c)
      PROVE  SnapshotInv'
  <2>1. \A t \in SaveTasks : pc[t] = "idle"
    BY <1>6, ZenonT(30) DEF SaveAllOne, QuietInv, TasksDrained
  <2>2. UNCHANGED taskVars
    BY <1>6, Zenon DEF SaveAllOne
  <2> QED
    BY <2>1, <2>2, Zenon DEF SnapshotInv, SnapshotOf, taskVars
<1>7. ASSUME (\E c \in Chunks : ReleaseChunk(c)) \/ Shutdown \/ StartSaveAll \/ CloseAll \/ UNCHANGED vars
      PROVE  UNCHANGED <<mem, dirty, missed, light, producer, pc, target, snap>>
  BY <1>7, Zenon DEF ReleaseChunk, Shutdown, StartSaveAll, CloseAll, vars, holderVars, dataVars,
     taskVars,
     storeVars, runVars
<1> QED
  BY <1>1, <1>2, <1>3, <1>4, <1>5, <1>6, <1>7, Zenon DEF Next


\* A task that ends with the dirty flag of its chunk set loses nothing.
LEMMA DirtyEnough ==
    ASSUME TaskTypeOK, FlagTypeOK, CleanInv, ReferencesInv, NEW t \in SaveTasks, pc[t] # "idle",
           UNCHANGED <<map, status, mem, missed, light, producer, target, disk>>,
           \A u \in SaveTasks \ {t} : pc'[u] = pc[u],
           dirty' = [dirty EXCEPT ![target[t]] = TRUE]
    PROVE  CleanInv'
<1>1. ASSUME NEW c \in Chunks, c = target[t]
      PROVE  CleanChunk(c)'
  BY <1>1, ZenonT(30) DEF TaskTypeOK, FlagTypeOK, ReferencesInv, CleanChunk, Pending, HasHolder
<1>2. ASSUME NEW c \in Chunks, c # target[t]
      PROVE  CleanChunk(c)'
  BY <1>2, ZenonT(30) DEF TaskTypeOK, FlagTypeOK, CleanInv, CleanChunk, Pending, HasHolder, TasksOf
<1> QED
  BY <1>1, <1>2, Zenon DEF CleanInv

\* The dirty flag is cleared only by a task that is about to copy, and that
\* task ends by writing what memory holds or by putting the flag back.
LEMMA CleanStep ==
    ASSUME HolderTypeOK, DataTypeOK, FlagTypeOK, TaskTypeOK, CleanInv, SnapshotInv, ReferencesInv, NoLostUpdate, [Next]_vars
    PROVE  CleanInv'
<1>1. CASE UNCHANGED <<map, status, mem, dirty, missed, light, producer, pc, target, disk>>
  BY <1>1, ZenonT(30) DEF CleanInv, CleanChunk, Pending, HasHolder, TasksOf
<1>2. ASSUME NEW c \in Chunks, GameThread(c)
      PROVE  CleanInv'
  <2>1. CASE CreateHolder(c)
    BY <2>1, ZenonT(30) DEF CreateHolder, HolderTypeOK, FlagTypeOK, taskVars, storeVars, CleanInv,
       CleanChunk,
       Pending, HasHolder, TasksOf
  <2>2. CASE BeginChunkUnload(c) \/ EnterUnloadingMap(c)
    BY <2>2, ZenonT(30) DEF BeginChunkUnload, EnterUnloadingMap, HolderTypeOK, dataVars, taskVars,
       storeVars,
       CleanInv, CleanChunk, Pending, HasHolder, TasksOf
  <2>3. CASE ReviveFromUnloading(c) \/ EnterActiveMap(c)
    BY <2>3, ZenonT(30) DEF ReviveFromUnloading, EnterActiveMap, HolderTypeOK, dataVars, taskVars,
       storeVars,
       CleanInv, CleanChunk, Pending, HasHolder, TasksOf
  <2>4. CASE ModifyActive(c)
    BY <2>4, Zenon DEF ModifyActive, DataTypeOK, FlagTypeOK, holderVars, storeVars, CleanInv,
       CleanChunk,
       Pending, HasHolder, TasksOf
  <2>5. CASE QueueLightChange(c)
    BY <2>5, Zenon DEF QueueLightChange, HolderTypeOK, holderVars, dataVars, taskVars, storeVars,
       CleanInv,
       CleanChunk, Pending, HasHolder, TasksOf
  <2>6. ASSUME NEW t \in SaveTasks, SpawnSave(c, t)
        PROVE  CleanInv'
    BY <2>6, ZenonT(30) DEF SpawnSave, TaskTypeOK, holderVars, dataVars, storeVars, CleanInv,
       CleanChunk,
       Pending, HasHolder, TasksOf
  <2>7. CASE FinalizeUnload(c)
    BY <2>7, ZenonT(30) DEF FinalizeUnload, HolderTypeOK, dataVars, taskVars, CleanInv, CleanChunk,
       Pending,
       HasHolder, TasksOf
  <2> QED
    BY <1>2, <2>1, <2>2, <2>3, <2>4, <2>5, <2>6, <2>7, Zenon DEF GameThread
<1>3. ASSUME NEW c \in Chunks, LightWriter(c)
      PROVE  CleanInv'
  <2>1. CASE LightSetup(c) \/ LightUnchanged(c) \/ FinishInFlight(c)
    BY <2>1, ZenonT(30) DEF LightSetup, LightUnchanged, FinishInFlight, HolderTypeOK, holderVars,
       dataVars,
       taskVars, storeVars, CleanInv, CleanChunk, Pending, HasHolder, TasksOf
  <2>2. ASSUME NEW s \in Sections, LightWrite(c, s)
        PROVE  CleanInv'
    <3>1. status[c] = "saveable"
      BY <2>2, Zenon DEF LightWrite, ReferencesInv
    <3> QED
      BY <2>2, <3>1, ZenonT(30) DEF LightWrite, WriteSection, HolderTypeOK, DataTypeOK, holderVars,
         taskVars, storeVars,
         CleanInv, CleanChunk, Pending, HasHolder, TasksOf
  <2>3. CASE LightChangedActive(c)
    BY Zenon, <2>3 DEF LightChangedActive, HolderTypeOK, FlagTypeOK, holderVars, taskVars, storeVars,
       CleanInv, CleanChunk, Pending, HasHolder, TasksOf
  <2>4. CASE LightChangedUnloading(c)
    BY Zenon, <2>4 DEF LightChangedUnloading, HolderTypeOK, FlagTypeOK, holderVars, taskVars, storeVars,
       CleanInv, CleanChunk, Pending, HasHolder, TasksOf
  <2> QED
    BY <1>3, <2>1, <2>2, <2>3, <2>4, Zenon DEF LightWriter
<1>4. ASSUME NEW c \in Chunks, Producer(c)
      PROVE  CleanInv'
  <2>1. CASE StartStep(c)
    BY <2>1, ZenonT(30) DEF StartStep, HolderTypeOK, holderVars, dataVars, taskVars, storeVars,
       CleanInv,
       CleanChunk, Pending, HasHolder, TasksOf
  <2>2. CASE AcquireGivesUp(c) \/ AcquireChunk(c) \/ GiveUpAcquired(c)
    <3>1. producer[c] # "working" /\ producer' = [producer EXCEPT ![c] = producer'[c]]
      BY <2>2, Zenon DEF AcquireGivesUp, AcquireChunk, GiveUpAcquired, HolderTypeOK
    <3>2. UNCHANGED <<map, status, mem, dirty, missed, light, pc, target, disk>>
      BY <2>2, Zenon DEF AcquireGivesUp, AcquireChunk, GiveUpAcquired, holderVars, dataVars,
         taskVars, storeVars
    <3> QED
      BY <3>1, <3>2, Zenon DEF HolderTypeOK, CleanInv, CleanChunk, Pending, HasHolder, TasksOf
  <2>3. CASE PublishLoaded(c)
    BY <2>3, Zenon DEF PublishLoaded, HolderTypeOK, DataTypeOK, FlagTypeOK, taskVars, storeVars,
       CleanInv,
       CleanChunk, Pending, HasHolder, TasksOf
  <2>4. CASE PublishCreated(c)
    <3>1. status[c] = "none" /\ (~missed[c] => disk[c] = mem[c])
      BY <2>4, ZenonT(30) DEF PublishCreated, ReferencesInv, NoLostUpdate
    <3> QED
      BY <2>4, <3>1, Zenon DEF PublishCreated, HolderTypeOK, FlagTypeOK, taskVars, storeVars,
         CleanInv, CleanChunk, Pending, HasHolder, TasksOf
  <2>5. ASSUME NEW s \in Sections, StepWrite(c, s)
        PROVE  CleanInv'
    BY <2>5, Zenon DEF StepWrite, WriteSection, DataTypeOK, holderVars, taskVars, storeVars, CleanInv,
       CleanChunk, Pending, HasHolder, TasksOf
  <2>6. CASE FinishStep(c)
    BY <2>6, Zenon DEF FinishStep, HolderTypeOK, FlagTypeOK, taskVars, storeVars, CleanInv, CleanChunk,
       Pending, HasHolder, TasksOf
  <2> QED
    BY <1>4, <2>1, <2>2, <2>3, <2>4, <2>5, <2>6, Zenon DEF Producer
<1>5. ASSUME NEW t \in SaveTasks, SaveTask(t)
      PROVE  CleanInv'
  <2>1. CASE FlushLight(t)
    BY <2>1, ZenonT(30) DEF FlushLight, GoTo, TaskTypeOK, holderVars, dataVars, storeVars,
       CleanInv, CleanChunk,
       Pending, HasHolder, TasksOf
  <2>2. CASE TryBeginSavePreparation(t)
    <3>1. UNCHANGED <<map, status, mem, dirty, missed, light, producer, disk>>
      BY <2>2, Zenon DEF TryBeginSavePreparation, dataVars, storeVars
    <3>2. \A u \in SaveTasks : pc[u] \in {"copying", "writing"} =>
                                pc'[u] = pc[u] /\ target'[u] = target[u]
      BY <2>2, Zenon DEF TryBeginSavePreparation, GoTo, EndTask, TaskTypeOK
    <3> QED
      BY <3>1, <3>2, Zenon DEF CleanInv, CleanChunk, Pending, HasHolder, TasksOf
  <2>3. CASE TakeDirty(t)
    <3>1. UNCHANGED <<map, status, mem, missed, light, producer, target, disk>>
      BY <2>3, Zenon DEF TakeDirty, GoTo, EndTask, storeVars
    <3>2. \A u \in SaveTasks : pc[u] \in {"copying", "writing"} => pc'[u] = pc[u]
      BY <2>3, Zenon DEF TakeDirty, GoTo, EndTask, TaskTypeOK
    <3>3. \A c \in Chunks : c # target[t] => dirty'[c] = dirty[c]
      BY <2>3, ZenonT(30) DEF TakeDirty, FlagTypeOK
    <3>4. pc'[t] = "copying" \/ UNCHANGED dirty
      BY <2>3, Zenon DEF TakeDirty, GoTo, TaskTypeOK
    <3> QED
      BY <3>1, <3>2, <3>3, <3>4, ZenonT(30) DEF CleanInv, CleanChunk, Pending, HasHolder, TasksOf
  <2>4. CASE FinishPreparation(t)
    <3>1. CASE lifecycle[target[t]] = "PREPARING"
      BY <2>4, <3>1, ZenonT(30) DEF FinishPreparation, GoTo, TaskTypeOK, storeVars, CleanInv,
         CleanChunk, Pending, HasHolder, TasksOf
    <3>2. CASE lifecycle[target[t]] # "PREPARING"
      <4>1. UNCHANGED <<map, status, mem, missed, light, producer, target, disk>>
        BY <2>4, <3>2, ZenonT(30) DEF FinishPreparation, EndTask, storeVars
      <4>2. \A u \in SaveTasks \ {t} : pc'[u] = pc[u]
        BY <2>4, <3>2, Zenon DEF FinishPreparation, EndTask, TaskTypeOK
      <4>3. dirty' = [dirty EXCEPT ![target[t]] = TRUE]
        BY <2>4, <3>2, ZenonT(30) DEF FinishPreparation
      <4> QED
        BY Zenon, <2>4, <4>1, <4>2, <4>3, DirtyEnough DEF FinishPreparation
    <3> QED
      BY <3>1, <3>2, Zenon
  <2>5. CASE AbandonPreparation(t)
    <3>1. UNCHANGED <<map, status, mem, missed, light, producer, target, disk>>
      BY <2>5, Zenon DEF AbandonPreparation, EndTask, storeVars
    <3>2. \A u \in SaveTasks \ {t} : pc'[u] = pc[u]
      BY <2>5, Zenon DEF AbandonPreparation, EndTask, TaskTypeOK
    <3>3. dirty' = [dirty EXCEPT ![target[t]] = TRUE]
      BY <2>5, Zenon DEF AbandonPreparation
    <3> QED
      BY Zenon, <2>5, <3>1, <3>2, <3>3, DirtyEnough DEF AbandonPreparation
  <2>6. CASE SaveSucceeds(t)
    <3>1. Pending(target[t]) \/ snap[t] = mem[target[t]]
      <4>1. CASE ReadsMatch(t)
        <5>1. \A s \in Sections : snap[t][s] = mem[target[t]][s]
          BY <2>6, <4>1, Zenon DEF SaveSucceeds, SnapshotInv, SnapshotOf, ReadsMatch
        <5> QED
          BY <5>1 DEF DataTypeOK, TaskTypeOK, Content
      <4> QED
        BY <2>6, <4>1, ZenonT(30) DEF SaveSucceeds, SnapshotInv, SnapshotOf
    <3>2. status[target[t]] = "saveable"
      BY <2>6, Zenon DEF SaveSucceeds, ReferencesInv
    <3>3. UNCHANGED <<map, status, mem, dirty, missed, light, producer, target>>
      BY <2>6, Zenon DEF SaveSucceeds, EndTask, holderVars, dataVars
    <3>4. \A u \in SaveTasks \ {t} : pc'[u] = pc[u]
      BY <2>6, Zenon DEF SaveSucceeds, EndTask, TaskTypeOK
    <3>5. disk' = [disk EXCEPT ![target[t]] = snap[t]]
      BY <2>6, Zenon DEF SaveSucceeds
    <3> QED
      BY <3>1, <3>2, <3>3, <3>4, <3>5, ZenonT(30) DEF DataTypeOK, TaskTypeOK, CleanInv, CleanChunk,
         Pending, HasHolder, TasksOf
  <2>7. CASE SaveFails(t)
    <3>1. UNCHANGED <<map, status, mem, missed, light, producer, target, disk>>
      BY <2>7, Zenon DEF SaveFails, EndTask, holderVars, storeVars
    <3>2. \A u \in SaveTasks \ {t} : pc'[u] = pc[u]
      BY <2>7, Zenon DEF SaveFails, EndTask, TaskTypeOK
    <3>3. dirty' = [dirty EXCEPT ![target[t]] = TRUE]
      BY <2>7, Zenon DEF SaveFails
    <3> QED
      BY Zenon, <2>7, <3>1, <3>2, <3>3, DirtyEnough DEF SaveFails
  <2>8. CASE UNCHANGED <<map, status, mem, dirty, missed, light, producer, pc, target, disk>>
    BY <2>8, <1>1, Zenon
  <2> QED
    BY <1>5, <2>1, <2>2, <2>3, <2>4, <2>5, <2>6, <2>7, <2>8, Zenon DEF SaveTask, CopySection,
       holderVars,
       dataVars, taskVars, storeVars, runVars
<1>6. ASSUME NEW c \in Chunks, SaveAllOne(c)
      PROVE  CleanInv'
  <2>1. CASE IsDirty(c) /\ dirty' = [dirty EXCEPT ![c] = FALSE] /\ disk' = [disk EXCEPT ![c] = mem[c]]
    BY <1>6, <2>1, Zenon DEF SaveAllOne, IsDirty, DataTypeOK, FlagTypeOK, holderVars, taskVars,
       CleanInv, CleanChunk, Pending, HasHolder, TasksOf
  <2>2. CASE UNCHANGED <<dirty, disk>>
    BY <1>6, <2>2, <1>1, Zenon DEF SaveAllOne, holderVars, taskVars
  <2> QED
    BY <1>6, <2>1, <2>2, Zenon DEF SaveAllOne
<1>7. ASSUME (\E c \in Chunks : ReleaseChunk(c)) \/ Shutdown \/ StartSaveAll \/ CloseAll \/ UNCHANGED vars
      PROVE  UNCHANGED <<map, status, mem, dirty, missed, light, producer, pc, target, disk>>
  BY <1>7, Zenon DEF ReleaseChunk, Shutdown, StartSaveAll, CloseAll, vars, holderVars, dataVars,
     taskVars,
     storeVars, runVars
<1> QED
  BY <1>1, <1>2, <1>3, <1>4, <1>5, <1>6, <1>7, Zenon DEF Next

\* process_unloads drops a clean chunk that nothing refers to, so CleanInv says
\* that it is in storage.
LEMMA NoLostUpdateStep ==
    ASSUME HolderTypeOK, DataTypeOK, FlagTypeOK, TaskTypeOK, NoLostUpdate, CleanInv, ReferencesInv, [Next]_vars
    PROVE  NoLostUpdate'
<1>1. CASE UNCHANGED <<map, status, mem, missed, disk>>
  BY <1>1, Zenon DEF NoLostUpdate
<1>2. ASSUME NEW c \in Chunks, GameThread(c)
      PROVE  NoLostUpdate'
  <2>1. CASE CreateHolder(c)
    BY <2>1, ZenonT(30) DEF CreateHolder, HolderTypeOK, FlagTypeOK, HasHolder, storeVars, NoLostUpdate
  <2>2. CASE BeginChunkUnload(c) \/ EnterUnloadingMap(c)
    BY <2>2, Zenon DEF BeginChunkUnload, EnterUnloadingMap, HolderTypeOK, dataVars, storeVars,
       NoLostUpdate
  <2>3. CASE ReviveFromUnloading(c) \/ EnterActiveMap(c)
    BY <2>3, Zenon DEF ReviveFromUnloading, EnterActiveMap, HolderTypeOK, dataVars, storeVars,
       NoLostUpdate
  <2>4. CASE ModifyActive(c)
    BY <2>4, ZenonT(30) DEF ModifyActive, DataTypeOK, holderVars, storeVars, NoLostUpdate
  <2>5. CASE FinalizeUnload(c)
    <3>1. TasksOf(c) = {} /\ producer[c] = "none" /\ light[c] = "idle" /\ map[c] = "unloading"
      BY <2>5, Zenon DEF FinalizeUnload, MayLeaveUnloading, StrongCountIsOne, TouchesChunk
    <3>2. ~(status[c] = "saveable" /\ dirty[c]) /\ CleanChunk(c)
      BY <2>5, Zenon DEF FinalizeUnload, IsDirty, CleanInv
    <3>3. status[c] # "none" /\ ~missed[c] => disk[c] = mem[c]
      BY <3>1, <3>2, Zenon DEF CleanChunk, Pending, HasHolder, HolderTypeOK
    <3>4. status[c] = "none" /\ ~missed[c] => disk[c] = mem[c]
      BY Zenon DEF NoLostUpdate
    <3> QED
      BY <2>5, <3>3, <3>4, ZenonT(30) DEF FinalizeUnload, NoLostUpdate, HolderTypeOK, dataVars
  <2>6. CASE UNCHANGED <<map, status, mem, missed, disk>>
    BY <2>6, <1>1, Zenon
  <2> QED
    BY Zenon, <1>2, <2>1, <2>2, <2>3, <2>4, <2>5, <2>6 DEF GameThread, QueueLightChange, SpawnSave,
       holderVars, dataVars, taskVars, storeVars, runVars
<1>3. ASSUME NEW c \in Chunks, LightWriter(c)
      PROVE  NoLostUpdate'
  <2>1. ASSUME NEW s \in Sections, LightWrite(c, s)
        PROVE  NoLostUpdate'
    <3>1. map[c] # "absent" /\ status[c] = "saveable"
      BY <2>1, Zenon DEF LightWrite, ReferencesInv, HasHolder
    <3> QED
      BY <2>1, <3>1, ZenonT(30) DEF LightWrite, WriteSection, NoLostUpdate, DataTypeOK, holderVars,
         storeVars
  <2>2. CASE LightChangedUnloading(c)
    BY <2>2, Zenon DEF LightChangedUnloading, FlagTypeOK, holderVars, storeVars, NoLostUpdate
  <2>3. CASE UNCHANGED <<map, status, mem, missed, disk>>
    BY <2>3, <1>1, SMTT(30)
  <2> QED
    BY <1>3, <2>1, <2>2, <2>3, ZenonT(30) DEF LightWriter, LightSetup, LightUnchanged,
       LightChangedActive,
       FinishInFlight, holderVars, dataVars, taskVars, storeVars, runVars
<1>4. ASSUME NEW c \in Chunks, Producer(c)
      PROVE  NoLostUpdate'
  <2>1. CASE PublishLoaded(c)
    BY <2>1, Zenon DEF PublishLoaded, HolderTypeOK, DataTypeOK, FlagTypeOK, storeVars, NoLostUpdate
  <2>2. CASE PublishCreated(c)
    BY <2>2, Zenon DEF PublishCreated, HolderTypeOK, storeVars, NoLostUpdate
  <2>3. ASSUME NEW s \in Sections, StepWrite(c, s)
        PROVE  NoLostUpdate'
    <3>1. map[c] # "absent" /\ status[c] # "none"
      BY <2>3, Zenon DEF StepWrite, ReferencesInv, HasHolder
    <3> QED
      BY <2>3, <3>1, ZenonT(30) DEF StepWrite, WriteSection, NoLostUpdate, DataTypeOK, holderVars,
         storeVars
  <2>4. CASE FinishStep(c)
    <3>1. map[c] # "absent" /\ status[c] # "none"
      BY <2>4, Zenon DEF FinishStep, ReferencesInv, HasHolder
    <3> QED
      BY <2>4, <3>1, ZenonT(30) DEF FinishStep, NoLostUpdate, HolderTypeOK, storeVars
  <2>5. CASE UNCHANGED <<map, status, mem, missed, disk>>
    BY <2>5, <1>1, SMTT(30)
  <2> QED
    BY <1>4, <2>1, <2>2, <2>3, <2>4, <2>5, ZenonT(30) DEF Producer, StartStep, AcquireGivesUp,
       AcquireChunk,
       GiveUpAcquired, holderVars, dataVars, taskVars, storeVars, runVars
<1>5. ASSUME NEW t \in SaveTasks, SaveTask(t)
      PROVE  NoLostUpdate'
  <2>1. CASE SaveSucceeds(t)
    <3>1. map[target[t]] # "absent" /\ status[target[t]] = "saveable"
      BY <2>1, Zenon DEF SaveSucceeds, ReferencesInv, HasHolder
    <3> QED
      BY <2>1, <3>1, Zenon DEF SaveSucceeds, NoLostUpdate, DataTypeOK, TaskTypeOK, holderVars, dataVars
  <2>2. CASE UNCHANGED <<map, status, mem, missed, disk>>
    BY <2>2, <1>1, SMTT(30)
  <2> QED
    BY <1>5, <2>1, <2>2, Zenon DEF SaveTask, FlushLight, TryBeginSavePreparation, TakeDirty,
       CopySection,
       FinishPreparation, AbandonPreparation, SaveFails, holderVars, dataVars, taskVars, storeVars,
       runVars
<1>6. ASSUME NEW c \in Chunks, SaveAllOne(c)
      PROVE  NoLostUpdate'
  BY <1>6, ZenonT(30) DEF SaveAllOne, DataTypeOK, holderVars, NoLostUpdate
<1>7. ASSUME (\E c \in Chunks : ReleaseChunk(c)) \/ Shutdown \/ StartSaveAll \/ CloseAll \/ UNCHANGED vars
      PROVE  UNCHANGED <<map, status, mem, missed, disk>>
  BY <1>7, Zenon DEF ReleaseChunk, Shutdown, StartSaveAll, CloseAll, vars, holderVars, dataVars,
     taskVars,
     storeVars, runVars
<1> QED
  BY <1>1, <1>2, <1>3, <1>4, <1>5, <1>6, <1>7, Zenon DEF Next

LEMMA VersionNat == \A v \in Version : v \in Nat /\ v <= v
BY MaxVersionAssumption, SMTT(30) DEF Version

\* A write stamps its sections with a version above every one in use.
LEMMA WriteKeepsOrder ==
    ASSUME DataTypeOK, TaskTypeOK, OrderInv, NEW c \in Chunks, NEW v \in Version, v > version[c],
           version' = [version EXCEPT ![c] = v],
           \A s \in Sections : mem'[c][s] \in {mem[c][s], v},
           \A d \in Chunks : d # c => mem'[d] = mem[d],
           UNCHANGED <<disk, pc, target, snap>>
    PROVE  OrderInv'
<1>1. ASSUME NEW s \in Sections
      PROVE  /\ mem[c][s] \in Nat /\ mem'[c][s] \in Nat /\ disk[c][s] \in Nat
             /\ mem[c][s] <= mem'[c][s] /\ mem'[c][s] <= v
  <2>1. mem[c][s] \in Nat /\ disk[c][s] \in Nat /\ version[c] \in Nat /\ v \in Nat
    BY VersionNat, Zenon DEF DataTypeOK, Content
  <2>2. mem[c][s] <= version[c]
    BY Zenon DEF OrderInv, ChunkOrder
  <2> QED
    BY <2>1, <2>2
<1>2. ChunkOrder(c)'
  <2>1. version'[c] = v
    BY Zenon DEF DataTypeOK
  <2>2. \A s \in Sections : disk[c][s] <= mem[c][s]
    BY Zenon DEF OrderInv, ChunkOrder
  <2> QED
    BY <1>1, <2>1, <2>2 DEF ChunkOrder
<1>3. \A d \in Chunks : d # c => ChunkOrder(d)'
  BY Zenon DEF OrderInv, ChunkOrder, DataTypeOK
<1>4. ASSUME NEW t \in SaveTasks
      PROVE  TaskOrder(t)'
  <2>1. target[t] \in Chunks /\ TaskOrder(t)
    BY Zenon DEF TaskTypeOK, OrderInv
  <2>2. CASE target[t] = c
    <3>1. ASSUME NEW s \in Sections, pc[t] # "idle", snap[t][s] # Unread
          PROVE  disk[c][s] <= snap[t][s] /\ snap[t][s] <= mem'[c][s]
      <4>1. disk[c][s] <= snap[t][s] /\ snap[t][s] <= mem[c][s]
        BY <2>1, <2>2, <3>1, Zenon DEF TaskOrder
      <4>2. snap[t][s] \in Nat
        BY <3>1, VersionNat DEF TaskTypeOK
      <4> QED
        BY <1>1, <4>1, <4>2
    <3> QED
      BY <2>2, <3>1, Zenon DEF TaskOrder
  <2>3. CASE target[t] # c
    BY <2>1, <2>3, Zenon DEF TaskOrder
  <2> QED
    BY <2>2, <2>3, Zenon
<1> QED
  BY <1>2, <1>3, <1>4, Zenon DEF OrderInv

LEMMA WriteSectionOrder ==
    ASSUME DataTypeOK, TaskTypeOK, OrderInv, NEW c \in Chunks, NEW s \in Sections,
           WriteSection(c, s), UNCHANGED <<disk, pc, target, snap>>
    PROVE  OrderInv'
<1> DEFINE v == version[c] + 1
<1>1. /\ v \in Version /\ v > version[c]
      /\ version' = [version EXCEPT ![c] = v]
      /\ mem' = [mem EXCEPT ![c][s] = v]
  BY VersionType, VersionNat DEF WriteSection, DataTypeOK
<1>2. \A x \in Sections : mem'[c][x] \in {mem[c][x], v}
  BY <1>1, Zenon DEF DataTypeOK, Content
<1>3. \A d \in Chunks : d # c => mem'[d] = mem[d]
  BY <1>1, Zenon DEF DataTypeOK
<1> QED
  BY ZenonT(60), <1>1, <1>2, <1>3, WriteKeepsOrder

\* Every write uses a version above all earlier ones, and a task copies
\* from memory once.
LEMMA OrderStep ==
    ASSUME HolderTypeOK, DataTypeOK, TaskTypeOK, OrderInv, SnapshotInv, OneSavePerHolder, ReferencesInv, QuietInv, [Next]_vars
    PROVE  OrderInv'
<1>1. CASE UNCHANGED <<mem, version, disk, pc, target, snap>>
  BY <1>1, Zenon DEF OrderInv, ChunkOrder, TaskOrder
<1>2. ASSUME NEW c \in Chunks, GameThread(c)
      PROVE  OrderInv'
  <2>1. CASE ModifyActive(c)
    <3> DEFINE v == version[c] + 1
    <3>1. v \in Version /\ v > version[c] /\ version' = [version EXCEPT ![c] = v]
      <4>1. version[c] \in Version /\ version[c] < MaxVersion
        BY <2>1, ZenonT(30) DEF ModifyActive, DataTypeOK
      <4>2. version' = [version EXCEPT ![c] = version[c] + 1]
        BY <2>1, ZenonT(30) DEF ModifyActive
      <4> QED
        BY SMTT(120), <4>1, <4>2, VersionType, VersionNat
    <3>2. \A s \in Sections : mem'[c][s] \in {mem[c][s], v}
      BY <2>1, <3>1, ZenonT(30) DEF ModifyActive, DataTypeOK, Content
    <3>3. UNCHANGED <<disk, pc, target, snap>> /\ \A d \in Chunks : d # c => mem'[d] = mem[d]
      BY <2>1, Zenon DEF ModifyActive, DataTypeOK, storeVars
    <3> QED
      BY Zenon, <3>1, <3>2, <3>3, WriteKeepsOrder
  <2>2. ASSUME NEW t \in SaveTasks, SpawnSave(c, t)
        PROVE  OrderInv'
    <3>1. snap[t] = NothingRead
      BY <2>2, ZenonT(30) DEF SpawnSave, SnapshotInv, SnapshotOf
    <3>2. UNCHANGED <<mem, version, disk, snap>>
      BY <2>2, Zenon DEF SpawnSave, dataVars, storeVars
    <3>3. \A u \in SaveTasks : u # t => pc'[u] = pc[u] /\ target'[u] = target[u]
      BY <2>2, Zenon DEF SpawnSave, TaskTypeOK
    <3>4. TaskOrder(t)'
      BY <3>1, <3>2, ZenonT(30) DEF TaskOrder, NothingRead
    <3> QED
      BY <3>2, <3>3, <3>4, ZenonT(30) DEF OrderInv, ChunkOrder, TaskOrder
  <2>3. CASE UNCHANGED <<mem, version, disk, pc, target, snap>>
    BY <2>3, <1>1, Zenon
  <2> QED
    BY <1>2, <2>1, <2>2, <2>3, ZenonT(30) DEF GameThread, CreateHolder, BeginChunkUnload,
       EnterUnloadingMap,
       ReviveFromUnloading, EnterActiveMap, QueueLightChange, FinalizeUnload, holderVars, dataVars,
       taskVars, storeVars, runVars
<1>3. ASSUME NEW c \in Chunks, LightWriter(c)
      PROVE  OrderInv'
  <2>1. ASSUME NEW s \in Sections, LightWrite(c, s)
        PROVE  OrderInv'
    <3>1. UNCHANGED <<disk, pc, target, snap>>
      BY <2>1, Zenon DEF LightWrite, taskVars, storeVars
    <3> QED
      BY <2>1, <3>1, WriteSectionOrder, Zenon DEF LightWrite
  <2>2. CASE UNCHANGED <<mem, version, disk, pc, target, snap>>
    BY <2>2, <1>1, SMTT(30)
  <2> QED
    BY Zenon, <1>3, <2>1, <2>2 DEF LightWriter, LightSetup, LightUnchanged, LightChangedActive,
       LightChangedUnloading, FinishInFlight, holderVars, dataVars, taskVars, storeVars, runVars
<1>4. ASSUME NEW c \in Chunks, Producer(c)
      PROVE  OrderInv'
  <2>1. CASE PublishLoaded(c)
    <3>1. \A t \in SaveTasks : pc[t] # "idle" => target[t] # c
      BY Zenon, <2>1 DEF PublishLoaded, ReferencesInv
    <3>2. mem' = [mem EXCEPT ![c] = disk[c]] /\ UNCHANGED <<version, disk, pc, target, snap>>
      BY <2>1, ZenonT(30) DEF PublishLoaded, taskVars, storeVars
    <3>3. \A s \in Sections : disk[c][s] \in Nat /\ disk[c][s] <= version[c]
      BY VersionNat DEF DataTypeOK, OrderInv, ChunkOrder, Content
    <3>4. ChunkOrder(c)'
      BY <3>2, <3>3 DEF ChunkOrder, DataTypeOK
    <3>5. \A d \in Chunks : d # c => mem'[d] = mem[d]
      BY <3>2, Zenon DEF DataTypeOK
    <3>6. \A t \in SaveTasks : TaskOrder(t)'
      BY <3>1, <3>2, <3>5 DEF OrderInv, TaskOrder, TaskTypeOK
    <3> QED
      BY <3>2, <3>4, <3>5, <3>6, Zenon DEF OrderInv, ChunkOrder
  <2>2. ASSUME NEW s \in Sections, StepWrite(c, s)
        PROVE  OrderInv'
    <3>1. UNCHANGED <<disk, pc, target, snap>>
      BY <2>2, Zenon DEF StepWrite, taskVars, storeVars
    <3> QED
      BY <2>2, <3>1, WriteSectionOrder, Zenon DEF StepWrite
  <2>3. CASE UNCHANGED <<mem, version, disk, pc, target, snap>>
    BY <2>3, <1>1
  <2> QED
    BY <1>4, <2>1, <2>2, <2>3, Zenon DEF Producer, StartStep, AcquireGivesUp, AcquireChunk,
       GiveUpAcquired,
       PublishCreated, FinishStep, holderVars, dataVars, taskVars, storeVars, runVars
<1>5. ASSUME NEW t \in SaveTasks, SaveTask(t)
      PROVE  OrderInv'
  <2>1. CASE SaveFails(t) \/ FlushLight(t)
    BY <2>1, Zenon DEF SaveFails, FlushLight, GoTo, EndTask, TaskTypeOK, dataVars, storeVars, OrderInv,
       ChunkOrder, TaskOrder
  <2>2. CASE TryBeginSavePreparation(t)
    BY <2>2, SMTT(30) DEF TryBeginSavePreparation, GoTo, EndTask, TaskTypeOK, dataVars, storeVars,
       OrderInv,
       ChunkOrder, TaskOrder
  <2>3. CASE TakeDirty(t)
    BY <2>3, ZenonT(30) DEF TakeDirty, GoTo, EndTask, TaskTypeOK, storeVars, OrderInv, ChunkOrder,
       TaskOrder
  <2>4. ASSUME NEW s \in Sections, CopySection(t, s)
        PROVE  OrderInv'
    <3>1. UNCHANGED <<mem, version, disk, pc, target>>
      BY <2>4, Zenon DEF CopySection, dataVars, storeVars
    <3>2. \A u \in SaveTasks : u # t => snap'[u] = snap[u]
      BY <2>4, Zenon DEF CopySection, TaskTypeOK
    <3>3. \A x \in Sections : snap'[t][x] \in {snap[t][x], mem[target[t]][x]}
      BY <2>4, Zenon DEF CopySection, TaskTypeOK
    <3>4. \A x \in Sections : mem[target[t]][x] <= mem[target[t]][x]
      BY VersionNat, Zenon DEF DataTypeOK, TaskTypeOK, Content
    <3>5. pc[t] = "copying"
      BY <2>4, Zenon DEF CopySection
    <3>6. TaskOrder(t)'
      BY <3>1, <3>3, <3>4, <3>5, Zenon DEF OrderInv, TaskOrder, ChunkOrder, TaskTypeOK
    <3>7. \A u \in SaveTasks : u # t => TaskOrder(u)'
      BY <3>1, <3>2, Zenon DEF OrderInv, TaskOrder
    <3> QED
      BY <3>1, <3>6, <3>7, ZenonT(30) DEF OrderInv, ChunkOrder
  <2>5. CASE FinishPreparation(t) \/ AbandonPreparation(t)
    BY ZenonT(60), <2>5 DEF FinishPreparation, AbandonPreparation, GoTo, EndTask, TaskTypeOK, storeVars,
       OrderInv, ChunkOrder, TaskOrder
  <2>6. CASE SaveSucceeds(t)
    <3>1. \A u \in SaveTasks : u # t /\ pc[u] # "idle" => target[u] # target[t]
      BY <2>6, Zenon DEF SaveSucceeds, OneSavePerHolder
    <3>2. UNCHANGED <<mem, version, target>> /\ disk' = [disk EXCEPT ![target[t]] = snap[t]]
      BY <2>6, Zenon DEF SaveSucceeds, EndTask, dataVars
    <3>3. pc' = [pc EXCEPT ![t] = "idle"] /\ snap' = [snap EXCEPT ![t] = NothingRead]
      BY <2>6, Zenon DEF SaveSucceeds, EndTask
    <3>4. pc[t] # "idle" /\ \A s \in Sections : snap[t][s] # Unread
      BY <2>6, Zenon DEF SaveSucceeds, SnapshotInv, SnapshotOf
    <3>5. ChunkOrder(target[t])'
      BY <3>2, <3>4, Zenon DEF OrderInv, ChunkOrder, TaskOrder, DataTypeOK, TaskTypeOK
    <3>6. \A d \in Chunks : d # target[t] => ChunkOrder(d)'
      BY <3>2, Zenon DEF OrderInv, ChunkOrder, DataTypeOK
    <3>7. \A u \in SaveTasks : TaskOrder(u)'
      BY <3>1, <3>2, <3>3, Zenon DEF OrderInv, TaskOrder, DataTypeOK, TaskTypeOK
    <3> QED
      BY <3>2, <3>5, <3>6, <3>7, ZenonT(30) DEF OrderInv
  <2> QED
    BY <1>5, <2>1, <2>2, <2>3, <2>4, <2>5, <2>6, Zenon DEF SaveTask
<1>6. ASSUME NEW c \in Chunks, SaveAllOne(c)
      PROVE  OrderInv'
  <2>1. (\A t \in SaveTasks : pc[t] = "idle") /\ UNCHANGED <<mem, version, pc, target, snap>>
    BY <1>6, Zenon DEF SaveAllOne, QuietInv, TasksDrained, taskVars
  <2>2. CASE disk' = [disk EXCEPT ![c] = mem[c]]
    <3>1. \A s \in Sections : mem[c][s] <= mem[c][s]
      BY VersionNat, Zenon DEF DataTypeOK, Content
    <3> QED
      BY <2>1, <2>2, <3>1, ZenonT(30) DEF OrderInv, ChunkOrder, TaskOrder, DataTypeOK
  <2>3. CASE UNCHANGED disk
    BY <2>1, <2>3, ZenonT(30) DEF OrderInv, ChunkOrder, TaskOrder
  <2> QED
    BY <1>6, <2>2, <2>3, Zenon DEF SaveAllOne
<1>7. ASSUME (\E c \in Chunks : ReleaseChunk(c)) \/ Shutdown \/ StartSaveAll \/ CloseAll \/ UNCHANGED vars
      PROVE  UNCHANGED <<mem, version, disk, pc, target, snap>>
  BY <1>7, Zenon DEF ReleaseChunk, Shutdown, StartSaveAll, CloseAll, vars, holderVars, dataVars,
     taskVars,
     storeVars, runVars
<1> QED
  BY <1>1, <1>2, <1>3, <1>4, <1>5, <1>6, <1>7, Zenon DEF Next

\* Only a save changes what is stored.
LEMMA DiskUnchanged ==
    ASSUME [Next]_vars
    PROVE  \/ UNCHANGED disk
           \/ \E t \in SaveTasks : SaveSucceeds(t)
           \/ \E c \in Chunks : SaveAllOne(c)
<1>1. ASSUME NEW c \in Chunks, LightWriter(c)
      PROVE  UNCHANGED disk
  BY <1>1, LightWriterFrame, Zenon
<1>2. ASSUME NEW c \in Chunks, Producer(c)
      PROVE  UNCHANGED disk
  BY <1>2, ProducerFrame, Zenon
<1>3. ASSUME NEW c \in Chunks, GameThread(c) \/ ReleaseChunk(c)
      PROVE  UNCHANGED disk
  BY <1>3, GameThreadFrame, Zenon DEF ReleaseChunk
<1>4. ASSUME NEW t \in SaveTasks, SaveTask(t)
      PROVE  UNCHANGED disk \/ SaveSucceeds(t)
  BY Zenon, <1>4 DEF SaveTask, FlushLight, TryBeginSavePreparation, TakeDirty, CopySection,
     FinishPreparation, AbandonPreparation, SaveFails, storeVars
<1>5. CASE Shutdown \/ StartSaveAll \/ CloseAll
  BY <1>5, Zenon DEF Shutdown, StartSaveAll, CloseAll, storeVars
<1>6. CASE UNCHANGED vars
  BY <1>6, Zenon DEF vars
<1> QED
  BY <1>1, <1>2, <1>3, <1>4, <1>5, <1>6, Zenon DEF Next

-----------------------------------------------------------------------------
(* The theorems.                                                           *)

\* The initial state, with no holder in memory and nothing stored, satisfies
\* the invariant.
LEMMA InitIInv == Init => IInv
<1> SUFFICES ASSUME Init
             PROVE  IInv
  OBVIOUS
<1>1. TypeOK
  BY VersionType, Zenon DEF Init, TypeOK, HolderTypeOK, DataTypeOK, FlagTypeOK, TaskTypeOK, RunTypeOK,
     MapState, Lifecycle, LightState, ProducerState, TaskState, NoData, NothingRead, Content
<1>2. OneSavePerHolder /\ HandlesBalanced /\ NoLostUpdate
  BY DEF Init, OneSavePerHolder, HandlesBalanced, NoLostUpdate
<1>3. ReferencesInv /\ QuietInv /\ LifecycleInv
  BY Zenon DEF Init, ReferencesInv, QuietInv, LifecycleInv, HasHolder
<1>4. SnapshotInv /\ CleanInv
  BY Zenon DEF Init, SnapshotInv, SnapshotOf, CleanInv, CleanChunk, HasHolder
<1>5. OrderInv
  BY MaxVersionAssumption DEF Init, OrderInv, ChunkOrder, TaskOrder, NoData
<1> QED
  BY <1>1, <1>2, <1>3, <1>4, <1>5, Zenon DEF IInv

\* IInv, the inductive invariant, holds in every reachable state: a clean chunk is in storage or on
\* its way there, whoever refers to its holder.
THEOREM Invariance == Spec => []IInv
<1>1. IInv /\ [Next]_vars => IInv'
  BY HolderTypeStep, DataTypeStep, FlagTypeStep, TaskTypeStep, RunTypeStep, OneSaveStep,
     ReferencesStep, QuietStep, HandlesStep, LifecycleStep, SnapshotStep,
     CleanStep, NoLostUpdateStep, OrderStep, Zenon DEF IInv, TypeOK
<1> QED
  BY InitIInv, <1>1, PTL DEF Spec

\* TypeOK: the variables keep their types, for any chunks, sections, tasks and bounds.
THEOREM TypeCorrect == Spec => []TypeOK
BY Invariance, PTL DEF IInv

\* NoLostUpdate: process_unloads never drops an update that was marked dirty.
THEOREM NothingLost == Spec => []NoLostUpdate
BY Invariance, PTL DEF IInv

\* OneSavePerHolder: the strong-count test of process_unloads excludes a second save.
THEOREM SavesExclusive == Spec => []OneSavePerHolder
BY Invariance, PTL DEF IInv

\* HandlesBalanced: acquire_chunk and release_chunk calls match.
THEOREM HandlesMatch == Spec => []HandlesBalanced
BY Invariance, PTL DEF IInv

\* NoTornSnapshot: no snapshot that the game thread overlapped is written.
THEOREM SnapshotsWhole == Spec => []NoTornSnapshot
<1>1. IInv => NoTornSnapshot
  BY Zenon DEF IInv, LifecycleInv, NoTornSnapshot
<1> QED
  BY Invariance, <1>1, PTL

\* ShutdownSavesAll: a clean shutdown leaves no clean chunk unsaved.
THEOREM ShutdownComplete == Spec => []ShutdownSavesAll
<1>1. IInv => ShutdownSavesAll
  BY Zenon DEF IInv, QuietInv, TasksDrained, LightFlushed, TouchesChunk, CleanInv, CleanChunk, Pending,
     TasksOf, ShutdownSavesAll
<1> QED
  BY Invariance, <1>1, PTL

\* StorageMovesForward: no save puts older data over newer data.
THEOREM StorageMonotonic == Spec => StorageMovesForward
<1>1. IInv /\ [Next]_vars =>
        [\A c \in Chunks : \A s \in Sections : disk'[c][s] >= disk[c][s]]_vars
  <2> SUFFICES ASSUME IInv, [Next]_vars
               PROVE  \A c \in Chunks : \A s \in Sections : disk'[c][s] >= disk[c][s]
    OBVIOUS
  <2>1. CASE UNCHANGED disk
    BY <2>1, VersionNat, Zenon DEF IInv, TypeOK, DataTypeOK, Content
  <2>2. ASSUME NEW t \in SaveTasks, SaveSucceeds(t)
        PROVE  \A c \in Chunks : \A s \in Sections : disk'[c][s] >= disk[c][s]
    <3>1. disk' = [disk EXCEPT ![target[t]] = snap[t]]
      BY <2>2, Zenon DEF SaveSucceeds
    <3>2. \A s \in Sections : snap[t][s] >= disk[target[t]][s]
      BY <2>2, ZenonT(30) DEF SaveSucceeds, IInv, SnapshotInv, SnapshotOf, OrderInv, TaskOrder
    <3> QED
      BY <3>1, <3>2, VersionNat, Zenon DEF IInv, TypeOK, DataTypeOK, Content
  <2>3. ASSUME NEW c \in Chunks, SaveAllOne(c)
        PROVE  \A d \in Chunks : \A s \in Sections : disk'[d][s] >= disk[d][s]
    <3>1. UNCHANGED disk \/ disk' = [disk EXCEPT ![c] = mem[c]]
      BY <2>3, Zenon DEF SaveAllOne
    <3>2. \A s \in Sections : mem[c][s] >= disk[c][s]
      BY Zenon DEF IInv, OrderInv, ChunkOrder, TypeOK, DataTypeOK, Content
    <3> QED
      BY <3>1, <3>2, <2>1, VersionNat, ZenonT(30) DEF IInv, TypeOK, DataTypeOK, Content
  <2>4. UNCHANGED disk \/ (\E t \in SaveTasks : SaveSucceeds(t)) \/ (\E c \in Chunks : SaveAllOne(c))
    BY DiskUnchanged, Zenon
  <2> QED
    BY <2>1, <2>2, <2>3, <2>4, Zenon
<1> QED
  BY Invariance, <1>1, PTL DEF Spec, StorageMovesForward
=============================================================================
