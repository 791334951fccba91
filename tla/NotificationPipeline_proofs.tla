--------------------- MODULE NotificationPipeline_proofs ---------------------
(* Typing of the pipeline, and its main promises: no event behind the        *)
(* checkpoint is forgotten, windows are flushed in time and never overlap;   *)
(* what the followers of operator groups are told of a block; and that the   *)
(* figures of messages are the chain's, with no change between two messages. *)
EXTENDS MCNotifications, Sequences, WellFoundedInduction, FiniteSetTheorems, FunctionTheorems,
        SequenceTheorems, TLAPS

LEMMA NewWindowType ==
  ASSUME NEW e \in Events, RouteOf[e] \in Keys
  PROVE  /\ NewWindow(e) \in WindowRecords
         /\ NewWindow(e).start = BlockOf[e]
         /\ NewWindow(e).end >= BlockOf[e]
  <1>1. BlockOf[e] \in Nat /\ WindowBlocks[RouteOf[e]] \in Nat \ {0}
    BY EventAssumption
  <1> QED
    BY <1>1 DEF NewWindow, WindowRecords

(* The window an event is added to is a pending one, or new.                 *)
LEMMA WindowForCases ==
  ASSUME NEW e, NEW windows
  PROVE  \/ WindowFor(windows, e) \in PendingFor(windows, RouteOf[e], BlockOf[e])
         \/ /\ PendingFor(windows, RouteOf[e], BlockOf[e]) = {}
            /\ WindowFor(windows, e) = NewWindow(e)
  BY DEF WindowFor

LEMMA WindowForType ==
  ASSUME NEW e \in Events, RouteOf[e] \in Keys, NEW windows \in SUBSET WindowRecords
  PROVE  /\ WindowFor(windows, e) \in WindowRecords
         /\ WithEvent(WindowFor(windows, e), e) \in WindowRecords
  <1>1. WindowFor(windows, e) \in WindowRecords
    BY WindowForCases, NewWindowType DEF PendingFor
  <1> QED
    BY <1>1 DEF WithEvent, WindowRecords

LEMMA EmitType ==
  ASSUME TypeOK, NEW ns \in SUBSET Notifications, Emit(ns)
  PROVE  /\ queue' \in SUBSET Notifications
         /\ notified' \in SUBSET Events /\ repeated' \in SUBSET Events
  BY DEF TypeOK, Emit, Notifications

LEMMA NotificationType ==
  ASSUME NEW route \in Keys \cup {Direct, Digest}, NEW es \in SUBSET Events
  PROVE  Notification(route, es) \in Notifications
  BY DEF Notification, Notifications

(* Every step keeps the types of bot_data, the jobs and the notifications.   *)
THEOREM TypeCorrect == Spec => []TypeOK
  <1>1. Init => TypeOK
    <2> SUFFICES ASSUME Init
                 PROVE  TypeOK
      OBVIOUS
    <2>1. data \in BotData /\ saved = data
      BY EventAssumption DEF Init, BotData, NeverCompleted
    <2>2. scheduled \in BOOLEAN
      BY DEF Init
    <2>3. at \in 1..(MaxBlock + 1) /\ due \in 0..MaxDay /\ digests \in [0..MaxDay -> Nat]
          /\ restarts \in 0..MaxRestarts /\ reconnects \in 0..MaxReconnects
      BY EventAssumption DEF Init
    <2> QED
      BY <2>1, <2>2, <2>3 DEF Init, TypeOK
  <1>2. TypeOK /\ [Next]_vars => TypeOK'
    <2> SUFFICES ASSUME TypeOK, [Next]_vars
                 PROVE  TypeOK'
      OBVIOUS
    <2>a. \A e \in Events : BlockOf[e] \in 1..MaxBlock
      BY EventAssumption
    <2>1. ASSUME NEW e \in Events, HandleDirect(e)
          PROVE  TypeOK'
      <3>1. {Notification(Direct, {e})} \in SUBSET Notifications
        BY NotificationType
      <3> QED
        BY <2>1, <3>1, EmitType
        DEF TypeOK, HandleDirect, HandOver, jobVars, endVars, boundVars
    <2>2. ASSUME NEW e \in Events, HandleAggregated(e)
          PROVE  TypeOK'
      <3>1. data' \in BotData
        BY <2>2, WindowForType
        DEF TypeOK, HandleAggregated, BotData, Upsert, Discard
      <3> QED
        BY <2>2, <3>1
        DEF TypeOK, HandleAggregated, HandOver, jobVars, endVars, boundVars
    <2>3. ASSUME NEW e \in Events, HandleDigest(e)
          PROVE  TypeOK'
      <3>1. data' \in BotData
        BY <2>3 DEF TypeOK, HandleDigest, BotData
      <3> QED
        BY <2>3, <3>1
        DEF TypeOK, HandleDigest, HandOver, jobVars, endVars, boundVars
    <2>4. CASE NextBlockOfBatch
      BY <2>4, EventAssumption
      DEF TypeOK, NextBlockOfBatch, jobVars, endVars, pastVars, boundVars
    <2>5. CASE BlockCompleted
      <3>1. {Notification(w.key, w.events) : w \in Ready(data.windows, at)} \in SUBSET Notifications
        BY NotificationType DEF TypeOK, BotData, WindowRecords, Ready
      <3>2. data' \in BotData
        <4>1. (IF data.checkpoint > at THEN data.checkpoint ELSE at) \in 0..MaxBlock
          BY <2>5, EventAssumption DEF TypeOK, BlockCompleted, BlockDelivered, BotData
        <4>2. data.windows \ Ready(data.windows, at) \in SUBSET WindowRecords
          BY DEF TypeOK, BotData
        <4> QED
          BY <2>5, <4>1, <4>2 DEF TypeOK, BlockCompleted, BotData
      <3>3. at' \in 1..(MaxBlock + 1)
        BY <2>5, EventAssumption DEF TypeOK, BlockCompleted, BlockDelivered
      <3> QED
        BY <2>5, <3>1, <3>2, <3>3, EmitType
        DEF TypeOK, BlockCompleted, jobVars, endVars, boundVars
    <2>6. CASE Reconnected
      <3>1. at' \in 1..(MaxBlock + 1) /\ reconnects' \in 0..MaxReconnects
        BY <2>6, EventAssumption DEF TypeOK, BotData, Reconnected, ResumeBlock
      <3> QED
        BY <2>6, <3>1 DEF TypeOK, Reconnected, jobVars, endVars, pastVars
    <2>7. CASE ScheduleJobs
      <3>1. data' \in BotData
        <4>1. due \in 0..NeverCompleted
          BY EventAssumption DEF TypeOK, NeverCompleted
        <4> QED
          BY <2>7, <4>1 DEF TypeOK, ScheduleJobs, BotData
      <3>2. job' \in SUBSET Jobs
        BY <2>7 DEF TypeOK, ScheduleJobs, RecoveryJobs, Jobs
      <3>3. scheduled' \in BOOLEAN
        BY <2>7 DEF ScheduleJobs
      <3> QED
        BY <2>7, <3>1, <3>2, <3>3
        DEF TypeOK, ScheduleJobs, feedVars, endVars, pastVars, boundVars
    <2>8. CASE DayPasses
      <3>1. due' \in 0..MaxDay /\ job' \in SUBSET Jobs
        BY <2>8, EventAssumption DEF TypeOK, DayPasses, Jobs
      <3> QED
        BY <2>8, <3>1 DEF TypeOK, DayPasses, feedVars, endVars, pastVars, boundVars
    <2>9. ASSUME NEW j \in Jobs, JobStep(j)
          PROVE  TypeOK'
      <3>1. CASE JobSendsDigest(j)
        <4>1. (IF ReadyDigest = {} THEN {} ELSE {Notification(Digest, ReadyDigest)})
                \in SUBSET Notifications
          <5>1. ReadyDigest \in SUBSET Events
            BY DEF TypeOK, BotData, ReadyDigest
          <5> QED
            BY <5>1, NotificationType
        <4>2. data' \in BotData
          <5>1. due \in 0..NeverCompleted
            BY EventAssumption DEF TypeOK, NeverCompleted
          <5>2. data.digest \ ReadyDigest \in SUBSET Events
            BY DEF TypeOK, BotData
          <5> QED
            BY <3>1, <5>1, <5>2 DEF TypeOK, JobSendsDigest, FlushDigest, BotData
        <4>3. digests' \in [0..MaxDay -> Nat] /\ job' \in SUBSET Jobs
          BY <3>1 DEF TypeOK, JobSendsDigest, FlushDigest
        <4> QED
          BY <3>1, <4>1, <4>2, <4>3, EmitType
          DEF TypeOK, JobSendsDigest, FlushDigest, feedVars, endVars, boundVars
      <3>2. CASE JobFindsDone(j)
        BY <3>2 DEF TypeOK, JobFindsDone, feedVars, endVars, pastVars, boundVars
      <3> QED
        BY <2>9, <3>1, <3>2 DEF JobStep
    <2>10. ASSUME NEW n \in queue, Deliver(n) \/ RenderingFails(n)
           PROVE  TypeOK'
      BY <2>10
      DEF TypeOK, Deliver, RenderingFails, Notifications, feedVars, jobVars, pastVars, boundVars
    <2>11. CASE Persist
      BY <2>11 DEF TypeOK, Persist, feedVars, jobVars, endVars, pastVars, boundVars
    <2>12. CASE Crash \/ ShutdownAndRestart
      <3>1. data' \in BotData /\ saved' \in BotData
        BY <2>12 DEF TypeOK, Crash, ShutdownAndRestart, StartsFrom
      <3>2. at' = data'.checkpoint + 1
        BY <2>12 DEF Crash, ShutdownAndRestart, StartsFrom, ResumeBlock
      <3>3. at' \in 1..(MaxBlock + 1) /\ restarts' \in 0..MaxRestarts
        <4>1. data'.checkpoint \in 0..MaxBlock
          BY <3>1 DEF BotData
        <4>2. at' \in 1..(MaxBlock + 1)
          BY <3>2, <4>1, EventAssumption
        <4>3. restarts < MaxRestarts /\ restarts' = restarts + 1
          BY <2>12 DEF Crash, ShutdownAndRestart, StartsFrom
        <4>4. restarts \in 0..MaxRestarts
          BY DEF TypeOK
        <4>5. restarts' \in 0..MaxRestarts
          BY <4>3, <4>4, EventAssumption
        <4> QED
          BY <4>2, <4>5
      <3>4. lost' \in SUBSET Events
        BY <2>12 DEF TypeOK, Notifications, Crash, ShutdownAndRestart
      <3>5. digests' \in [0..MaxDay -> Nat]
        BY <2>12 DEF Crash, ShutdownAndRestart, StartsFrom
      <3>6. scheduled' \in BOOLEAN
        BY <2>12 DEF Crash, ShutdownAndRestart, StartsFrom
      <3> QED
        BY <2>12, <3>1, <3>3, <3>4, <3>5, <3>6 DEF TypeOK, Crash, ShutdownAndRestart, StartsFrom
    <2>13. CASE UNCHANGED vars
      BY <2>13 DEF TypeOK, vars, feedVars, jobVars, endVars, pastVars, boundVars
    <2> QED
      BY <2>1, <2>2, <2>3, <2>4, <2>5, <2>6, <2>7, <2>8, <2>9, <2>10, <2>11, <2>12, <2>13
      DEF Next, Feed, HandleEvent, QueueStep
  <1> QED
    BY <1>1, <1>2, PTL DEF Spec

-----------------------------------------------------------------------------
(* No event is forgotten.  The invariant: everything handed over so far is   *)
(* pending in bot_data or has left it through the queue, the feed is ahead   *)
(* of the checkpoint, and bot_data holds one window per key and block range  *)
(* (the windows are a dictionary), so that Upsert replaces only the window   *)
(* the event was added to.                                                   *)
Out == Queued \cup sent \cup lost

HandedOver == \A e \in Events : BlockOf[e] < at \/ e \in seen => e \in PendingIn(data) \cup Out

Unique(windows) == \A w, v \in windows : SameWindow(w, v) => w = v

FeedInv ==
  /\ data.checkpoint < at
  /\ HandedOver /\ Accounted(saved)
  /\ Unique(data.windows) /\ Unique(saved.windows)

(* What left bot_data stays accounted for, even through a crash.             *)
LEMMA OutGrows == [Next]_vars => Out \subseteq Out'
  <1> SUFFICES ASSUME [Next]_vars
               PROVE  Out \subseteq Out'
    OBVIOUS
  <1> USE DEF Out, Queued
  <1>1. ASSUME NEW e \in Events, HandleEvent(e)
        PROVE  Out \subseteq Out'
    BY <1>1
    DEF HandleEvent, HandleDirect, HandleAggregated, HandleDigest, HandOver, Emit, endVars
  <1>2. CASE NextBlockOfBatch \/ Reconnected \/ ScheduleJobs \/ DayPasses \/ Persist
    BY <1>2 DEF NextBlockOfBatch, Reconnected, ScheduleJobs, DayPasses, Persist, endVars
  <1>3. CASE BlockCompleted
    BY <1>3 DEF BlockCompleted, Emit, endVars
  <1>4. ASSUME NEW j \in Jobs, JobStep(j)
        PROVE  Out \subseteq Out'
    BY <1>4 DEF JobStep, JobSendsDigest, FlushDigest, JobFindsDone, Emit, endVars
  <1>5. ASSUME NEW n \in queue, Deliver(n) \/ RenderingFails(n)
        PROVE  Out \subseteq Out'
    BY <1>5 DEF Deliver, RenderingFails
  <1>6. CASE Crash \/ ShutdownAndRestart
    BY <1>6 DEF Crash, ShutdownAndRestart, StartsFrom
  <1>7. CASE UNCHANGED vars
    BY <1>7 DEF vars, endVars
  <1> QED
    BY <1>1, <1>2, <1>3, <1>4, <1>5, <1>6, <1>7 DEF Next, Feed, QueueStep

(* The notifications a step queues cover the events it takes from bot_data.  *)
LEMMA EmittedIsOut ==
  ASSUME NEW ns, Emit(ns)
  PROVE  \A n \in ns : n.events \subseteq Out'
  BY DEF Emit, Out, Queued

(* Adding an event to its window removes no event from the windows.          *)
LEMMA UpsertKeeps ==
  ASSUME NEW e \in Events, RouteOf[e] \in Keys, NEW windows \in SUBSET WindowRecords,
         Unique(windows), NEW new,
         new = Upsert(windows, WithEvent(WindowFor(windows, e), e))
  PROVE  /\ Unique(new)
         /\ (UNION {w.events : w \in windows}) \cup {e} \subseteq (UNION {w.events : w \in new})
  <1> DEFINE old  == WindowFor(windows, e)
             with == WithEvent(old, e)
  <1>1. old \in WindowRecords /\ with \in WindowRecords
    BY WindowForType
  <1>2. with.events = old.events \cup {e} /\ SameWindow(with, old)
    BY <1>1 DEF WithEvent, SameWindow, WindowRecords
  <1>3. ASSUME NEW v \in windows, SameWindow(v, with)
        PROVE  v.events \subseteq with.events
    <2>1. CASE old \in PendingFor(windows, RouteOf[e], BlockOf[e])
      BY <2>1, <1>2, <1>3 DEF PendingFor, Unique, SameWindow
    <2>2. CASE /\ PendingFor(windows, RouteOf[e], BlockOf[e]) = {}
               /\ old = NewWindow(e)
      <3>1. v.key = RouteOf[e] /\ v.start = BlockOf[e] /\ BlockOf[e] =< v.end
        BY <2>2, <1>2, <1>3, NewWindowType DEF SameWindow, NewWindow
      <3>2. v \in PendingFor(windows, RouteOf[e], BlockOf[e])
        BY <3>1, EventAssumption DEF PendingFor
      <3> QED
        BY <3>2, <2>2
    <2> QED
      BY <2>1, <2>2, WindowForCases
  <1>4. with \in new /\ \A v \in windows : SameWindow(v, with) \/ v \in new
    BY DEF Upsert, Discard
  <1>5. Unique(new)
    BY DEF Unique, Upsert, Discard, SameWindow
  <1> QED
    BY <1>2, <1>3, <1>4, <1>5

(* Except in a crash, what leaves bot_data goes to the queue.                *)
LEMMA PendingKept ==
  ASSUME TypeOK, Unique(data.windows), [Next]_vars, ~Crash
  PROVE  PendingIn(data) \subseteq PendingIn(data)' \cup Out'
  <1>0. data.windows \in SUBSET WindowRecords /\ data.digest \in SUBSET Events
    BY DEF TypeOK, BotData
  <1>1. ASSUME NEW e \in Events, HandleAggregated(e)
        PROVE  PendingIn(data) \subseteq PendingIn(data)'
    <2>1. data'.digest = data.digest
          /\ data'.windows = Upsert(data.windows, WithEvent(WindowFor(data.windows, e), e))
      BY <1>1 DEF HandleAggregated, TypeOK, BotData
    <2> QED
      BY <1>0, <1>1, <2>1, UpsertKeeps DEF HandleAggregated, PendingIn
  <1>2. ASSUME NEW e \in Events, HandleDirect(e) \/ HandleDigest(e)
        PROVE  PendingIn(data) \subseteq PendingIn(data)'
    BY <1>2 DEF HandleDirect, HandleDigest, PendingIn, TypeOK, BotData
  <1>3. CASE BlockCompleted
    <2> DEFINE ns == {Notification(w.key, w.events) : w \in Ready(data.windows, at)}
    <2>1. Emit(ns) /\ data'.digest = data.digest
          /\ data'.windows = data.windows \ Ready(data.windows, at)
      BY <1>3 DEF BlockCompleted, TypeOK, BotData
    <2>2. \A w \in Ready(data.windows, at) : Notification(w.key, w.events) \in ns
      OBVIOUS
    <2>3. \A w \in Ready(data.windows, at) : Notification(w.key, w.events).events \subseteq Out'
      BY <2>1, <2>2, EmittedIsOut
    <2>4. \A w \in Ready(data.windows, at) : w.events \subseteq Out'
      BY <2>3 DEF Notification
    <2> QED
      BY <2>1, <2>4 DEF PendingIn
  <1>4. ASSUME NEW j \in Jobs, JobSendsDigest(j)
        PROVE  PendingIn(data) \subseteq PendingIn(data)' \cup Out'
    <2>1. data'.digest = data.digest \ ReadyDigest /\ data'.windows = data.windows
      BY <1>4 DEF JobSendsDigest, FlushDigest, TypeOK, BotData
    <2>2. ReadyDigest \subseteq Out'
      <3>1. CASE ReadyDigest = {}
        BY <3>1
      <3>2. CASE ReadyDigest # {}
        <4>1. Emit({Notification(Digest, ReadyDigest)})
          BY <1>4, <3>2 DEF JobSendsDigest, FlushDigest
        <4>2. Notification(Digest, ReadyDigest).events \subseteq Out'
          BY <4>1, EmittedIsOut
        <4> QED
          BY <4>2 DEF Notification
      <3> QED
        BY <3>1, <3>2
    <2> QED
      BY <2>1, <2>2 DEF PendingIn
  <1>5. CASE ScheduleJobs
    BY <1>5 DEF ScheduleJobs, PendingIn, TypeOK, BotData
  <1>6. CASE \/ NextBlockOfBatch \/ Reconnected \/ DayPasses \/ Persist \/ ShutdownAndRestart
             \/ UNCHANGED vars
    BY <1>6 DEF NextBlockOfBatch, Reconnected, DayPasses, Persist, ShutdownAndRestart, StartsFrom,
                vars, PendingIn
  <1>7. ASSUME NEW j \in Jobs, JobFindsDone(j)
        PROVE  PendingIn(data) \subseteq PendingIn(data)'
    BY <1>7 DEF JobFindsDone, PendingIn
  <1>8. ASSUME NEW n \in queue, Deliver(n) \/ RenderingFails(n)
        PROVE  PendingIn(data) \subseteq PendingIn(data)'
    BY <1>8 DEF Deliver, RenderingFails, PendingIn
  <1> QED
    BY <1>1, <1>2, <1>3, <1>4, <1>5, <1>6, <1>7, <1>8
    DEF Next, Feed, HandleEvent, JobStep, QueueStep

LEMMA FeedInvInit == Init => FeedInv
  <1> SUFFICES ASSUME Init
               PROVE  FeedInv
    OBVIOUS
  <1>1. data = saved /\ data.windows = {} /\ data.checkpoint = 0 /\ at = 1 /\ seen = {}
    BY DEF Init
  <1>2. \A e \in Events : BlockOf[e] >= 1
    BY EventAssumption
  <1> QED
    BY <1>1, <1>2, EventAssumption DEF FeedInv, HandedOver, Accounted, Unique

LEMMA FeedInvStep == TypeOK /\ FeedInv /\ [Next]_vars => FeedInv'
  <1> SUFFICES ASSUME TypeOK, FeedInv, [Next]_vars
               PROVE  FeedInv'
    OBVIOUS
  <1>a. /\ data.windows \in SUBSET WindowRecords /\ saved.windows \in SUBSET WindowRecords
        /\ data.checkpoint \in Nat /\ saved.checkpoint \in Nat /\ at \in Nat
        /\ \A e \in Events : BlockOf[e] \in Nat
    BY EventAssumption DEF TypeOK, BotData
  <1>b. restarts' = restarts => PendingIn(data) \cup Out \subseteq PendingIn(data)' \cup Out'
    <2>1. restarts' = restarts => ~Crash
      BY DEF Crash, StartsFrom, TypeOK
    <2> QED
      BY <2>1, PendingKept, OutGrows DEF FeedInv
  <1>c. saved' = saved => Accounted(saved)' /\ Unique(saved'.windows)
    BY OutGrows DEF FeedInv, Accounted, Out, PendingIn
  <1>1. ASSUME NEW e \in Events, HandleAggregated(e)
        PROVE  FeedInv'
    <2>1. /\ data'.windows = Upsert(data.windows, WithEvent(WindowFor(data.windows, e), e))
          /\ data'.checkpoint = data.checkpoint
          /\ at' = at /\ seen' = seen \cup {e} /\ saved' = saved /\ restarts' = restarts
      BY <1>1 DEF HandleAggregated, HandOver, TypeOK, BotData, boundVars
    <2>2. Unique(data'.windows) /\ e \in PendingIn(data)'
      BY <1>a, <1>1, <2>1, UpsertKeeps DEF HandleAggregated, FeedInv, PendingIn
    <2> QED
      BY <1>a, <1>b, <1>c, <2>1, <2>2 DEF FeedInv, HandedOver
  <1>2. ASSUME NEW e \in Events, HandleDirect(e) \/ HandleDigest(e)
        PROVE  FeedInv'
    <2>1. /\ data'.windows = data.windows /\ data'.checkpoint = data.checkpoint
          /\ at' = at /\ seen' = seen \cup {e} /\ saved' = saved /\ restarts' = restarts
      BY <1>2 DEF HandleDirect, HandleDigest, HandOver, TypeOK, BotData, boundVars
    <2>2. e \in PendingIn(data)' \cup Out'
      <3>1. CASE HandleDirect(e)
        <4>1. Notification(Direct, {e}).events \subseteq Out'
          BY <3>1, EmittedIsOut DEF HandleDirect
        <4> QED
          BY <4>1 DEF Notification
      <3>2. CASE HandleDigest(e)
        BY <3>2 DEF HandleDigest, PendingIn, TypeOK, BotData
      <3> QED
        BY <1>2, <3>1, <3>2
    <2> QED
      BY <1>b, <1>c, <2>1, <2>2 DEF FeedInv, HandedOver
  <1>3. CASE NextBlockOfBatch
    <2>1. /\ data' = data /\ at' = at + 1 /\ seen' = {} /\ saved' = saved /\ restarts' = restarts
          /\ BlockDelivered
      BY <1>3 DEF NextBlockOfBatch, boundVars
    <2>2. \A e \in Events : BlockOf[e] < at' => BlockOf[e] < at \/ e \in seen
      BY <1>a, <2>1 DEF BlockDelivered
    <2> QED
      BY <1>a, <1>b, <1>c, <2>1, <2>2 DEF FeedInv, HandedOver
  <1>4. CASE BlockCompleted
    <2>1. /\ data'.windows = data.windows \ Ready(data.windows, at) /\ data'.checkpoint = at
          /\ at' = at + 1 /\ seen' = {} /\ saved' = saved /\ restarts' = restarts
          /\ BlockDelivered
      BY <1>a, <1>4 DEF BlockCompleted, TypeOK, BotData, boundVars, FeedInv
    <2>2. \A e \in Events : BlockOf[e] < at' => BlockOf[e] < at \/ e \in seen
      BY <1>a, <2>1 DEF BlockDelivered
    <2>3. Unique(data'.windows)
      BY <2>1 DEF FeedInv, Unique
    <2> QED
      BY <1>a, <1>b, <1>c, <2>1, <2>2, <2>3 DEF FeedInv, HandedOver
  <1>5. CASE Reconnected
    <2>1. /\ data' = data /\ at' = data.checkpoint + 1 /\ seen' = {}
          /\ saved' = saved /\ restarts' = restarts
      BY <1>5 DEF Reconnected, ResumeBlock
    <2>2. \A e \in Events : BlockOf[e] < at' => BlockOf[e] < at
      BY <1>a, <2>1 DEF FeedInv
    <2> QED
      BY <1>a, <1>b, <1>c, <2>1, <2>2 DEF FeedInv, HandedOver
  <1>6. ASSUME \/ ScheduleJobs \/ DayPasses \/ \E j \in Jobs : JobStep(j)
               \/ \E n \in queue : Deliver(n) \/ RenderingFails(n)
        PROVE  FeedInv'
    <2>1. /\ data'.windows = data.windows /\ data'.checkpoint = data.checkpoint
          /\ UNCHANGED <<at, seen, saved, restarts>>
      BY <1>6
      DEF ScheduleJobs, DayPasses, JobStep, JobSendsDigest, FlushDigest, JobFindsDone, Deliver,
          RenderingFails, feedVars, boundVars, TypeOK, BotData
    <2> QED
      BY <1>b, <1>c, <2>1 DEF FeedInv, HandedOver
  <1>7. CASE Persist
    <2>1. saved' = data /\ UNCHANGED <<data, at, seen, restarts>>
      BY <1>7 DEF Persist, feedVars, boundVars
    <2>2. \A e \in Events : BlockOf[e] =< data.checkpoint => BlockOf[e] < at
      BY <1>a DEF FeedInv
    <2>3. PendingIn(saved)' = PendingIn(data)'
      BY <2>1 DEF PendingIn
    <2>4. HandedOver'
      BY <1>b, <2>1 DEF FeedInv, HandedOver
    <2>5. Accounted(saved)'
      BY <2>1, <2>2, <2>3, <2>4 DEF Accounted, HandedOver, Out
    <2> QED
      BY <2>1, <2>4, <2>5 DEF FeedInv
  <1>8. CASE Crash
    <2>1. /\ data' = saved /\ saved' = saved
          /\ at' = saved.checkpoint + 1 /\ seen' = {}
      BY <1>8 DEF Crash, StartsFrom, ResumeBlock
    <2>2. \A e \in Events : BlockOf[e] < at' => BlockOf[e] =< saved.checkpoint
      BY <1>a, <2>1
    <2>3. Accounted(saved)' /\ PendingIn(saved)' = PendingIn(data)'
      BY <1>c, <2>1 DEF PendingIn
    <2>4. HandedOver'
      BY <2>1, <2>2, <2>3 DEF HandedOver, Accounted, Out
    <2> QED
      BY <1>a, <2>1, <2>3, <2>4 DEF FeedInv
  <1>9. CASE ShutdownAndRestart
    <2>1. /\ data' = data /\ saved' = data
          /\ at' = data.checkpoint + 1 /\ seen' = {}
      BY <1>9 DEF ShutdownAndRestart, StartsFrom, ResumeBlock
    <2>2. PendingIn(data)' = PendingIn(data) /\ PendingIn(saved)' = PendingIn(data)
      BY <2>1 DEF PendingIn
    <2>3. \A e \in Events : BlockOf[e] =< data.checkpoint => e \in PendingIn(data)' \cup Out'
      BY <1>a, <2>2, OutGrows DEF FeedInv, HandedOver
    <2>4. HandedOver'
      BY <1>a, <2>1, <2>3 DEF HandedOver
    <2>5. Accounted(saved)'
      BY <2>1, <2>2, <2>3 DEF Accounted, Out
    <2> QED
      BY <1>a, <2>1, <2>4, <2>5 DEF FeedInv
  <1>10. CASE UNCHANGED vars
    BY <1>b, <1>c, <1>10 DEF vars, feedVars, boundVars, FeedInv, HandedOver
  <1> QED
    BY <1>1, <1>2, <1>3, <1>4, <1>5, <1>6, <1>7, <1>8, <1>9, <1>10
    DEF Next, Feed, HandleEvent, QueueStep

LEMMA FeedInvariant == Spec => []FeedInv
  BY FeedInvInit, FeedInvStep, TypeCorrect, PTL DEF Spec

(* No event behind the checkpoint is forgotten, in memory or on disk.        *)
THEOREM NothingIsForgotten == Spec => []NothingForgotten
  <1>1. TypeOK /\ FeedInv => NothingForgotten
    <2> SUFFICES ASSUME TypeOK, FeedInv
                 PROVE  Accounted(data)
      BY DEF NothingForgotten, FeedInv
    <2>1. /\ data.checkpoint \in Nat /\ at \in Nat
          /\ \A e \in Events : BlockOf[e] \in Nat
      BY EventAssumption DEF TypeOK, BotData
    <2> QED
      BY <2>1 DEF FeedInv, HandedOver, Accounted, Out
  <1> QED
    BY <1>1, TypeCorrect, FeedInvariant, PTL

-----------------------------------------------------------------------------
(* Windows of one key never overlap and are flushed in time.  The invariant: *)
(* behind the first block of a window every event of its key that a replay   *)
(* can bring again has a window of its own, and so has every event handed    *)
(* over since the checkpoint; hence a new window starts behind all others.   *)
Covered(d, e) == \E v \in d.windows : v.key = RouteOf[e] /\ v.start =< BlockOf[e] /\ BlockOf[e] =< v.end

Ordered(d) ==
  \A w \in d.windows : \A e \in Events :
    RouteOf[e] = w.key /\ d.checkpoint < BlockOf[e] /\ BlockOf[e] < w.start => Covered(d, e)

Timely(d) == \A w \in d.windows : w.end > d.checkpoint

Collected ==
  \A e \in Events :
    RouteOf[e] \in Keys /\ data.checkpoint < BlockOf[e] /\ (BlockOf[e] < at \/ e \in seen)
      => Covered(data, e)

WindowInv ==
  /\ Timely(data) /\ Ordered(data) /\ Disjoint(data.windows)
  /\ Timely(saved) /\ Ordered(saved) /\ Disjoint(saved.windows)
  /\ Collected

(* How Upsert changes the ranges: the window of the event keeps the range of *)
(* a pending one, or is new and starts at the event.                         *)
LEMMA UpsertRanges ==
  ASSUME NEW e \in Events, RouteOf[e] \in Keys, NEW windows \in SUBSET WindowRecords,
         NEW new, new = Upsert(windows, WithEvent(WindowFor(windows, e), e)),
         NEW with, with = WithEvent(WindowFor(windows, e), e)
  PROVE  /\ with \in new /\ with.key = RouteOf[e]
         /\ with.start =< BlockOf[e] /\ BlockOf[e] =< with.end
         /\ \A u \in new : u = with \/ (u \in windows /\ ~SameWindow(u, with))
         /\ \A v \in windows : \E u \in new : SameWindow(u, v)
         /\ \/ \E old \in windows : SameWindow(with, old)
            \/ /\ PendingFor(windows, RouteOf[e], BlockOf[e]) = {}
               /\ with.start = BlockOf[e]
  <1> DEFINE old == WindowFor(windows, e)
  <1>1. old \in WindowRecords /\ with \in WindowRecords
    BY WindowForType
  <1>2. with.key = old.key /\ with.start = old.start /\ with.end = old.end
    BY <1>1 DEF WithEvent, WindowRecords
  <1>3. \/ old \in windows /\ old.key = RouteOf[e] /\ old.start =< BlockOf[e] /\ BlockOf[e] =< old.end
        \/ /\ PendingFor(windows, RouteOf[e], BlockOf[e]) = {}
           /\ old.key = RouteOf[e] /\ old.start = BlockOf[e] /\ BlockOf[e] =< old.end
    <2>1. NewWindow(e).key = RouteOf[e] /\ NewWindow(e).start = BlockOf[e]
          /\ BlockOf[e] =< NewWindow(e).end
      BY NewWindowType, EventAssumption DEF NewWindow, WindowRecords
    <2> QED
      BY <2>1, WindowForCases DEF PendingFor
  <1>4. with \in new /\ \A u \in new : u = with \/ (u \in windows /\ ~SameWindow(u, with))
    BY DEF Upsert, Discard
  <1>5. \A v \in windows : \E u \in new : SameWindow(u, v)
    BY DEF Upsert, Discard, SameWindow
  <1>6. BlockOf[e] \in Nat
    BY EventAssumption
  <1> QED
    BY <1>2, <1>3, <1>4, <1>5, <1>6 DEF SameWindow

LEMMA WindowInvInit == Init => WindowInv
  <1> SUFFICES ASSUME Init
               PROVE  WindowInv
    OBVIOUS
  <1>1. data = saved /\ data.windows = {} /\ data.checkpoint = 0 /\ at = 1 /\ seen = {}
    BY DEF Init
  <1>2. \A e \in Events : BlockOf[e] \in Nat /\ BlockOf[e] >= 1
    BY EventAssumption
  <1> QED
    BY <1>1, <1>2 DEF WindowInv, Timely, Ordered, Disjoint, Collected

LEMMA WindowInvStep == TypeOK /\ FeedInv /\ WindowInv /\ [Next]_vars => WindowInv'
  <1> SUFFICES ASSUME TypeOK, FeedInv, WindowInv, [Next]_vars
               PROVE  WindowInv'
    OBVIOUS
  <1>a. /\ data.windows \in SUBSET WindowRecords /\ saved.windows \in SUBSET WindowRecords
        /\ data.checkpoint \in Nat /\ saved.checkpoint \in Nat /\ at \in Nat
        /\ \A e \in Events : BlockOf[e] \in Nat
        /\ \A w \in WindowRecords : w.start \in Nat /\ w.end \in Nat
    BY EventAssumption DEF TypeOK, BotData, WindowRecords
  <1>b. data.checkpoint < at
    BY DEF FeedInv
  <1>1. ASSUME NEW e \in Events, HandleAggregated(e)
        PROVE  WindowInv'
    <2> DEFINE with == WithEvent(WindowFor(data.windows, e), e)
    <2>1. /\ data'.windows = Upsert(data.windows, with) /\ data'.checkpoint = data.checkpoint
          /\ at' = at /\ seen' = seen \cup {e} /\ saved' = saved
          /\ BlockOf[e] = at /\ RouteOf[e] \in Keys
      BY <1>1 DEF HandleAggregated, HandOver, TypeOK, BotData
    <2>2. /\ with \in data'.windows /\ with.key = RouteOf[e]
          /\ with.start =< BlockOf[e] /\ BlockOf[e] =< with.end
          /\ \A u \in data'.windows : u = with \/ (u \in data.windows /\ ~SameWindow(u, with))
          /\ \A v \in data.windows : \E u \in data'.windows : SameWindow(u, v)
      BY <1>a, <2>1, UpsertRanges
    <2>3. \/ \E old \in data.windows : SameWindow(with, old)
          \/ /\ PendingFor(data.windows, RouteOf[e], BlockOf[e]) = {}
             /\ with.start = BlockOf[e]
      BY <1>a, <2>1, UpsertRanges
    <2>4. with \in WindowRecords
      BY <1>a, <2>1, WindowForType
    <2>5. \A f \in Events : Covered(data, f) => Covered(data, f)'
      BY <2>2 DEF Covered, SameWindow
    <2>6. Timely(data)'
      BY <1>a, <1>b, <2>1, <2>2, <2>4 DEF Timely, WindowInv
    <2>7. Collected'
      BY <2>1, <2>2, <2>5 DEF Collected, Covered, WindowInv
    <2>8. CASE \E old \in data.windows : SameWindow(with, old)
      <3>1. Ordered(data)'
        BY <2>1, <2>2, <2>5, <2>8 DEF Ordered, SameWindow, WindowInv
      <3>2. Disjoint(data'.windows)
        BY <2>2, <2>8 DEF Disjoint, SameWindow, WindowInv
      <3> QED
        BY <2>1, <2>6, <2>7, <3>1, <3>2 DEF WindowInv, Timely, Ordered, Covered
    <2>9. CASE /\ PendingFor(data.windows, RouteOf[e], BlockOf[e]) = {}
               /\ with.start = BlockOf[e]
      <3>1. ~Covered(data, e)
        BY <2>9 DEF Covered, PendingFor
      <3>2. \A v \in data.windows : v.key = RouteOf[e] => v.end < with.start
        BY <1>a, <1>b, <2>1, <2>9, <3>1 DEF Covered, Ordered, WindowInv
      <3>3. Disjoint(data'.windows)
        BY <2>2, <3>2 DEF Disjoint, WindowInv
      <3>4. Ordered(data)'
        BY <1>a, <2>1, <2>2, <2>5, <2>9 DEF Ordered, Collected, WindowInv
      <3> QED
        BY <2>1, <2>6, <2>7, <3>3, <3>4 DEF WindowInv, Timely, Ordered, Covered
    <2> QED
      BY <2>3, <2>8, <2>9
  <1>2. CASE BlockCompleted
    <2>1. /\ data'.windows = data.windows \ Ready(data.windows, at) /\ data'.checkpoint = at
          /\ at' = at + 1 /\ seen' = {} /\ saved' = saved
      BY <1>a, <1>b, <1>2 DEF BlockCompleted, TypeOK, BotData
    <2>2. \A w \in data'.windows : w \in data.windows /\ w.end > at
      BY <1>a, <2>1 DEF Ready
    <2>3. \A f \in Events : Covered(data, f) /\ BlockOf[f] > at => Covered(data, f)'
      BY <1>a, <2>1 DEF Covered, Ready
    <2>4. Timely(data)' /\ Disjoint(data'.windows)
      BY <2>1, <2>2 DEF Timely, Disjoint, WindowInv
    <2>5. Ordered(data)'
      BY <1>a, <1>b, <2>1, <2>2, <2>3 DEF Ordered, WindowInv
    <2>6. Collected'
      BY <1>a, <2>1 DEF Collected
    <2> QED
      BY <2>1, <2>4, <2>5, <2>6 DEF WindowInv, Timely, Ordered, Covered
  <1>3. ASSUME NEW e \in Events, HandleDirect(e) \/ HandleDigest(e)
        PROVE  WindowInv'
    <2>1. /\ data'.windows = data.windows /\ data'.checkpoint = data.checkpoint
          /\ at' = at /\ seen' = seen \cup {e} /\ saved' = saved
          /\ RouteOf[e] \notin Keys
      BY <1>3, EventAssumption DEF HandleDirect, HandleDigest, HandOver, TypeOK, BotData
    <2> QED
      BY <2>1 DEF WindowInv, Timely, Ordered, Disjoint, Collected, Covered
  <1>4. CASE NextBlockOfBatch
    <2>1. data' = data /\ at' = at + 1 /\ seen' = {} /\ saved' = saved /\ BlockDelivered
      BY <1>4 DEF NextBlockOfBatch
    <2>2. \A e \in Events : BlockOf[e] < at' => BlockOf[e] < at \/ e \in seen
      BY <1>a, <2>1 DEF BlockDelivered
    <2> QED
      BY <2>1, <2>2 DEF WindowInv, Timely, Ordered, Disjoint, Collected, Covered
  <1>5. CASE Reconnected \/ ShutdownAndRestart
    <2>1. /\ data' = data /\ at' = data.checkpoint + 1 /\ seen' = {}
          /\ saved' \in {saved, data}
      BY <1>5 DEF Reconnected, ShutdownAndRestart, StartsFrom, ResumeBlock
    <2> QED
      BY <1>a, <2>1 DEF WindowInv, Timely, Ordered, Disjoint, Collected, Covered
  <1>6. CASE Crash
    <2>1. data' = saved /\ saved' = saved /\ at' = saved.checkpoint + 1 /\ seen' = {}
      BY <1>6 DEF Crash, StartsFrom, ResumeBlock
    <2> QED
      BY <1>a, <2>1 DEF WindowInv, Timely, Ordered, Disjoint, Collected, Covered
  <1>7. CASE Persist \/ UNCHANGED vars
    <2>1. data' = data /\ saved' \in {saved, data} /\ at' = at /\ seen' = seen
      BY <1>7 DEF Persist, vars, feedVars
    <2> QED
      BY <2>1 DEF WindowInv, Timely, Ordered, Disjoint, Collected, Covered
  <1>8. ASSUME \/ ScheduleJobs \/ DayPasses \/ \E j \in Jobs : JobStep(j)
               \/ \E n \in queue : Deliver(n) \/ RenderingFails(n)
        PROVE  WindowInv'
    <2>1. /\ data'.windows = data.windows /\ data'.checkpoint = data.checkpoint
          /\ UNCHANGED <<at, seen, saved>>
      BY <1>8
      DEF ScheduleJobs, DayPasses, JobStep, JobSendsDigest, FlushDigest, JobFindsDone, Deliver,
          RenderingFails, feedVars, TypeOK, BotData
    <2> QED
      BY <2>1 DEF WindowInv, Timely, Ordered, Disjoint, Collected, Covered
  <1> QED
    BY <1>1, <1>2, <1>3, <1>4, <1>5, <1>6, <1>7, <1>8
    DEF Next, Feed, HandleEvent, QueueStep

LEMMA WindowInvariant == Spec => []WindowInv
  BY WindowInvInit, WindowInvStep, FeedInvariant, TypeCorrect, PTL DEF Spec

(* Whatever batches, replays and restarts bring, the checkpoint never passes *)
(* the end of a pending window, and windows of one key never overlap         *)
(* (handle_block, AggregationWindowStore.pending_for).                       *)
THEOREM WindowsAreSafe == Spec => []WindowsSound
  <1>1. WindowInv => WindowsSound
    BY DEF WindowInv, Timely, WindowsSound, WindowsFlushedInTime, WindowsDisjoint
  <1> QED
    BY <1>1, WindowInvariant, PTL

-----------------------------------------------------------------------------
(* One digest per due time: what was sent is marked completed, and the mark  *)
(* never runs ahead of the due times that came.                              *)
MarkBehind(d) == d.completed = NeverCompleted \/ d.completed =< due

DigestInv ==
  /\ \A d \in 0..MaxDay : digests[d] =< 1 /\ (digests[d] > 0 => Completed(d))
  /\ MarkBehind(data) /\ MarkBehind(saved)

LEMMA DigestInvInit == Init => DigestInv
  BY EventAssumption DEF Init, DigestInv, MarkBehind, NeverCompleted

LEMMA DigestInvStep == TypeOK /\ DigestInv /\ [Next]_vars => DigestInv'
  <1> SUFFICES ASSUME TypeOK, DigestInv, [Next]_vars
               PROVE  DigestInv'
    OBVIOUS
  <1>a. /\ MaxDay \in Nat /\ due \in 0..MaxDay /\ NeverCompleted = MaxDay + 1
        /\ data.completed \in 0..NeverCompleted /\ saved.completed \in 0..NeverCompleted
        /\ digests \in [0..MaxDay -> Nat]
    BY EventAssumption DEF TypeOK, BotData, NeverCompleted
  <1>1. CASE ScheduleJobs
    <2>1. /\ UNCHANGED <<digests, due, saved>>
          /\ \/ data'.completed = data.completed
             \/ data.completed = NeverCompleted /\ data'.completed = due
      BY <1>1 DEF ScheduleJobs, pastVars, TypeOK, BotData
    <2> QED
      BY <1>a, <2>1 DEF DigestInv, MarkBehind, Completed
  <1>2. ASSUME NEW j \in Jobs, JobSendsDigest(j)
        PROVE  DigestInv'
    <2>1. /\ ~Completed(due) /\ data'.completed = due /\ UNCHANGED <<due, saved>>
          /\ digests' = [digests EXCEPT ![due] = @ + 1]
      BY <1>2 DEF JobSendsDigest, FlushDigest, TypeOK, BotData
    <2>2. digests[due] = 0
      BY <1>a, <2>1 DEF DigestInv
    <2>3. \A d \in 0..MaxDay : digests'[d] > 0 => d =< due
      BY <1>a, <2>1, <2>2 DEF DigestInv, Completed, MarkBehind
    <2> QED
      BY <1>a, <2>1, <2>2, <2>3 DEF DigestInv, Completed, MarkBehind
  <1>3. CASE Crash \/ ShutdownAndRestart
    <2>1. /\ digests' = [d \in 0..MaxDay |-> 0] /\ due' = due
          /\ data' \in {data, saved} /\ saved' \in {data, saved}
      BY <1>3 DEF Crash, ShutdownAndRestart, StartsFrom
    <2> QED
      BY <1>a, <2>1 DEF DigestInv, MarkBehind
  <1>4. CASE DayPasses
    <2>1. due' = due + 1 /\ UNCHANGED <<data, saved, digests>>
      BY <1>4 DEF DayPasses, pastVars
    <2> QED
      BY <1>a, <2>1 DEF DigestInv, MarkBehind, Completed
  <1>5. CASE Persist
    <2>1. saved' = data /\ UNCHANGED <<data, due, digests>>
      BY <1>5 DEF Persist, jobVars, pastVars
    <2> QED
      BY <2>1 DEF DigestInv, MarkBehind, Completed
  <1>6. ASSUME \/ \E e \in Events : HandleEvent(e)
               \/ NextBlockOfBatch \/ BlockCompleted \/ Reconnected
               \/ \E j \in Jobs : JobFindsDone(j)
               \/ \E n \in queue : Deliver(n) \/ RenderingFails(n)
               \/ UNCHANGED vars
        PROVE  DigestInv'
    <2>1. data'.completed = data.completed /\ UNCHANGED <<saved, due, digests>>
      BY <1>6
      DEF HandleEvent, HandleDirect, HandleAggregated, HandleDigest, HandOver, NextBlockOfBatch,
          BlockCompleted, Reconnected, JobFindsDone, Deliver, RenderingFails, vars, jobVars,
          pastVars, TypeOK, BotData
    <2> QED
      BY <2>1 DEF DigestInv, MarkBehind, Completed
  <1> QED
    BY <1>1, <1>2, <1>3, <1>4, <1>5, <1>6 DEF Next, Feed, JobStep, QueueStep

(* The daily and the recovery job never send two digests for a due time.     *)
THEOREM DigestSentOnce == Spec => []OneDigestPerDueTime
  <1>1. DigestInv => OneDigestPerDueTime
    BY DEF DigestInv, OneDigestPerDueTime
  <1> QED
    BY <1>1, DigestInvInit, DigestInvStep, TypeCorrect, PTL DEF Spec

-----------------------------------------------------------------------------
(* Windows are whole.  The invariant: a window starts with one of its events *)
(* and has every event of its key and blocks that was handed over, so that   *)
(* it has them all when its last block completes.                            *)
InWindow(w, e) == RouteOf[e] = w.key /\ w.start =< BlockOf[e] /\ BlockOf[e] =< w.end

WellFormed(w) ==
  /\ w.end = w.start + WindowBlocks[w.key] - 1
  /\ \A e \in w.events : InWindow(w, e)
  /\ \E e \in w.events : BlockOf[e] = w.start

Routed(d) == /\ \A w \in d.windows : WellFormed(w)
             /\ \A e \in d.digest : RouteOf[e] = Digest

SeenNow == \A e \in seen : BlockOf[e] = at

HasAll ==
  \A w \in data.windows : \A e \in Events :
    InWindow(w, e) /\ (BlockOf[e] < at \/ e \in seen) => e \in w.events

SavedHasAll ==
  \A w \in saved.windows : \A e \in Events :
    InWindow(w, e) /\ BlockOf[e] =< saved.checkpoint => e \in w.events

WholeInv == Routed(data) /\ Routed(saved) /\ SeenNow /\ HasAll /\ SavedHasAll

LEMMA WithEventIs ==
  ASSUME NEW w \in WindowRecords, NEW e
  PROVE  LET v == WithEvent(w, e) IN
         v.events = w.events \cup {e} /\ v.key = w.key /\ v.start = w.start /\ v.end = w.end
  BY DEF WithEvent, WindowRecords

LEMMA WholeInvStep ==
  TypeOK /\ FeedInv /\ WindowInv /\ WholeInv /\ [Next]_vars => WholeInv'
  <1> SUFFICES ASSUME TypeOK, FeedInv, WindowInv, WholeInv, [Next]_vars
               PROVE  WholeInv'
    OBVIOUS
  <1>a. /\ data.windows \in SUBSET WindowRecords /\ saved.windows \in SUBSET WindowRecords
        /\ data.checkpoint \in Nat /\ saved.checkpoint \in Nat /\ at \in Nat
        /\ \A e \in Events : BlockOf[e] \in Nat
        /\ \A w \in WindowRecords : w.start \in Nat /\ w.end \in Nat /\ w.key \in Keys
        /\ seen \in SUBSET Events
    BY EventAssumption DEF TypeOK, BotData, WindowRecords
  <1>b. data.checkpoint < at
    BY DEF FeedInv
  <1>1. ASSUME NEW e \in Events, HandleAggregated(e)
        PROVE  WholeInv'
    <2> DEFINE old  == WindowFor(data.windows, e)
               with == WithEvent(old, e)
    <2>1. /\ data'.windows = Upsert(data.windows, with) /\ data'.checkpoint = data.checkpoint
          /\ data'.digest = data.digest
          /\ at' = at /\ seen' = seen \cup {e} /\ saved' = saved
          /\ BlockOf[e] = at /\ RouteOf[e] \in Keys
      BY <1>1 DEF HandleAggregated, HandOver, TypeOK, BotData
    <2>2. \A u \in data'.windows : u = with \/ (u \in data.windows /\ ~SameWindow(u, with))
      BY <1>a, <2>1, UpsertRanges
    <2>3. \/ old \in PendingFor(data.windows, RouteOf[e], BlockOf[e])
          \/ PendingFor(data.windows, RouteOf[e], BlockOf[e]) = {} /\ old = NewWindow(e)
      BY WindowForCases
    <2>4. old \in WindowRecords
      BY <1>a, <2>1, WindowForType
    <2> HIDE DEF old
    <2>5. with.events = old.events \cup {e} /\ with.key = old.key
          /\ with.start = old.start /\ with.end = old.end
      BY <2>4, WithEventIs
    <2> HIDE DEF with
    <2>6. SeenNow'
      BY <2>1 DEF WholeInv, SeenNow
    <2>7. ASSUME WellFormed(with),
                 \A f \in Events : InWindow(with, f) /\ (BlockOf[f] < at \/ f \in seen)
                                     => f \in with.events,
                 \A u \in data.windows : InWindow(u, e) => SameWindow(u, with)
          PROVE  WholeInv'
      <3>1. Routed(data)'
        BY <2>1, <2>2, <2>7 DEF WholeInv, Routed
      <3>2. HasAll'
        BY <2>1, <2>2, <2>5, <2>7 DEF WholeInv, HasAll
      <3> QED
        BY <2>1, <2>6, <3>1, <3>2 DEF WholeInv, Routed, SavedHasAll
    <2>8. CASE old \in PendingFor(data.windows, RouteOf[e], BlockOf[e])
      <3>1. old \in data.windows /\ InWindow(old, e)
        BY <2>8 DEF PendingFor, InWindow
      <3>2. WellFormed(with)
        <4>1. WellFormed(old)
          BY <3>1 DEF WholeInv, Routed
        <4> QED
          BY <2>5, <3>1, <4>1 DEF WellFormed, InWindow
      <3>3. \A f \in Events : InWindow(with, f) /\ (BlockOf[f] < at \/ f \in seen)
                                => f \in with.events
        BY <2>5, <3>1 DEF WholeInv, HasAll, InWindow
      <3>4. \A u \in data.windows : InWindow(u, e) => SameWindow(u, with)
        <4>1. ASSUME NEW u \in data.windows, InWindow(u, e), u # old
              PROVE  FALSE
          <5>1. u.end < old.start \/ old.end < u.start
            BY <3>1, <4>1 DEF WindowInv, Disjoint, InWindow
          <5> QED
            BY <1>a, <3>1, <4>1, <5>1 DEF InWindow
        <4> QED
          BY <2>5, <4>1 DEF SameWindow
      <3> QED
        BY <2>7, <3>2, <3>3, <3>4
    <2>9. CASE PendingFor(data.windows, RouteOf[e], BlockOf[e]) = {} /\ old = NewWindow(e)
      <3>1. /\ old.events = {} /\ old.key = RouteOf[e] /\ old.start = at
            /\ old.end = at + WindowBlocks[RouteOf[e]] - 1
        BY <2>1, <2>9 DEF NewWindow
      <3>2. WindowBlocks[RouteOf[e]] \in Nat \ {0}
        BY <2>1, EventAssumption
      <3>3. WellFormed(with)
        BY <1>a, <2>1, <2>5, <3>1, <3>2 DEF WellFormed, InWindow
      <3>4. \A u \in data.windows : ~InWindow(u, e)
        BY <2>9 DEF PendingFor, InWindow
      <3>5. ASSUME NEW f \in Events, InWindow(with, f), BlockOf[f] < at \/ f \in seen
            PROVE  FALSE
        <4>1. f \in seen /\ BlockOf[f] = at /\ RouteOf[f] = RouteOf[e]
          BY <1>a, <2>5, <3>1, <3>5 DEF InWindow, WholeInv, SeenNow
        <4>2. Covered(data, f)
          BY <1>b, <2>1, <4>1 DEF WindowInv, Collected
        <4> QED
          BY <2>1, <3>4, <4>1, <4>2 DEF Covered, InWindow
      <3> QED
        BY <2>7, <3>3, <3>4, <3>5
    <2> QED
      BY <2>3, <2>8, <2>9
  <1>2. CASE BlockCompleted
    <2>1. /\ data'.windows = data.windows \ Ready(data.windows, at) /\ data'.digest = data.digest
          /\ at' = at + 1 /\ seen' = {} /\ saved' = saved /\ BlockDelivered
      BY <1>2 DEF BlockCompleted, TypeOK, BotData
    <2>2. \A e \in Events : BlockOf[e] < at' => BlockOf[e] < at \/ e \in seen
      BY <1>a, <2>1 DEF BlockDelivered
    <2> QED
      BY <2>1, <2>2 DEF WholeInv, Routed, SeenNow, HasAll, SavedHasAll
  <1>3. ASSUME NEW e \in Events, HandleDirect(e) \/ HandleDigest(e)
        PROVE  WholeInv'
    <2>1. /\ data'.windows = data.windows
          /\ data'.digest = data.digest \/ (RouteOf[e] = Digest /\ data'.digest = data.digest \cup {e})
          /\ at' = at /\ seen' = seen \cup {e} /\ saved' = saved
          /\ RouteOf[e] \notin Keys /\ BlockOf[e] = at
      BY <1>3, EventAssumption DEF HandleDirect, HandleDigest, HandOver, TypeOK, BotData
    <2>2. \A w \in data.windows : ~InWindow(w, e)
      BY <1>a, <2>1 DEF InWindow
    <2> QED
      BY <2>1, <2>2 DEF WholeInv, Routed, SeenNow, HasAll, SavedHasAll
  <1>4. CASE NextBlockOfBatch
    <2>1. data' = data /\ at' = at + 1 /\ seen' = {} /\ saved' = saved /\ BlockDelivered
      BY <1>4 DEF NextBlockOfBatch
    <2>2. \A e \in Events : BlockOf[e] < at' => BlockOf[e] < at \/ e \in seen
      BY <1>a, <2>1 DEF BlockDelivered
    <2> QED
      BY <2>1, <2>2 DEF WholeInv, Routed, SeenNow, HasAll, SavedHasAll
  <1>5. CASE Reconnected \/ ShutdownAndRestart
    <2>1. /\ data' = data /\ at' = data.checkpoint + 1 /\ seen' = {}
          /\ saved' \in {saved, data}
      BY <1>5 DEF Reconnected, ShutdownAndRestart, StartsFrom, ResumeBlock
    <2>2. \A e \in Events : BlockOf[e] < at' => BlockOf[e] < at
      BY <1>a, <1>b, <2>1
    <2>3. \A e \in Events : BlockOf[e] =< data.checkpoint => BlockOf[e] < at
      BY <1>a, <1>b
    <2>4. HasAll' /\ SeenNow' /\ Routed(data)' /\ Routed(saved)'
      BY <2>1, <2>2 DEF WholeInv, Routed, SeenNow, HasAll
    <2>5. SavedHasAll'
      BY <2>1, <2>3 DEF WholeInv, HasAll, SavedHasAll
    <2> QED
      BY <2>4, <2>5 DEF WholeInv
  <1>6. CASE Crash
    <2>1. data' = saved /\ saved' = saved /\ at' = saved.checkpoint + 1 /\ seen' = {}
      BY <1>6 DEF Crash, StartsFrom, ResumeBlock
    <2>2. \A e \in Events : BlockOf[e] < at' => BlockOf[e] =< saved.checkpoint
      BY <1>a, <2>1
    <2> QED
      BY <2>1, <2>2 DEF WholeInv, Routed, SeenNow, HasAll, SavedHasAll
  <1>7. CASE Persist \/ UNCHANGED vars
    <2>1. data' = data /\ saved' \in {saved, data} /\ at' = at /\ seen' = seen
      BY <1>7 DEF Persist, vars, feedVars
    <2>2. \A e \in Events : BlockOf[e] =< data.checkpoint => BlockOf[e] < at
      BY <1>a, <1>b
    <2> QED
      BY <2>1, <2>2 DEF WholeInv, Routed, SeenNow, HasAll, SavedHasAll
  <1>8. ASSUME \/ ScheduleJobs \/ DayPasses \/ \E j \in Jobs : JobStep(j)
               \/ \E n \in queue : Deliver(n) \/ RenderingFails(n)
        PROVE  WholeInv'
    <2>1. /\ data'.windows = data.windows /\ data'.digest \subseteq data.digest
          /\ UNCHANGED <<at, seen, saved>>
      BY <1>8
      DEF ScheduleJobs, DayPasses, JobStep, JobSendsDigest, FlushDigest, JobFindsDone, Deliver,
          RenderingFails, feedVars, TypeOK, BotData
    <2> QED
      BY <2>1 DEF WholeInv, Routed, SeenNow, HasAll, SavedHasAll
  <1> QED
    BY <1>1, <1>2, <1>3, <1>4, <1>5, <1>6, <1>7, <1>8
    DEF Next, Feed, HandleEvent, QueueStep

LEMMA WholeInvariant == Spec => []WholeInv
  <1>1. Init => WholeInv
    BY EventAssumption DEF Init, WholeInv, Routed, SeenNow, HasAll, SavedHasAll
  <1> QED
    BY <1>1, WholeInvStep, WindowInvariant, FeedInvariant, TypeCorrect, PTL DEF Spec

(* A window that ends has every event of its key and blocks.                 *)
LEMMA ReadyIsWhole ==
  ASSUME TypeOK, WholeInv, BlockDelivered, NEW w \in Ready(data.windows, at)
  PROVE  \E first \in {BlockOf[e] : e \in w.events} :
           w.events = {e \in Events : RouteOf[e] = w.key /\ first =< BlockOf[e]
                                        /\ BlockOf[e] < first + WindowBlocks[w.key]}
  <1>1. /\ w \in data.windows /\ w.end =< at /\ w.events \in SUBSET Events
        /\ at \in Nat /\ w.start \in Nat /\ w.end \in Nat /\ WindowBlocks[w.key] \in Nat
        /\ \A e \in Events : BlockOf[e] \in Nat
    BY EventAssumption DEF Ready, TypeOK, BotData, WindowRecords
  <1>2. WellFormed(w)
    BY <1>1 DEF WholeInv, Routed
  <1>3. ASSUME NEW e \in Events
        PROVE  InWindow(w, e) <=> (/\ RouteOf[e] = w.key /\ w.start =< BlockOf[e]
                                   /\ BlockOf[e] < w.start + WindowBlocks[w.key])
    BY <1>1, <1>2 DEF InWindow, WellFormed
  <1>4. ASSUME NEW e \in Events, InWindow(w, e)
        PROVE  e \in w.events
    <2>1. BlockOf[e] < at \/ e \in seen
      BY <1>1, <1>4 DEF InWindow, BlockDelivered
    <2> QED
      BY <1>1, <1>4, <2>1 DEF WholeInv, HasAll
  <1>5. w.events = {e \in Events : RouteOf[e] = w.key /\ w.start =< BlockOf[e]
                                     /\ BlockOf[e] < w.start + WindowBlocks[w.key]}
    BY <1>1, <1>2, <1>3, <1>4 DEF WellFormed
  <1>6. w.start \in {BlockOf[e] : e \in w.events}
    BY <1>2 DEF WellFormed
  <1> QED
    BY <1>5, <1>6

Whole(n) ==
  \E first \in {BlockOf[e] : e \in n.events} :
    n.events = {e \in Events : RouteOf[e] = n.route /\ first =< BlockOf[e]
                                 /\ BlockOf[e] < first + WindowBlocks[n.route]}

LEMMA WholeStep ==
  TypeOK /\ WholeInv /\ NotificationsComplete /\ [Next]_vars => NotificationsComplete'
  <1> SUFFICES ASSUME TypeOK, WholeInv, NotificationsComplete, [Next]_vars,
                      NEW n \in queue', n.route \in Keys
               PROVE  Whole(n)
    BY DEF NotificationsComplete, Whole
  <1>1. ASSUME n \in queue
        PROVE  Whole(n)
    BY <1>1 DEF NotificationsComplete, Whole
  <1>2. ASSUME NEW e \in Events, HandleEvent(e)
        PROVE  Whole(n)
    <2>1. queue' = queue \/ queue' = queue \cup {Notification(Direct, {e})}
      BY <1>2 DEF HandleEvent, HandleDirect, HandleAggregated, HandleDigest, Emit
    <2>2. n # Notification(Direct, {e})
      BY EventAssumption DEF Notification
    <2> QED
      BY <1>1, <2>1, <2>2
  <1>3. CASE BlockCompleted
    <2>1. n \in queue \/ \E w \in Ready(data.windows, at) : n = Notification(w.key, w.events)
      BY <1>3 DEF BlockCompleted, Emit
    <2>2. ASSUME NEW w \in Ready(data.windows, at), n = Notification(w.key, w.events)
          PROVE  Whole(n)
      <3>1. n.route = w.key /\ n.events = w.events
        BY <2>2 DEF Notification
      <3>2. BlockDelivered
        BY <1>3 DEF BlockCompleted
      <3> QED
        BY <3>1, <3>2, ReadyIsWhole DEF Whole
    <2> QED
      BY <1>1, <2>1, <2>2
  <1>4. ASSUME NEW j \in Jobs, JobStep(j)
        PROVE  Whole(n)
    <2>1. queue' = queue \/ queue' = queue \cup {Notification(Digest, ReadyDigest)}
      BY <1>4 DEF JobStep, JobSendsDigest, FlushDigest, JobFindsDone, Emit
    <2>2. n # Notification(Digest, ReadyDigest)
      BY EventAssumption DEF Notification
    <2> QED
      BY <1>1, <2>1, <2>2
  <1>5. ASSUME \/ NextBlockOfBatch \/ Reconnected \/ ScheduleJobs \/ DayPasses \/ Persist
               \/ \E m \in queue : Deliver(m) \/ RenderingFails(m)
               \/ Crash \/ ShutdownAndRestart \/ UNCHANGED vars
        PROVE  Whole(n)
    <2>1. queue' \subseteq queue
      BY <1>5 DEF NextBlockOfBatch, Reconnected, ScheduleJobs, DayPasses, Persist, Deliver,
                  RenderingFails, Crash, ShutdownAndRestart, StartsFrom, vars
    <2> QED
      BY <1>1, <2>1
  <1> QED
    BY <1>2, <1>3, <1>4, <1>5 DEF Next, Feed, QueueStep

(* Replays, batches and restarts do not split a window: its notification has *)
(* every event of its key from its first block to its last.                  *)
THEOREM WindowsAreWhole == Spec => []NotificationsComplete
  <1>1. Init => NotificationsComplete
    BY DEF Init, NotificationsComplete
  <1> QED
    BY <1>1, WholeStep, WholeInvariant, TypeCorrect, PTL DEF Spec

-----------------------------------------------------------------------------
(* Replays repeat direct notifications only.  The invariant: what was queued *)
(* from a window or the digest is behind the checkpoint and pending nowhere. *)
NotAgain ==
  \A e \in notified : RouteOf[e] # Direct => BlockOf[e] =< data.checkpoint /\ e \notin PendingIn(data)

OnceInv == NotAgain /\ QueuedOncePerProcess

LEMMA UpsertPending ==
  ASSUME NEW e \in Events, RouteOf[e] \in Keys, NEW windows \in SUBSET WindowRecords,
         NEW new, new = Upsert(windows, WithEvent(WindowFor(windows, e), e))
  PROVE  (UNION {w.events : w \in new}) \subseteq (UNION {w.events : w \in windows}) \cup {e}
  <1> DEFINE old  == WindowFor(windows, e)
             with == WithEvent(old, e)
  <1>1. old \in WindowRecords
    BY WindowForType
  <1>2. old \in windows \/ old.events = {}
    BY WindowForCases DEF PendingFor, NewWindow
  <1> HIDE DEF old
  <1>3. with.events = old.events \cup {e}
    BY <1>1, WithEventIs
  <1>4. new \subseteq windows \cup {with}
    BY DEF Upsert, Discard, old
  <1> HIDE DEF with
  <1> QED
    BY <1>2, <1>3, <1>4

(* An event pending in a window that ends is in no other window, nor in the  *)
(* digest.                                                                   *)
LEMMA InOneWindow ==
  ASSUME TypeOK, WindowInv, WholeInv,
         NEW w \in data.windows, NEW e \in w.events
  PROVE  /\ RouteOf[e] = w.key /\ w.key \in Keys /\ BlockOf[e] =< w.end
         /\ \A v \in data.windows : e \in v.events => v = w
         /\ e \notin data.digest
  <1>1. /\ data.windows \in SUBSET WindowRecords /\ w.key \in Keys
        /\ e \in Events /\ BlockOf[e] \in Nat
        /\ \A v \in data.windows : v.start \in Nat /\ v.end \in Nat
    BY EventAssumption DEF TypeOK, BotData, WindowRecords
  <1>2. \A v \in data.windows : e \in v.events => InWindow(v, e)
    BY DEF WholeInv, Routed, WellFormed
  <1>3. RouteOf[e] = w.key /\ BlockOf[e] =< w.end
    BY <1>2 DEF InWindow
  <1>4. ASSUME NEW v \in data.windows, e \in v.events, v # w
        PROVE  FALSE
    <2>1. InWindow(v, e) /\ InWindow(w, e)
      BY <1>2, <1>4
    <2>2. v.end < w.start \/ w.end < v.start
      BY <1>4, <2>1 DEF WindowInv, Disjoint, InWindow
    <2> QED
      BY <1>1, <1>4, <2>1, <2>2 DEF InWindow
  <1>5. e \notin data.digest
    BY <1>1, <1>3, EventAssumption DEF WholeInv, Routed
  <1> QED
    BY <1>1, <1>3, <1>4, <1>5

LEMMA NotificationFields ==
  ASSUME NEW route, NEW es
  PROVE  Notification(route, es).route = route /\ Notification(route, es).events = es
  BY DEF Notification

LEMMA OnceInvStep ==
  TypeOK /\ FeedInv /\ WindowInv /\ WholeInv /\ OnceInv /\ [Next]_vars => OnceInv'
  <1> SUFFICES ASSUME TypeOK, FeedInv, WindowInv, WholeInv, OnceInv, [Next]_vars
               PROVE  OnceInv'
    OBVIOUS
  <1>a. /\ data.windows \in SUBSET WindowRecords
        /\ data.checkpoint \in Nat /\ at \in Nat /\ data.checkpoint < at
        /\ \A e \in Events : BlockOf[e] \in Nat
        /\ notified \in SUBSET Events
    BY EventAssumption DEF TypeOK, BotData, FeedInv
  <1>1. ASSUME NEW e \in Events, HandleDirect(e)
        PROVE  OnceInv'
    <2>1. /\ data' = data /\ RouteOf[e] = Direct /\ notified' = notified \cup {e}
          /\ repeated' \subseteq repeated \cup {e}
      BY <1>1 DEF HandleDirect, Emit, Notification
    <2> QED
      BY <2>1 DEF OnceInv, NotAgain, QueuedOncePerProcess, PendingIn
  <1>2. ASSUME NEW e \in Events, HandleAggregated(e) \/ HandleDigest(e)
        PROVE  OnceInv'
    <2>1. /\ notified' = notified /\ repeated' = repeated /\ BlockOf[e] = at
          /\ data'.checkpoint = data.checkpoint
      BY <1>2 DEF HandleAggregated, HandleDigest, HandOver, TypeOK, BotData
    <2>2. PendingIn(data)' \subseteq PendingIn(data) \cup {e}
      <3>1. CASE HandleDigest(e)
        <4>1. data'.windows = data.windows /\ data'.digest = data.digest \cup {e}
          BY <3>1 DEF HandleDigest, TypeOK, BotData
        <4> QED
          BY <4>1 DEF PendingIn
      <3>2. CASE HandleAggregated(e)
        <4>1. /\ data'.windows = Upsert(data.windows, WithEvent(WindowFor(data.windows, e), e))
              /\ data'.digest = data.digest /\ RouteOf[e] \in Keys
          BY <3>2 DEF HandleAggregated, TypeOK, BotData
        <4>2. (UNION {w.events : w \in data'.windows}) \subseteq (UNION {w.events : w \in data.windows}) \cup {e}
          BY <1>a, <4>1, UpsertPending
        <4> QED
          BY <4>1, <4>2 DEF PendingIn
      <3> QED
        BY <1>2, <3>1, <3>2
    <2>3. ASSUME NEW f \in notified, RouteOf[f] # Direct
          PROVE  BlockOf[f] =< data.checkpoint /\ f # e
      BY <1>a, <2>1, <2>3 DEF OnceInv, NotAgain
    <2> QED
      BY <2>1, <2>2, <2>3 DEF OnceInv, NotAgain, QueuedOncePerProcess
  <1>3. CASE BlockCompleted
    <2> DEFINE ready == Ready(data.windows, at)
               new   == UNION {w.events : w \in ready}
    <2>1. /\ data'.windows = data.windows \ ready /\ data'.checkpoint = at
          /\ data'.digest = data.digest
      BY <1>a, <1>3 DEF BlockCompleted, TypeOK, BotData
    <2>2. Emit({Notification(w.key, w.events) : w \in ready})
      BY <1>3 DEF BlockCompleted
    <2>3. ready \subseteq data.windows /\ \A w \in ready : w.end =< at
      BY DEF Ready
    <2>4. ASSUME NEW e \in new
          PROVE  /\ BlockOf[e] =< at /\ RouteOf[e] # Direct
                 /\ e \in PendingIn(data) /\ e \notin PendingIn(data)'
      <3>1. PICK w \in ready : e \in w.events
        BY <2>4
      <3>2. /\ RouteOf[e] = w.key /\ w.key \in Keys /\ BlockOf[e] =< w.end
            /\ \A v \in data.windows : e \in v.events => v = w
            /\ e \notin data.digest
        BY <2>3, <3>1, InOneWindow
      <3>3. BlockOf[e] =< at
        <4>1. e \in Events /\ w.end \in Nat /\ w.end =< at
          BY <1>a, <2>3, <3>1 DEF WindowRecords
        <4> QED
          BY <1>a, <3>2, <4>1
      <3>4. e \in PendingIn(data)
        BY <2>3, <3>1 DEF PendingIn
      <3>5. e \notin PendingIn(data)'
        BY <2>1, <3>1, <3>2 DEF PendingIn
      <3> QED
        BY <3>2, <3>3, <3>4, <3>5, EventAssumption
    <2>5. notified' = notified \cup new
      <3> DEFINE ns == {Notification(w.key, w.events) : w \in ready}
      <3>1. notified' = notified \cup (UNION {n.events : n \in ns})
        BY <2>2 DEF Emit
      <3>2. ASSUME NEW e
            PROVE  (\E n \in ns : e \in n.events) <=> (\E w \in ready : e \in w.events)
        BY NotificationFields
      <3> HIDE DEF ns, ready
      <3> QED
        BY <3>1, <3>2
    <2>6. PendingIn(data)' \subseteq PendingIn(data)
      BY <2>1 DEF PendingIn
    <2>7. NotAgain'
      <3>1. ASSUME NEW e \in notified, RouteOf[e] # Direct
            PROVE  BlockOf[e] =< data'.checkpoint /\ e \notin PendingIn(data)'
        <4>1. BlockOf[e] =< data.checkpoint /\ e \notin PendingIn(data) /\ e \in Events
          BY <1>a, <3>1 DEF OnceInv, NotAgain
        <4> QED
          BY <1>a, <2>1, <2>6, <4>1
      <3> QED
        BY <2>1, <2>4, <2>5, <3>1 DEF NotAgain
    <2>8. ASSUME NEW e \in repeated', e \notin repeated
          PROVE  FALSE
      <3> DEFINE ns == {Notification(w.key, w.events) : w \in ready}
      <3>1. \/ e \in notified /\ \E n \in ns : e \in n.events
            \/ \E n, m \in ns : n # m /\ e \in n.events /\ e \in m.events
        BY <2>2, <2>8 DEF Emit
      <3>2. CASE e \in notified /\ \E n \in ns : e \in n.events
        <4>1. e \in new
          BY <3>2 DEF Notification
        <4> QED
          BY <2>4, <3>2, <4>1 DEF OnceInv, NotAgain
      <3>3. CASE \E n, m \in ns : n # m /\ e \in n.events /\ e \in m.events
        <4>1. PICK w \in ready, v \in ready :
                /\ Notification(w.key, w.events) # Notification(v.key, v.events)
                /\ e \in w.events /\ e \in v.events
          BY <3>3, NotificationFields
        <4>2. w = v
          BY <2>3, <4>1, InOneWindow
        <4> QED
          BY <4>1, <4>2
      <3> QED
        BY <3>1, <3>2, <3>3
    <2>9. QueuedOncePerProcess'
      BY <2>8 DEF OnceInv, QueuedOncePerProcess
    <2> QED
      BY <2>7, <2>9 DEF OnceInv
  <1>4. ASSUME NEW j \in Jobs, JobSendsDigest(j)
        PROVE  OnceInv'
    <2>1. /\ data'.windows = data.windows /\ data'.checkpoint = data.checkpoint
          /\ data'.digest = data.digest \ ReadyDigest
          /\ Emit(IF ReadyDigest = {} THEN {} ELSE {Notification(Digest, ReadyDigest)})
      BY <1>4 DEF JobSendsDigest, FlushDigest, TypeOK, BotData
    <2>2. notified' = notified \cup ReadyDigest
      <3>1. CASE ReadyDigest = {}
        BY <2>1, <3>1 DEF Emit
      <3>2. CASE ReadyDigest # {}
        <4>1. notified' = notified \cup (UNION {n.events : n \in {Notification(Digest, ReadyDigest)}})
          BY <2>1, <3>2 DEF Emit
        <4> QED
          BY <4>1, NotificationFields
      <3> QED
        BY <3>1, <3>2
    <2>3. \A e \in repeated' : e \in repeated \/ (e \in notified /\ e \in ReadyDigest)
      BY <2>1 DEF Emit, Notification
    <2>4. ASSUME NEW e \in ReadyDigest
          PROVE  /\ BlockOf[e] =< data.checkpoint /\ RouteOf[e] = Digest /\ RouteOf[e] # Direct
                 /\ e \in PendingIn(data) /\ e \notin PendingIn(data)'
      <3>1. e \in data.digest /\ BlockOf[e] =< data.checkpoint
        BY DEF ReadyDigest
      <3>2. RouteOf[e] = Digest /\ RouteOf[e] # Direct
        BY <3>1, EventAssumption DEF WholeInv, Routed
      <3>3. \A w \in data.windows : e \notin w.events
        BY <3>1, InOneWindow
      <3> QED
        BY <2>1, <3>1, <3>2, <3>3 DEF PendingIn
    <2>5. PendingIn(data)' \subseteq PendingIn(data)
      BY <2>1 DEF PendingIn
    <2>6. NotAgain'
      BY <2>1, <2>2, <2>4, <2>5 DEF OnceInv, NotAgain
    <2>7. QueuedOncePerProcess'
      BY <2>3, <2>4 DEF OnceInv, NotAgain, QueuedOncePerProcess
    <2> QED
      BY <2>6, <2>7 DEF OnceInv
  <1>5. CASE Crash \/ ShutdownAndRestart
    BY <1>5 DEF Crash, ShutdownAndRestart, StartsFrom, OnceInv, NotAgain, QueuedOncePerProcess
  <1>6. CASE ScheduleJobs
    <2>1. /\ data'.windows = data.windows /\ data'.digest = data.digest
          /\ data'.checkpoint = data.checkpoint /\ notified' = notified /\ repeated' = repeated
      BY <1>6 DEF ScheduleJobs, pastVars, TypeOK, BotData
    <2> QED
      BY <2>1 DEF OnceInv, NotAgain, QueuedOncePerProcess, PendingIn
  <1>7. ASSUME \/ NextBlockOfBatch \/ Reconnected \/ DayPasses \/ Persist \/ UNCHANGED vars
               \/ \E j \in Jobs : JobFindsDone(j)
               \/ \E n \in queue : Deliver(n) \/ RenderingFails(n)
        PROVE  OnceInv'
    <2>1. data' = data /\ notified' = notified /\ repeated' = repeated
      BY <1>7 DEF NextBlockOfBatch, Reconnected, DayPasses, Persist, JobFindsDone, Deliver,
                  RenderingFails, vars, pastVars
    <2> QED
      BY <2>1 DEF OnceInv, NotAgain, QueuedOncePerProcess, PendingIn
  <1> QED
    BY <1>1, <1>2, <1>3, <1>4, <1>5, <1>6, <1>7
    DEF Next, Feed, HandleEvent, JobStep, QueueStep

(* Replays after reconnects queue no aggregated or digest event again.       *)
THEOREM OnlyDirectRepeats == Spec => []QueuedOncePerProcess
  <1>1. Init => OnceInv
    BY DEF Init, OnceInv, NotAgain, QueuedOncePerProcess
  <1>2. OnceInv => QueuedOncePerProcess
    BY DEF OnceInv
  <1> QED
    BY <1>1, <1>2, OnceInvStep, WholeInvariant, WindowInvariant, FeedInvariant, TypeCorrect, PTL
    DEF Spec

-----------------------------------------------------------------------------
(* The groups of operators.  The last event of a group in the block says     *)
(* what it is now; a group that was known before the block and is no more,   *)
(* or was created in it, was cleared in it.  Both are in the log, whatever   *)
(* the order and the number of times the events arrive in, and the           *)
(* aggregator reads the log, once all of it is stored.                       *)

GroupRecords ==
  [event : {"created", "updated", "cleared"}, group : Groups,
   info : GroupChanges!Infos \cup {GroupChanges!Cleared}]

IsGroupLog ==
  /\ events \in Seq(GroupRecords)
  /\ \A i \in DOMAIN events :
       events[i].event = "cleared" <=> events[i].info = GroupChanges!Cleared
  /\ window \in Seq(Nat)

Of(g) == {i \in DOMAIN events : events[i].group = g}

NowIsLast == \A g \in Groups :
  \/ Of(g) = {} /\ groups[g] = before[g]
  \/ \E i \in Of(g) : (\A j \in Of(g) : j <= i) /\ groups[g] = events[i].info

ClearedOnTheWay == \A g \in Groups :
  /\ before[g] # GroupChanges!Cleared
  /\ groups[g] = GroupChanges!Cleared \/ GroupChanges!Emitted(Of(g), "created")
  => GroupChanges!Emitted(Of(g), "cleared")

GroupsInv ==
  /\ GroupChanges!TypeOK /\ IsGroupLog /\ NowIsLast /\ ClearedOnTheWay
  /\ GroupChanges!NetChangeIsTold /\ GroupChanges!NameIsHonest

(* A cleared group has no members and no name; any other has both.           *)
LEMMA ClearedIsEmpty ==
  ASSUME NEW info \in GroupChanges!Infos
  PROVE  /\ info # GroupChanges!Cleared
         /\ GroupChanges!Changed(GroupChanges!Cleared, info) = GroupChanges!Members(info)
         /\ GroupChanges!Renamed(GroupChanges!Cleared, info)
  <1>1. info.share \in [Operators -> Shares \cup {0}] /\ info.name \in Names
        /\ GroupChanges!Members(info) # {}
    BY DEF GroupChanges!Infos
  <1>2. GroupChanges!Cleared.share = [o \in Operators |-> 0] /\ GroupChanges!Cleared.name = ""
    BY DEF GroupChanges!Cleared
  <1>3. info.name # ""
    BY <1>1, PartsAssumption DEF GroupChanges!GroupsAssumption
  <1> QED
    BY <1>1, <1>2, <1>3
    DEF GroupChanges!Changed, GroupChanges!Renamed, GroupChanges!Members

LEMMA ClearingTells ==
  ASSUME NEW info \in GroupChanges!Infos \cup {GroupChanges!Cleared}
  PROVE  GroupChanges!Members(info)
           = GroupChanges!Changed(info, GroupChanges!Cleared)
             \cup (IF GroupChanges!Renamed(info, GroupChanges!Cleared)
                   THEN GroupChanges!Members(GroupChanges!Cleared) ELSE {})
  <1>1. GroupChanges!Cleared.share = [o \in Operators |-> 0]
    BY DEF GroupChanges!Cleared
  <1> QED
    BY <1>1 DEF GroupChanges!Changed, GroupChanges!Members

(* The registry appends what it does to a group.                             *)
LEMMA EmitStep ==
  ASSUME GroupsInv, NEW g \in Groups,
         NEW name \in {"created", "updated", "cleared"},
         NEW info \in GroupChanges!Infos \cup {GroupChanges!Cleared},
         GroupChanges!Emit(g, name, info),
         name = "cleared" <=> info = GroupChanges!Cleared,
         name = "created" <=> groups[g] = GroupChanges!Cleared
  PROVE  GroupsInv'
  <1> DEFINE n == Len(events) + 1
             e == [event |-> name, group |-> g, info |-> info]
  <1>1. /\ events \in Seq(GroupRecords) /\ e \in GroupRecords /\ Len(events) \in Nat
        /\ events' = Append(events, e)
    BY DEF GroupsInv, IsGroupLog, GroupRecords, GroupChanges!Emit
  <1>2. /\ events' \in Seq(GroupRecords)
        /\ DOMAIN events' = DOMAIN events \cup {n}
        /\ \A i \in DOMAIN events : events'[i] = events[i] /\ i <= n /\ i # n
        /\ events'[n] = e /\ n \in Nat
    BY <1>1
  <1>3. /\ phase = "mining" /\ phase' = "mining" /\ window = <<>> /\ UNCHANGED <<before, window, outcome>>
        /\ groups' = [groups EXCEPT ![g] = info]
    BY DEF GroupsInv, GroupChanges!TypeOK, GroupChanges!Emit
  <1>4. groups'[g] = info /\ \A h \in Groups \ {g} : groups'[h] = groups[h]
    BY <1>3 DEF GroupsInv, GroupChanges!TypeOK
  <1>5. GroupChanges!TypeOK'
    <2>1. groups' \in [Groups -> GroupChanges!Infos \cup {GroupChanges!Cleared}]
      BY <1>3 DEF GroupsInv, GroupChanges!TypeOK
    <2>2. GroupChanges!Range(window) \subseteq DOMAIN events'
      BY <1>2 DEF GroupsInv, GroupChanges!TypeOK
    <2> QED
      BY <1>3, <2>1, <2>2 DEF GroupsInv, GroupChanges!TypeOK
  <1>6. IsGroupLog'
    BY <1>2, <1>3 DEF GroupsInv, IsGroupLog
  <1>7. /\ Of(g)' = Of(g) \cup {n}
        /\ \A h \in Groups \ {g} : Of(h)' = Of(h)
    BY <1>2 DEF Of
  <1>8. NowIsLast'
    <2> SUFFICES ASSUME NEW h \in Groups
                 PROVE  \/ Of(h)' = {} /\ groups'[h] = before'[h]
                        \/ \E i \in Of(h)' : /\ \A j \in Of(h)' : j <= i
                                             /\ groups'[h] = events'[i].info
      BY DEF NowIsLast
    <2>1. CASE h = g
      <3>1. n \in Of(g)' /\ groups'[g] = events'[n].info
        BY <1>2, <1>4, <1>7
      <3>2. \A j \in Of(g)' : j <= n
        BY <1>2, <1>7 DEF Of
      <3> QED
        BY <2>1, <3>1, <3>2
    <2>2. CASE h # g
      BY <2>2, <1>2, <1>3, <1>4, <1>7 DEF GroupsInv, NowIsLast, Of
    <2> QED
      BY <2>1, <2>2
  <1>9. ClearedOnTheWay'
    <2>1. \A h \in Groups \ {g}, x \in {"created", "cleared"} :
            GroupChanges!Emitted(Of(h), x)' <=> GroupChanges!Emitted(Of(h), x)
      BY <1>2, <1>7 DEF GroupChanges!Emitted, Of
    <2>2. \A x \in {"created", "cleared"} :
            GroupChanges!Emitted(Of(g), x)' <=> GroupChanges!Emitted(Of(g), x) \/ name = x
      BY <1>2, <1>7 DEF GroupChanges!Emitted, Of
    <2>3. \A h \in Groups :
            /\ before[h] # GroupChanges!Cleared
            /\ groups[h] = GroupChanges!Cleared \/ GroupChanges!Emitted(Of(h), "created")
            => GroupChanges!Emitted(Of(h), "cleared")
      BY DEF GroupsInv, ClearedOnTheWay
    <2> QED
      BY <2>1, <2>2, <2>3, <1>3, <1>4 DEF ClearedOnTheWay
  <1> QED
    BY <1>3, <1>5, <1>6, <1>8, <1>9
    DEF GroupsInv, GroupChanges!NetChangeIsTold, GroupChanges!NameIsHonest

(* What a complete window is reduced to is the net change of each group.     *)
LEMMA AggregateStep ==
  ASSUME GroupsInv, GroupChanges!Aggregate
  PROVE  GroupsInv'
  <1>1. /\ phase' = "told" /\ UNCHANGED <<before, groups, events, window>>
        /\ outcome' = [g \in Groups |-> GroupChanges!Notification(g)]
    BY DEF GroupChanges!Aggregate
  <1>2. GroupChanges!TypeOK' /\ IsGroupLog' /\ NowIsLast' /\ ClearedOnTheWay'
    <2>1. \A g \in Groups : Of(g)' = Of(g)
      BY <1>1 DEF Of
    <2> QED
      BY <1>1, <2>1
      DEF GroupsInv, GroupChanges!TypeOK, IsGroupLog, NowIsLast, ClearedOnTheWay,
          GroupChanges!Emitted, Of
  <1>3. ASSUME NEW g \in Groups
        PROVE  /\ GroupChanges!Told(outcome[g])'
                    = GroupChanges!Changed(before[g], groups[g])
                        \cup (IF GroupChanges!Renamed(before[g], groups[g])
                              THEN GroupChanges!Members(groups[g]) ELSE {})
               /\ outcome'[g].event = "created" => before[g] = GroupChanges!Cleared
               /\ outcome'[g].event = "cleared"
                    <=> outcome'[g] # GroupChanges!None /\ groups[g] = GroupChanges!Cleared
    <2> DEFINE e == events[GroupChanges!Max(Of(g))]
    <2>1. outcome'[g] = GroupChanges!Notification(g)
      BY <1>1
    <2>2. GroupChanges!GroupEvents(g) = Of(g)
      BY DEF GroupChanges!Aggregate, GroupChanges!GroupEvents, Of
    <2>3. before[g] \in GroupChanges!Infos \cup {GroupChanges!Cleared}
      BY DEF GroupsInv, GroupChanges!TypeOK
    <2>4. CASE Of(g) = {}
      <3>1. outcome'[g] = GroupChanges!None /\ groups[g] = before[g]
        BY <2>1, <2>2, <2>4 DEF GroupsInv, NowIsLast, GroupChanges!Notification
      <3>2. GroupChanges!Told(outcome[g])' = {} /\ outcome'[g].event = "none"
        BY <3>1 DEF GroupChanges!Told, GroupChanges!None
      <3>3. GroupChanges!Changed(before[g], groups[g]) = {}
            /\ ~GroupChanges!Renamed(before[g], groups[g])
        BY <3>1 DEF GroupChanges!Changed, GroupChanges!Renamed
      <3> QED
        BY <3>1, <3>2, <3>3
    <2>5. CASE Of(g) # {}
      <3>1. PICK i \in Of(g) : (\A j \in Of(g) : j <= i) /\ groups[g] = events[i].info
        BY <2>5 DEF GroupsInv, NowIsLast
      <3>2. Of(g) \subseteq Nat /\ \A j \in Of(g) : events[j] \in GroupRecords
        BY DEF Of, GroupsInv, IsGroupLog
      <3>3. GroupChanges!Max(Of(g)) = i
        BY <3>1, <3>2 DEF GroupChanges!Max
      <3>4. e = events[i] /\ e \in GroupRecords
            /\ (e.event = "cleared" <=> groups[g] = GroupChanges!Cleared)
        BY <3>1, <3>2, <3>3 DEF GroupsInv, IsGroupLog, Of
      <3>5. CASE e.event = "cleared"
        <4>1. outcome'[g] = [event |-> "cleared", group |-> g, info |-> GroupChanges!Cleared]
          BY <2>1, <2>2, <2>5, <3>5 DEF GroupChanges!Notification
        <4>2. groups[g] = GroupChanges!Cleared
          BY <3>4, <3>5
        <4>3. GroupChanges!Told(outcome[g])' = GroupChanges!Members(before[g])
          BY <1>1, <4>1 DEF GroupChanges!Told, GroupChanges!ToldCleared
        <4>4. outcome'[g] # GroupChanges!None
          BY <4>1 DEF GroupChanges!None
        <4> QED
          BY <2>3, <4>1, <4>2, <4>3, <4>4, ClearingTells
      <3>6. CASE e.event # "cleared"
        <4> DEFINE name == GroupChanges!FinalName(Of(g))
        <4>1. outcome'[g] = [event |-> name, group |-> g, info |-> groups[g]]
          BY <2>1, <2>2, <2>5, <3>1, <3>4, <3>6 DEF GroupChanges!Notification
        <4>2. groups[g] \in GroupChanges!Infos /\ groups[g] # GroupChanges!Cleared
          BY <3>4, <3>6 DEF GroupsInv, GroupChanges!TypeOK
        <4>3. CASE name = "created"
          <5>1. /\ GroupChanges!Emitted(Of(g), "created")
                /\ ~GroupChanges!Emitted(Of(g), "cleared")
            BY <4>3 DEF GroupChanges!FinalName
          <5>2. before[g] = GroupChanges!Cleared
            BY <5>1 DEF GroupsInv, ClearedOnTheWay
          <5>3. GroupChanges!Told(outcome[g])' = GroupChanges!Members(groups[g])
            BY <4>1, <4>3 DEF GroupChanges!Told, GroupChanges!ToldCreated
          <5> QED
            BY <4>1, <4>2, <4>3, <5>2, <5>3, ClearedIsEmpty
        <4>4. CASE name = "updated"
          <5>1. GroupChanges!Told(outcome[g])'
                  = GroupChanges!Changed(before[g], groups[g])
                      \cup (IF GroupChanges!Renamed(before[g], groups[g])
                            THEN GroupChanges!Members(groups[g]) ELSE {})
            BY <1>1, <4>1, <4>4 DEF GroupChanges!Told, GroupChanges!ToldUpdated
          <5> QED
            BY <4>1, <4>2, <4>4, <5>1
        <4>5. name \in {"created", "updated"}
          BY DEF GroupChanges!FinalName
        <4> QED
          BY <4>3, <4>4, <4>5
      <3> QED
        BY <3>5, <3>6
    <2> QED
      BY <2>4, <2>5
  <1>4. GroupChanges!NetChangeIsTold'
    BY <1>1, <1>3 DEF GroupChanges!NetChangeIsTold
  <1>5. GroupChanges!NameIsHonest'
    BY <1>1, <1>3 DEF GroupChanges!NameIsHonest
  <1> QED
    BY <1>2, <1>4, <1>5 DEF GroupsInv

LEMMA GroupsInvInit == GroupChanges!Init => GroupsInv
  <1> SUFFICES ASSUME GroupChanges!Init
               PROVE  GroupsInv
    OBVIOUS
  <1>1. events = <<>> /\ window = <<>> /\ phase = "mining" /\ before = groups
        /\ groups \in [Groups -> GroupChanges!Infos \cup {GroupChanges!Cleared}]
    BY DEF GroupChanges!Init
  <1>2. GroupChanges!TypeOK
    BY <1>1 DEF GroupChanges!TypeOK, GroupChanges!IsInjective, GroupChanges!Range
  <1>3. IsGroupLog
    BY <1>1 DEF IsGroupLog
  <1>4. NowIsLast /\ ClearedOnTheWay
    <2>1. DOMAIN events = {}
      BY <1>1
    <2>2. \A g \in Groups : Of(g) = {}
      BY <2>1 DEF Of
    <2> QED
      BY <1>1, <2>2 DEF NowIsLast, ClearedOnTheWay, GroupChanges!Emitted
  <1>5. GroupChanges!NetChangeIsTold /\ GroupChanges!NameIsHonest
    BY <1>1 DEF GroupChanges!NetChangeIsTold, GroupChanges!NameIsHonest
  <1> QED
    BY <1>2, <1>3, <1>4, <1>5 DEF GroupsInv

LEMMA GroupsInvStep ==
  GroupsInv /\ [GroupChanges!Next]_(GroupChanges!vars) => GroupsInv'
  <1> SUFFICES ASSUME GroupsInv, [GroupChanges!Next]_(GroupChanges!vars)
               PROVE  GroupsInv'
    OBVIOUS
  <1>0. IsGroupLog /\ GroupChanges!TypeOK
    BY DEF GroupsInv
  <1>1. ASSUME NEW g \in Groups, GroupChanges!Create(g)
        PROVE  GroupsInv'
    <2>1. PICK info \in GroupChanges!Infos : GroupChanges!Emit(g, "created", info)
      BY <1>1 DEF GroupChanges!Create
    <2>2. groups[g] = GroupChanges!Cleared /\ info # GroupChanges!Cleared
      BY <1>1, ClearedIsEmpty DEF GroupChanges!Create
    <2> QED
      BY <2>1, <2>2, EmitStep
  <1>2. ASSUME NEW g \in Groups, GroupChanges!Update(g)
        PROVE  GroupsInv'
    <2>1. PICK info \in GroupChanges!Infos : GroupChanges!Emit(g, "updated", info)
      BY <1>2 DEF GroupChanges!Update
    <2>2. groups[g] # GroupChanges!Cleared /\ info # GroupChanges!Cleared
      BY <1>2, ClearedIsEmpty DEF GroupChanges!Update
    <2> QED
      BY <2>1, <2>2, EmitStep
  <1>3. ASSUME NEW g \in Groups, GroupChanges!Clear(g)
        PROVE  GroupsInv'
    <2>1. GroupChanges!Emit(g, "cleared", GroupChanges!Cleared)
          /\ groups[g] # GroupChanges!Cleared
      BY <1>3 DEF GroupChanges!Clear
    <2> QED
      BY <2>1, EmitStep
  <1>4. ASSUME UNCHANGED <<before, groups, events, outcome>>, phase' # "told",
               phase' = "mining" => window' = <<>>,
               window' \in Seq(Nat), GroupChanges!IsInjective(window'),
               GroupChanges!Range(window') \subseteq DOMAIN events,
               phase' \in {"mining", "arriving"}
        PROVE  GroupsInv'
    <2>1. GroupChanges!TypeOK'
      BY <1>4 DEF GroupsInv, GroupChanges!TypeOK
    <2>2. IsGroupLog' /\ NowIsLast' /\ ClearedOnTheWay'
      BY <1>4 DEF GroupsInv, IsGroupLog, NowIsLast, ClearedOnTheWay, Of, GroupChanges!Emitted
    <2> QED
      BY <1>4, <2>1, <2>2
      DEF GroupsInv, GroupChanges!NetChangeIsTold, GroupChanges!NameIsHonest
  <1>5. CASE GroupChanges!Mined
    <2>1. UNCHANGED <<before, groups, events, window, outcome>> /\ phase' = "arriving"
      BY <1>5 DEF GroupChanges!Mined
    <2> QED
      BY <1>0, <1>4, <2>1 DEF IsGroupLog, GroupChanges!TypeOK
  <1>6. ASSUME NEW i, GroupChanges!Arrive(i)
        PROVE  GroupsInv'
    <2>1. /\ UNCHANGED <<before, groups, events, phase, outcome>> /\ phase = "arriving"
          /\ i \in DOMAIN events /\ window' = GroupChanges!Stored(i)
      BY <1>6 DEF GroupChanges!Arrive
    <2>2. i \in Nat
      BY <1>0, <2>1 DEF IsGroupLog
    <2>3. /\ window' \in Seq(Nat) /\ GroupChanges!IsInjective(window')
          /\ GroupChanges!Range(window') \subseteq DOMAIN events
      <3>1. CASE GroupChanges!Contains(window, i)
        BY <1>0, <2>1, <3>1 DEF IsGroupLog, GroupChanges!TypeOK, GroupChanges!Stored
      <3>2. CASE ~GroupChanges!Contains(window, i)
        <4>1. window' = Append(window, i) /\ window \in Seq(Nat) /\ Len(window) \in Nat
          BY <1>0, <2>1, <3>2 DEF IsGroupLog, GroupChanges!Stored
        <4>2. /\ DOMAIN window = 1..Len(window)
              /\ DOMAIN window' = DOMAIN window \cup {Len(window) + 1}
              /\ \A k \in DOMAIN window : window'[k] = window[k]
              /\ window'[Len(window) + 1] = i
              /\ window' \in Seq(Nat)
          BY <2>2, <4>1
        <4>3. \A k \in DOMAIN window : window[k] # i
          BY <3>2, <4>2 DEF GroupChanges!Contains
        <4>4. GroupChanges!IsInjective(window')
          BY <1>0, <4>2, <4>3, Zenon DEF GroupChanges!TypeOK, GroupChanges!IsInjective
        <4>5. GroupChanges!Range(window') \subseteq DOMAIN events
          BY <1>0, <2>1, <4>2, Zenon DEF GroupChanges!TypeOK, GroupChanges!Range
        <4> QED
          BY <4>2, <4>4, <4>5
      <3> QED
        BY <3>1, <3>2
    <2> QED
      BY <1>4, <2>1, <2>3
  <1>7. CASE GroupChanges!Aggregate
    BY <1>7, AggregateStep
  <1>8. CASE GroupChanges!NextBlock
    <2>1. /\ phase' = "mining" /\ before' = groups /\ events' = <<>> /\ window' = <<>>
          /\ groups' = groups
      BY <1>8 DEF GroupChanges!NextBlock
    <2>2. GroupChanges!TypeOK'
      BY <1>0, <2>1 DEF GroupChanges!TypeOK, GroupChanges!IsInjective, GroupChanges!Range
    <2>3. IsGroupLog'
      BY <2>1 DEF IsGroupLog
    <2>4. NowIsLast' /\ ClearedOnTheWay'
      <3>1. \A g \in Groups : Of(g)' = {}
        <4>1. DOMAIN events' = {}
          BY <2>1
        <4> QED
          BY <4>1 DEF Of
      <3> QED
        BY <2>1, <3>1 DEF NowIsLast, ClearedOnTheWay, GroupChanges!Emitted
    <2>5. GroupChanges!NetChangeIsTold' /\ GroupChanges!NameIsHonest'
      BY <2>1 DEF GroupChanges!NetChangeIsTold, GroupChanges!NameIsHonest
    <2> QED
      BY <2>2, <2>3, <2>4, <2>5 DEF GroupsInv
  <1>9. CASE UNCHANGED GroupChanges!vars
    BY <1>9
    DEF GroupChanges!vars, GroupsInv, GroupChanges!TypeOK, IsGroupLog, NowIsLast, ClearedOnTheWay, Of,
        GroupChanges!Emitted, GroupChanges!NetChangeIsTold, GroupChanges!NameIsHonest,
        GroupChanges!Told, GroupChanges!ToldUpdated, GroupChanges!ToldCleared,
        GroupChanges!ToldCreated
  <1> QED
    BY <1>1, <1>2, <1>3, <1>5, <1>6, <1>7, <1>8, <1>9 DEF GroupChanges!Next

(* Whatever happened to the groups of operators within a block, and in       *)
(* whatever order its events arrived, the followers of their operators are   *)
(* told of the net change and of nothing else, under its right name          *)
(* (aggregation.py 231-286, curated/events.py 380-502).                      *)
THEOREM FollowersLearnTheNetChange == GroupChanges!Spec => []GroupsAreTold
  <1>1. GroupsInv => GroupsAreTold
    BY DEF GroupsInv, GroupsAreTold
  <1> QED
    BY <1>1, GroupsInvInit, GroupsInvStep, PTL DEF GroupChanges!Spec

-----------------------------------------------------------------------------
(* The figures of FigureMessages.  Every event behind the checkpoint was     *)
(* told, or is in the digest, and so are the events that have come since.    *)

Windowed == kind \in {"total", "weight", "curve"}

(* The events in a store.                                                  *)
EventsOf(s) == Figures!Range(s)

(* What was handed over since the checkpoint is collected.                   *)
AllCollected == kind # "limit" => \A i \in DOMAIN log :
  (checkpoint < log[i].block /\ log[i].block < block) \/ i \in arrived => i \in EventsOf(collected)

(* A window has no events of before the checkpoint c that it was stored      *)
(* with, and the last figure told has not changed until c since; the digest  *)
(* has all events until c after any of its own, and after the last one told. *)
Fits(c, s) ==
  /\ Windowed =>
       /\ \A i \in EventsOf(s) : log[i].block > c
       /\ \A op \in Operators : \A b \in told[op].block..c :
            Figures!FigureAt(op, b) = told[op].figure
  /\ kind = "deposited" => \A j \in DOMAIN log : log[j].block <= c =>
       /\ (\E i \in EventsOf(s) : i < j) => j \in EventsOf(s)
       /\ told[log[j].op].block < log[j].block => j \in EventsOf(s)

ToldWasTrue ==
  \A op \in Operators : told[op].figure = Figures!FigureAt(op, told[op].block)

FiguresInv ==
  /\ Figures!TypeOK /\ Figures!IsLog
  /\ disk.checkpoint <= checkpoint
  /\ AllCollected /\ Fits(checkpoint, collected) /\ Fits(disk.checkpoint, disk.store)
  /\ ToldWasTrue

LEMMA FigureConstants ==
  /\ FigureBlocks \in Nat /\ MaxFigure \in Nat /\ MaxFigureEvents \in Nat /\ MaxCrashes \in Nat
  BY PartsAssumption DEF Figures!FigureAssumption

LEMMA LeastOf ==
  ASSUME NEW S, S \subseteq Nat, S # {}
  PROVE  \E i \in S : \A j \in S : i <= j
  <1>1. PICK i \in S : \A j \in S : ~(<<j, i>> \in OpToRel(<, Nat))
    BY NatLessThanWellFounded, WFMin
  <1>2. \A j \in S : ~(j < i)
    BY <1>1 DEF OpToRel
  <1>3. i \in Nat /\ \A j \in S : j \in Nat
    OBVIOUS
  <1> QED
    BY <1>2, <1>3

LEMMA GreatestOf ==
  ASSUME NEW n \in Nat, NEW S, S \subseteq 0..n, S # {}
  PROVE  \E i \in S : \A j \in S : j <= i
  <1> DEFINE T == {n - j : j \in S}
  <1>1. T \subseteq Nat /\ T # {}
    <2>1. \A j \in S : j \in 0..n /\ n - j \in Nat
      OBVIOUS
    <2> QED
      BY <2>1
  <1>2. PICK t \in T : \A u \in T : t <= u
    <2> HIDE DEF T
    <2> QED
      BY <1>1, LeastOf
  <1>3. PICK i \in S : t = n - i
    OBVIOUS
  <1>4. ASSUME NEW j \in S
        PROVE  j <= i
    <2>1. n - j \in T
      OBVIOUS
    <2>2. n - i <= n - j
      BY <1>2, <1>3, <2>1
    <2> QED
      BY <2>2
  <1> QED
    BY <1>4

(* The places of a set of numbers in their order.                            *)
Rank(S, i) == Cardinality({j \in S : j < i})

LEMMA RanksAre ==
  ASSUME NEW S, S \subseteq Nat, IsFiniteSet(S)
  PROVE  /\ Cardinality(S) \in Nat
         /\ \A k \in 1..Cardinality(S) : \E i \in S : Rank(S, i) = k - 1
         /\ \A i \in S : Rank(S, i) + 1 \in 1..Cardinality(S)
         /\ \A i, j \in S : Rank(S, i) = Rank(S, j) => i = j
  <1> DEFINE n == Cardinality(S)
             below(i) == {j \in S : j < i}
             place == [i \in S |-> Rank(S, i) + 1]
  <1>1. n \in Nat
    BY FS_CardinalityType
  <1>2. \A i \in S : IsFiniteSet(below(i)) /\ Rank(S, i) \in 0..(n - 1)
    <2> SUFFICES ASSUME NEW i \in S
                 PROVE  IsFiniteSet(below(i)) /\ Rank(S, i) \in 0..(n - 1)
      OBVIOUS
    <2>1. below(i) \in SUBSET S /\ below(i) # S
      OBVIOUS
    <2> HIDE DEF below
    <2>2. IsFiniteSet(below(i)) /\ Cardinality(below(i)) <= n /\ Cardinality(below(i)) # n
      BY <2>1, FS_Subset
    <2>3. Cardinality(below(i)) \in Nat
      BY <2>2, FS_CardinalityType
    <2> QED
      BY <1>1, <2>2, <2>3 DEF Rank, below
  <1> HIDE DEF n, below
  <1>3. ASSUME NEW i \in S, NEW j \in S, j < i
        PROVE  Rank(S, j) < Rank(S, i)
    <2>1. below(j) \in SUBSET below(i) /\ j \in below(i) /\ j \notin below(j)
      <3>1. i \in Nat /\ j \in Nat /\ \A q \in S : q \in Nat
        OBVIOUS
      <3>2. ~(j < j) /\ \A q \in S : q < j => q < i
        BY <1>3, <3>1
      <3> QED
        BY <1>3, <3>2 DEF below
    <2>2. below(j) # below(i)
      BY <2>1
    <2>3. Cardinality(below(j)) <= Cardinality(below(i)) /\ Cardinality(below(j)) # Cardinality(below(i))
      BY <1>2, <2>1, <2>2, FS_Subset
    <2>4. Rank(S, i) = Cardinality(below(i)) /\ Rank(S, j) = Cardinality(below(j))
      BY DEF Rank, below
    <2> QED
      BY <1>2, <2>3, <2>4
  <1>4. place \in Injection(S, 1..n)
    <2>1. place \in [S -> 1..n]
      BY <1>1, <1>2
    <2>2. ASSUME NEW i \in S, NEW j \in S, place[i] = place[j]
          PROVE  i = j
      <3>1. Rank(S, i) = Rank(S, j)
        BY <1>1, <1>2, <2>2
      <3>2. i \in Nat /\ j \in Nat
        OBVIOUS
      <3>3. ~(i < j) /\ ~(j < i)
        BY <1>1, <1>2, <1>3, <3>1
      <3> QED
        BY <3>2, <3>3
    <2> HIDE DEF place
    <2> QED
      BY <2>1, <2>2 DEF Injection, IsInjective
  <1>5. \A k \in 1..n : \E i \in S : place[i] = k
    <2>1. IsFiniteSet(1..n) /\ Cardinality(1..n) = n /\ Cardinality(S) = n
      BY <1>1, FS_Interval DEF n
    <2> HIDE DEF place
    <2>2. place \in Surjection(S, 1..n)
      BY <1>4, <2>1, FS_Injection
    <2> QED
      BY <2>2 DEF Surjection
  <1>6. \A k \in 1..n : \E i \in S : Rank(S, i) = k - 1
    <2> SUFFICES ASSUME NEW k \in 1..n
                 PROVE  \E i \in S : Rank(S, i) = k - 1
      OBVIOUS
    <2>1. PICK i \in S : place[i] = k
      BY <1>5
    <2>2. Rank(S, i) + 1 = k /\ Rank(S, i) \in Int
      BY <1>1, <1>2, <2>1
    <2> QED
      BY <2>2
  <1>7. \A i, j \in S : Rank(S, i) = Rank(S, j) => i = j
    <2> SUFFICES ASSUME NEW i \in S, NEW j \in S, Rank(S, i) = Rank(S, j)
                 PROVE  i = j
      OBVIOUS
    <2>1. place[i] = place[j]
      OBVIOUS
    <2> HIDE DEF place
    <2> QED
      BY <1>4, <2>1 DEF Injection, IsInjective
  <1>8. \A i \in S : Rank(S, i) + 1 \in 1..n
    BY <1>1, <1>2
  <1> QED
    BY <1>1, <1>6, <1>7, <1>8 DEF n

(* What is left of a store: the events after a block, each once.             *)
LEMMA LaterIs ==
  ASSUME Figures!IsStore(collected), NEW b
  PROVE  /\ Figures!IsStore(Figures!Later(b))
         /\ EventsOf(Figures!Later(b)) = {i \in EventsOf(collected) : log[i].block > b}
  <1> DEFINE P == {n \in DOMAIN collected : log[collected[n]].block > b}
             c == Cardinality(P)
             nth(k) == CHOOSE n \in P : Rank(P, n) = k - 1
             t == Figures!Later(b)
  <1>1. collected \in Seq(DOMAIN log) /\ DOMAIN collected = 1..Len(collected) /\ Len(collected) \in Nat
    BY DEF Figures!IsStore
  <1>2. \A m, n \in DOMAIN collected : collected[m] = collected[n] => m = n
    BY DEF Figures!IsStore, Figures!IsInjective
  <1>3. P \subseteq Nat /\ P \subseteq 1..Len(collected)
    BY <1>1
  <1>4. IsFiniteSet(P)
    <2>1. IsFiniteSet(1..Len(collected))
      BY <1>1, FS_Interval
    <2> QED
      BY <1>3, <2>1, FS_Subset
  <1>5. t = [k \in 1..c |-> collected[nth(k)]]
    BY DEF Figures!Later, Rank, Cardinality, Figures!Cardinality
  <1> HIDE DEF P, t
  <1>6. c \in Nat
    BY <1>3, <1>4, RanksAre
  <1>7. \A k \in 1..c : nth(k) \in P /\ Rank(P, nth(k)) = k - 1
    BY <1>3, <1>4, RanksAre
  <1>8. \A n \in P : \E k \in 1..c : nth(k) = n
    <2> SUFFICES ASSUME NEW n \in P
                 PROVE  \E k \in 1..c : nth(k) = n
      OBVIOUS
    <2> DEFINE k == Rank(P, n) + 1
    <2>1. k \in 1..c /\ Rank(P, n) = k - 1
      <3>1. k \in 1..c
        BY <1>3, <1>4, RanksAre
      <3>2. Cardinality({j \in P : j < n}) \in Nat
        <4>1. IsFiniteSet({j \in P : j < n})
          BY <1>4, FS_Subset
        <4> QED
          BY <4>1, FS_CardinalityType
      <3> QED
        BY <3>1, <3>2 DEF Rank
    <2>2. nth(k) \in P /\ Rank(P, nth(k)) = Rank(P, n)
      <3> HIDE DEF k, nth
      <3> QED
        BY <1>7, <2>1
    <2>3. nth(k) = n
      <3> HIDE DEF k, nth
      <3> QED
        BY <1>3, <1>4, <2>2, RanksAre
    <2> QED
      BY <2>1, <2>3
  <1> HIDE DEF nth
  <1>9. \A k \in 1..c : t[k] = collected[nth(k)] /\ nth(k) \in DOMAIN collected
    BY <1>5, <1>7 DEF P
  <1>10. t \in Seq(DOMAIN log) /\ DOMAIN t = 1..c
    BY <1>1, <1>5, <1>6, <1>9
  <1>11. \A k, l \in 1..c : t[k] = t[l] => k = l
    <2> SUFFICES ASSUME NEW k \in 1..c, NEW l \in 1..c, t[k] = t[l]
                 PROVE  k = l
      OBVIOUS
    <2>1. nth(k) = nth(l)
      BY <1>2, <1>9
    <2>2. k - 1 = l - 1
      BY <1>7, <2>1
    <2> QED
      BY <1>6, <2>2
  <1>12. Figures!IsStore(t)
    BY <1>10, <1>11 DEF Figures!IsStore, Figures!IsInjective
  <1>13. EventsOf(t) = {i \in EventsOf(collected) : log[i].block > b}
    <2>1. EventsOf(t) = {t[k] : k \in 1..c} /\ EventsOf(collected) = {collected[n] : n \in DOMAIN collected}
      BY <1>10 DEF EventsOf, Figures!Range
    <2>2. ASSUME NEW k \in 1..c
          PROVE  t[k] \in EventsOf(collected) /\ log[t[k]].block > b
      <3>1. nth(k) \in P
        BY <1>7
      <3> QED
        BY <1>9, <2>1, <3>1 DEF P
    <2>3. ASSUME NEW i \in EventsOf(collected), log[i].block > b
          PROVE  i \in EventsOf(t)
      <3>1. PICK n \in DOMAIN collected : collected[n] = i
        BY <2>1
      <3>2. n \in P
        BY <2>3, <3>1 DEF P
      <3>3. PICK k \in 1..c : nth(k) = n
        BY <1>8, <3>2
      <3> QED
        BY <1>9, <2>1, <3>1, <3>3
    <2> QED
      BY <2>1, <2>2, <2>3
  <1> QED
    BY <1>12, <1>13 DEF t

IsChain == log \in Seq(Figures!Event) /\ Figures!IsLog

LEMMA LogIs ==
  ASSUME IsChain
  PROVE  /\ Len(log) \in Nat /\ DOMAIN log = 1..Len(log)
         /\ \A i \in DOMAIN log :
              /\ i \in Nat /\ log[i].block \in 1..FigureBlocks /\ log[i].block \in Nat
              /\ log[i].op \in Operators /\ log[i].figure \in 0..MaxFigure
         /\ \A i, j \in DOMAIN log : i < j => log[i].block <= log[j].block
  <1>1. log \in Seq(Figures!Event)
    BY DEF IsChain
  <1>2. \A i \in DOMAIN log : log[i] \in Figures!Event
    BY <1>1
  <1> QED
    BY <1>1, <1>2, FigureConstants DEF IsChain, Figures!IsLog, Figures!Event

(* The first and the last event of a set.                                    *)
LEMMA FirstAndFinal ==
  ASSUME IsChain, NEW p, p \subseteq DOMAIN log, p # {}
  PROVE  /\ Figures!First(p) \in p /\ \A j \in p : Figures!First(p) <= j
         /\ Figures!Final(p) \in p /\ \A j \in p : j <= Figures!Final(p)
  <1>1. p \subseteq Nat /\ p \subseteq 0..Len(log) /\ Len(log) \in Nat
    BY LogIs
  <1>2. \E i \in p : \A j \in p : i <= j
    BY <1>1, LeastOf
  <1>3. \E i \in p : \A j \in p : j <= i
    BY <1>1, GreatestOf
  <1> QED
    BY <1>2, <1>3 DEF Figures!First, Figures!Final

Until(op, b) == {i \in DOMAIN log : log[i].op = op /\ log[i].block <= b}

LEMMA FigureAtIs ==
  ASSUME IsChain, NEW op, NEW b \in Int
  PROVE  Figures!FigureAt(op, b) =
           IF Until(op, b) = {} THEN 0 ELSE log[Figures!Final(Until(op, b))].figure
  <1>1. Figures!Indexes(op, 1..b, Len(log)) = Until(op, b)
    BY LogIs DEF Figures!Indexes, Until
  <1>2. Figures!FigureAt(op, b) = Figures!Latest(Until(op, b))
    BY <1>1 DEF Figures!FigureAt
  <1> QED
    BY <1>2 DEF Figures!Latest, Figures!Final

LEMMA FigureType ==
  ASSUME IsChain, NEW op, NEW b \in Int
  PROVE  Figures!FigureAt(op, b) \in 0..MaxFigure
  <1>1. Until(op, b) \subseteq DOMAIN log
    BY DEF Until
  <1>2. CASE Until(op, b) = {}
    BY <1>2, FigureAtIs, FigureConstants
  <1>3. CASE Until(op, b) # {}
    BY <1>1, <1>3, FigureAtIs, FirstAndFinal, LogIs
  <1> QED
    BY <1>2, <1>3

(* The figure does not change without an event, and is that of the last one. *)
LEMMA FigureStays ==
  ASSUME IsChain, NEW op, NEW b \in Int, NEW c \in Int, c <= b,
         \A i \in DOMAIN log : log[i].op = op /\ log[i].block <= b => log[i].block <= c
  PROVE  Figures!FigureAt(op, b) = Figures!FigureAt(op, c)
  <1>1. Until(op, b) = Until(op, c)
    BY LogIs DEF Until
  <1> QED
    BY <1>1, FigureAtIs

LEMMA FigureOfLast ==
  ASSUME IsChain, NEW i \in DOMAIN log, NEW b \in Int, log[i].block <= b,
         \A j \in DOMAIN log : log[j].op = log[i].op /\ log[j].block <= b => j <= i
  PROVE  Figures!FigureAt(log[i].op, b) = log[i].figure
  <1> DEFINE S == Until(log[i].op, b)
  <1>1. S \subseteq DOMAIN log /\ i \in S /\ \A j \in S : j <= i
    BY DEF Until
  <1>2. Figures!Final(S) \in S /\ i <= Figures!Final(S)
    BY <1>1, FirstAndFinal
  <1>3. Figures!Final(S) = i
    <2> HIDE DEF S
    <2>1. i \in Nat /\ Figures!Final(S) \in Nat /\ Figures!Final(S) <= i
      BY <1>1, <1>2, LogIs
    <2> QED
      BY <1>2, <2>1
  <1>4. Figures!FigureAt(log[i].op, b) = log[Figures!Final(S)].figure
    BY <1>1, FigureAtIs
  <1> QED
    BY <1>3, <1>4

(* The figure before the first event of an operator in its block.            *)
LEMMA FigureBeforeFirst ==
  ASSUME IsChain, NEW i \in DOMAIN log,
         \A j \in DOMAIN log : log[j].op = log[i].op /\ log[j].block = log[i].block => i <= j
  PROVE  Figures!Before(i) = Figures!FigureAt(log[i].op, log[i].block - 1)
  <1> DEFINE op == log[i].op
             b == log[i].block
  <1>1. \A j \in DOMAIN log : log[j].op = op => (j < i <=> log[j].block <= b - 1)
    <2> SUFFICES ASSUME NEW j \in DOMAIN log, log[j].op = op
                 PROVE  j < i <=> log[j].block <= b - 1
      OBVIOUS
    <2>1. i \in Nat /\ j \in Nat /\ b \in Nat /\ log[j].block \in Nat
      BY LogIs
    <2>2. log[j].block = b => ~(j < i)
      BY <2>1
    <2>3. (j < i => log[j].block <= b) /\ (i < j => b <= log[j].block)
      BY LogIs
    <2> QED
      BY <2>1, <2>2, <2>3
  <1>2. Figures!Indexes(op, 1..FigureBlocks, i - 1) = {j \in DOMAIN log : log[j].op = op /\ j < i}
    BY LogIs, FigureConstants DEF Figures!Indexes
  <1>3. Figures!Indexes(op, 1..(b - 1), Len(log)) = {j \in DOMAIN log : log[j].op = op /\ log[j].block <= b - 1}
    BY LogIs DEF Figures!Indexes
  <1>4. Figures!Indexes(op, 1..FigureBlocks, i - 1) = Figures!Indexes(op, 1..(b - 1), Len(log))
    BY <1>1, <1>2, <1>3
  <1> QED
    BY <1>4 DEF Figures!Before, Figures!FigureAt

(* A figure that each block leaves alone is left alone by all of them.       *)
LEMMA FigureThroughBlocks ==
  ASSUME NEW op, NEW b \in Nat, NEW c \in Nat, c <= b,
         \A d \in (c + 1)..b : Figures!FigureAt(op, d) = Figures!FigureAt(op, d - 1)
  PROVE  \A d \in c..b : Figures!FigureAt(op, d) = Figures!FigureAt(op, c)
  <1> DEFINE Bad == {d \in c..b : Figures!FigureAt(op, d) # Figures!FigureAt(op, c)}
  <1> SUFFICES ASSUME Bad # {}
               PROVE  FALSE
    OBVIOUS
  <1>1. PICK d \in Bad : \A e \in Bad : d <= e
    <2>1. Bad \subseteq Nat
      OBVIOUS
    <2> HIDE DEF Bad
    <2> QED
      BY <2>1, LeastOf
  <1>2. d \in (c + 1)..b /\ d - 1 \in c..b
    OBVIOUS
  <1>3. d - 1 \notin Bad
    <2> HIDE DEF Bad
    <2> QED
      BY <1>1, <1>2
  <1> QED
    BY <1>2, <1>3

(* The part of an operator in a set of events, and the message about it.     *)
Part(I, op) == {j \in I : log[j].op = op}

LEMMA PartsAre ==
  ASSUME IsChain, NEW I, I \subseteq DOMAIN log
  PROVE  /\ \A p \in Figures!Parts(I) :
              \E op \in Operators : p = Part(I, op) /\ p # {} /\ p \subseteq DOMAIN log
         /\ \A op : Part(I, op) # {} => Part(I, op) \in Figures!Parts(I)
  <1>1. ASSUME NEW i \in I
        PROVE  /\ log[i].op \in Operators /\ i \in Part(I, log[i].op)
               /\ Part(I, log[i].op) \subseteq DOMAIN log
    BY LogIs DEF Part
  <1>2. Figures!Parts(I) = {Part(I, log[i].op) : i \in I}
    BY DEF Figures!Parts, Part
  <1>3. \A op : \A i \in Part(I, op) : i \in I /\ log[i].op = op
    BY DEF Part
  <1> QED
    BY <1>1, <1>2, <1>3

LEMMA MessageIs ==
  ASSUME IsChain, NEW I, I \subseteq DOMAIN log, NEW p \in Figures!Parts(I), NEW old
  PROVE  LET m == Figures!Message(p, old) IN
         /\ m.op \in Operators /\ p = Part(I, m.op) /\ m.old = old
         /\ m.first = Figures!First(p) /\ log[Figures!First(p)].op = m.op
         /\ m.first \in p /\ m.last \in p /\ m.first \in DOMAIN log /\ m.last \in DOMAIN log
         /\ \A j \in p : m.first <= j /\ j <= m.last
         /\ log[m.last].op = m.op /\ m.new = log[m.last].figure
  <1> DEFINE m == Figures!Message(p, old)
  <1>1. PICK op \in Operators : p = Part(I, op) /\ p # {} /\ p \subseteq DOMAIN log
    BY PartsAre
  <1>2. /\ Figures!First(p) \in p /\ \A j \in p : Figures!First(p) <= j
        /\ Figures!Final(p) \in p /\ \A j \in p : j <= Figures!Final(p)
    BY <1>1, FirstAndFinal
  <1>3. log[Figures!First(p)].op = op /\ log[Figures!Final(p)].op = op
    BY <1>1, <1>2 DEF Part
  <1>4. /\ m.op = log[Figures!Final(p)].op /\ m.old = old /\ m.new = log[Figures!Final(p)].figure
        /\ m.first = Figures!First(p) /\ m.last = Figures!Final(p)
    BY DEF Figures!Message
  <1> HIDE DEF m
  <1> QED
    BY <1>1, <1>2, <1>3, <1>4 DEF m

(* The last message about an operator.                                       *)
LEMMA LastOfIs ==
  ASSUME NEW ms, NEW n \in Nat, DOMAIN ms = 1..n, NEW op, NEW r
  PROVE  \/ /\ \A k \in 1..n : \A m \in ms[k] : m.op # op
            /\ Figures!LastOf(ms, op, r) = r
         \/ \E k \in 1..n : \E m \in ms[k] :
              /\ m.op = op /\ \A l \in (k + 1)..n : \A x \in ms[l] : x.op # op
              /\ Figures!LastOf(ms, op, r) = [figure |-> m.new, block |-> log[m.last].block]
  <1> DEFINE of == {k \in DOMAIN ms : \E m \in ms[k] : m.op = op}
             last == CHOOSE k \in of : \A l \in of : l <= k
             m == CHOOSE m \in ms[last] : m.op = op
  <1>1. Figures!LastOf(ms, op, r) =
          IF of = {} THEN r ELSE [figure |-> m.new, block |-> log[m.last].block]
    BY DEF Figures!LastOf
  <1>2. CASE of = {}
    BY <1>1, <1>2
  <1>3. CASE of # {}
    <2>1. of \subseteq 0..n
      OBVIOUS
    <2>2. \E k \in of : \A l \in of : l <= k
      <3> HIDE DEF of
      <3> QED
        BY <1>3, <2>1, GreatestOf
    <2>3. last \in of /\ \A l \in of : l <= last
      <3> HIDE DEF of
      <3> QED
        BY <2>2
    <2> HIDE DEF last
    <2>4. last \in 1..n /\ \E x \in ms[last] : x.op = op
      BY <2>3
    <2>5. m \in ms[last] /\ m.op = op
      BY <2>4
    <2>6. \A l \in (last + 1)..n : \A x \in ms[l] : x.op # op
      <3> SUFFICES ASSUME NEW l \in (last + 1)..n, NEW x \in ms[l], x.op = op
                   PROVE  FALSE
        OBVIOUS
      <3>1. l \in 1..n /\ ~(l <= last)
        BY <2>4
      <3>2. l \in of
        BY <3>1
      <3> QED
        BY <2>3, <3>1, <3>2
    <2> HIDE DEF m, of
    <2> QED
      BY <1>1, <1>3, <2>4, <2>5, <2>6
  <1> QED
    BY <1>2, <1>3

(* The messages of a window whose block has been handed over.                *)
LEMMA WindowTells ==
  ASSUME IsChain, Windowed, NEW b \in 1..FigureBlocks, EventsOf(collected) \subseteq DOMAIN log,
         \A i \in DOMAIN log : log[i].block = b => i \in EventsOf(collected)
  PROVE  LET W == Figures!WindowMessages(Figures!OfWindow(b)) IN
         /\ \A m \in W :
              /\ m.op \in Operators /\ m.first \in DOMAIN log /\ m.last \in DOMAIN log
              /\ log[m.first].block = b /\ log[m.last].block = b
              /\ m.old = IF kind = "curve" THEN Figures!Untold ELSE Figures!FigureAt(m.op, b - 1)
              /\ m.new = Figures!FigureAt(m.op, b)
         /\ \A op \in Operators : (\A m \in W : m.op # op) =>
              Figures!FigureAt(op, b) = Figures!FigureAt(op, b - 1)
  <1> DEFINE I == {i \in DOMAIN log : log[i].block = b}
             W == Figures!WindowMessages(I)
             Was(p) == IF kind = "curve" THEN Figures!Untold
                       ELSE Figures!FigureAt(log[Figures!First(p)].op, b - 1)
  <1>1. Figures!OfWindow(b) = I
    BY DEF Figures!OfWindow, EventsOf
  <1>2. b \in Nat /\ b - 1 \in Int /\ I \subseteq DOMAIN log
    BY FigureConstants
  <1>3. ASSUME NEW p \in Figures!Parts(I), NEW old
        PROVE  LET m == Figures!Message(p, old) IN
               /\ log[m.first].block = b /\ log[m.last].block = b
               /\ m.new = Figures!FigureAt(m.op, b)
    <2> DEFINE m == Figures!Message(p, old)
    <2>1. /\ m.op \in Operators /\ p = Part(I, m.op)
          /\ m.first \in p /\ m.last \in p /\ m.first \in DOMAIN log /\ m.last \in DOMAIN log
          /\ \A j \in p : m.first <= j /\ j <= m.last
          /\ log[m.last].op = m.op /\ m.new = log[m.last].figure
      BY <1>2, MessageIs
    <2> HIDE DEF m
    <2>2. log[m.first].block = b /\ log[m.last].block = b
      BY <2>1 DEF Part
    <2>3. ASSUME NEW j \in DOMAIN log, log[j].op = m.op, log[j].block <= b
          PROVE  j <= m.last
      <3>1. j \in Nat /\ m.last \in Nat /\ log[j].block \in Nat
        BY <2>1, LogIs
      <3>2. m.last < j => b <= log[j].block
        BY <2>1, <2>2, LogIs
      <3>3. log[j].block = b => j \in p
        BY <2>1, <2>3 DEF Part
      <3> QED
        BY <1>2, <2>1, <2>3, <3>1, <3>2, <3>3
    <2>4. m.new = Figures!FigureAt(m.op, b)
      BY <1>2, <2>1, <2>2, <2>3, FigureOfLast
    <2> QED
      BY <2>2, <2>4 DEF m
  <1>4. ASSUME NEW p \in Figures!Parts(I)
        PROVE  /\ Figures!First(p) \in DOMAIN log /\ log[Figures!First(p)].block = b
               /\ Figures!Before(Figures!First(p)) = Figures!FigureAt(log[Figures!First(p)].op, b - 1)
               /\ Figures!ReadOld(p) = Figures!FigureAt(log[Figures!First(p)].op, b - 1)
    <2> DEFINE i == Figures!First(p)
    <2>1. PICK op \in Operators : p = Part(I, op) /\ p # {} /\ p \subseteq DOMAIN log
      BY <1>2, PartsAre
    <2>2. i \in p /\ \A j \in p : i <= j
      BY <2>1, FirstAndFinal
    <2> HIDE DEF i
    <2>3. i \in DOMAIN log /\ log[i].block = b /\ log[i].op = op
      BY <2>1, <2>2 DEF Part
    <2>4. \A j \in DOMAIN log : log[j].op = log[i].op /\ log[j].block = log[i].block => i <= j
      BY <2>1, <2>2, <2>3 DEF Part
    <2>5. Figures!Before(i) = Figures!FigureAt(log[i].op, b - 1)
      BY <2>3, <2>4, FigureBeforeFirst
    <2> QED
      BY <2>3, <2>5 DEF Figures!ReadOld, Figures!ReadAt, i
  <1>5. W = {m \in {Figures!Message(p, Was(p)) : p \in Figures!Parts(I)} :
               kind = "weight" => m.old # m.new}
    <2>1. CASE kind = "total"
      BY <1>4, <2>1 DEF Figures!WindowMessages, Figures!TotalKeys
    <2>2. CASE kind = "weight"
      BY <1>4, <2>2 DEF Figures!WindowMessages, Figures!EffectiveWeights
    <2>3. CASE kind = "curve"
      BY <2>3 DEF Figures!WindowMessages, Figures!CurveWeights
    <2> QED
      BY <2>1, <2>2, <2>3 DEF Windowed
  <1> HIDE DEF W
  <1>6. ASSUME NEW p \in Figures!Parts(I)
        PROVE  LET m == Figures!Message(p, Was(p)) IN
               /\ m.op \in Operators /\ m.first \in DOMAIN log /\ m.last \in DOMAIN log
               /\ log[m.first].block = b /\ log[m.last].block = b
               /\ m.old = IF kind = "curve" THEN Figures!Untold ELSE Figures!FigureAt(m.op, b - 1)
               /\ m.new = Figures!FigureAt(m.op, b)
               /\ p = Part(I, m.op)
    <2> DEFINE m == Figures!Message(p, Was(p))
    <2>1. /\ m.op \in Operators /\ p = Part(I, m.op) /\ m.old = Was(p)
          /\ log[Figures!First(p)].op = m.op /\ m.first \in DOMAIN log /\ m.last \in DOMAIN log
      BY <1>2, MessageIs
    <2>2. log[m.first].block = b /\ log[m.last].block = b /\ m.new = Figures!FigureAt(m.op, b)
      BY <1>3
    <2> HIDE DEF m
    <2>3. m.old = IF kind = "curve" THEN Figures!Untold ELSE Figures!FigureAt(m.op, b - 1)
      BY <2>1
    <2> QED
      BY <2>1, <2>2, <2>3 DEF m
  <1>7. ASSUME NEW op \in Operators, \A m \in W : m.op # op
        PROVE  Figures!FigureAt(op, b) = Figures!FigureAt(op, b - 1)
    <2>1. CASE Part(I, op) = {}
      <3>1. \A i \in DOMAIN log : log[i].op = op /\ log[i].block <= b => log[i].block <= b - 1
        BY <1>2, <2>1, LogIs DEF Part
      <3> QED
        BY <1>2, <3>1, FigureStays
    <2>2. CASE Part(I, op) # {}
      <3> DEFINE p == Part(I, op)
                 m == Figures!Message(p, Was(p))
      <3>1. p \in Figures!Parts(I)
        BY <1>2, <2>2, PartsAre
      <3>2. /\ p = Part(I, m.op) /\ m.new = Figures!FigureAt(m.op, b)
            /\ m.old = IF kind = "curve" THEN Figures!Untold ELSE Figures!FigureAt(m.op, b - 1)
        BY <1>6, <3>1
      <3>3. m.op = op
        BY <2>2, <3>2 DEF Part
      <3>4. m \notin W
        BY <1>7, <3>3
      <3>5. kind = "weight" /\ m.old = m.new
        BY <1>5, <3>1, <3>4
      <3> HIDE DEF m
      <3> QED
        BY <3>2, <3>3, <3>5
    <2> QED
      BY <2>1, <2>2
  <1> QED
    BY <1>1, <1>5, <1>6, <1>7 DEF W

LEMMA FiguresType ==
  ASSUME FiguresInv
  PROVE  /\ IsChain /\ checkpoint \in Nat /\ checkpoint \in 0..FigureBlocks
         /\ block \in (checkpoint + 1)..(FigureBlocks + 1)
         /\ disk.checkpoint \in 0..FigureBlocks /\ disk.checkpoint <= checkpoint
         /\ told \in [Operators -> [figure : 0..MaxFigure, block : 0..FigureBlocks]]
         /\ collected \in Seq(DOMAIN log) /\ EventsOf(collected) \subseteq DOMAIN log
  BY FigureConstants
  DEF FiguresInv, Figures!TypeOK, IsChain, EventsOf, Figures!Range, Figures!IsStore

(* The events of the digest, when its time has come.                         *)
LEMMA DigestTells ==
  ASSUME FiguresInv, kind = "deposited"
  PROVE  LET D == Figures!DepositedKeys(Figures!Ready) IN
         /\ \A m \in D :
              /\ m.op \in Operators /\ m.first \in DOMAIN log /\ m.last \in DOMAIN log
              /\ log[m.last].block <= checkpoint
              /\ \A j \in DOMAIN log :
                   log[j].op = m.op /\ log[j].block <= checkpoint => j <= m.last
              /\ m.old = Figures!FigureAt(m.op, log[m.first].block - 1)
              /\ m.new = Figures!FigureAt(m.op, checkpoint)
              /\ m.new = Figures!FigureAt(m.op, log[m.last].block)
              /\ m.old = told[m.op].figure \/ log[m.first].block <= told[m.op].block
         /\ \A i \in Figures!Ready : \E m \in D : m.op = log[i].op
  <1> DEFINE I == Figures!Ready
             D == Figures!DepositedKeys(I)
  <1>1. /\ IsChain /\ checkpoint \in Nat /\ told \in [Operators -> [figure : 0..MaxFigure, block : 0..FigureBlocks]]
        /\ EventsOf(collected) \subseteq DOMAIN log
    BY FigureConstants DEF FiguresInv, Figures!TypeOK, IsChain, EventsOf, Figures!Range, Figures!IsStore
  <1>2. I = {i \in EventsOf(collected) : log[i].block <= checkpoint} /\ I \subseteq DOMAIN log
    BY <1>1 DEF Figures!Ready, EventsOf
  <1>3. \A j \in DOMAIN log : log[j].block <= checkpoint =>
          /\ (\E i \in EventsOf(collected) : i < j) => j \in I
          /\ told[log[j].op].block < log[j].block => j \in I
    BY <1>2 DEF FiguresInv, Fits
  <1>4. D = {Figures!Message(p, Figures!ReadOld(p)) : p \in Figures!Parts(I)}
    BY DEF Figures!DepositedKeys
  <1> HIDE DEF I, D
  <1>5. ASSUME NEW p \in Figures!Parts(I)
        PROVE  LET m == Figures!Message(p, Figures!ReadOld(p)) IN
               /\ p = Part(I, m.op)
               /\ m.op \in Operators /\ m.first \in DOMAIN log /\ m.last \in DOMAIN log
               /\ log[m.last].block <= checkpoint
               /\ \A j \in DOMAIN log :
                    log[j].op = m.op /\ log[j].block <= checkpoint => j <= m.last
               /\ m.old = Figures!FigureAt(m.op, log[m.first].block - 1)
               /\ m.new = Figures!FigureAt(m.op, checkpoint)
               /\ m.new = Figures!FigureAt(m.op, log[m.last].block)
               /\ m.old = told[m.op].figure \/ log[m.first].block <= told[m.op].block
    <2> DEFINE m == Figures!Message(p, Figures!ReadOld(p))
    <2>1. /\ m.op \in Operators /\ p = Part(I, m.op) /\ m.old = Figures!ReadOld(p)
          /\ m.first = Figures!First(p) /\ log[Figures!First(p)].op = m.op
          /\ m.first \in p /\ m.last \in p /\ m.first \in DOMAIN log /\ m.last \in DOMAIN log
          /\ \A j \in p : m.first <= j /\ j <= m.last
          /\ log[m.last].op = m.op /\ m.new = log[m.last].figure
      BY <1>1, <1>2, MessageIs
    <2> HIDE DEF m
    <2>2. m.first \in I /\ m.last \in I /\ log[m.last].block <= checkpoint /\ log[m.first].block <= checkpoint
      BY <1>2, <2>1 DEF Part
    <2>3. /\ m.first \in Nat /\ m.last \in Nat /\ log[m.first].block \in Nat /\ log[m.last].block \in Nat
          /\ told[m.op].block \in Nat /\ told[m.op].block \in Int
      BY <1>1, <2>1, LogIs
    <2>4. ASSUME NEW j \in DOMAIN log, log[j].op = m.op, log[j].block <= checkpoint
          PROVE  j <= m.last
      <3>1. j \in Nat
        BY <1>1, LogIs
      <3>2. m.first < j => j \in I
        BY <1>2, <1>3, <2>2, <2>4
      <3>3. j \in I => j \in p
        BY <2>1, <2>4 DEF Part
      <3> QED
        BY <2>1, <2>3, <3>1, <3>2, <3>3
    <2>5. m.old = Figures!FigureAt(m.op, log[m.first].block - 1)
      BY <2>1 DEF Figures!ReadOld, Figures!ReadAt
    <2>6. m.new = Figures!FigureAt(m.op, checkpoint)
      BY <1>1, <2>1, <2>2, <2>4, FigureOfLast
    <2>7. m.new = Figures!FigureAt(m.op, log[m.last].block)
      <3>1. \A j \in DOMAIN log : log[j].op = m.op /\ log[j].block <= log[m.last].block => j <= m.last
        BY <1>1, <2>2, <2>3, <2>4, LogIs
      <3>2. log[m.last].block \in Int /\ log[m.last].block <= log[m.last].block
        BY <2>3
      <3> QED
        BY <1>1, <2>1, <3>1, <3>2, FigureOfLast
    <2>8. ASSUME told[m.op].block < log[m.first].block
          PROVE  m.old = told[m.op].figure
      <3> DEFINE b == log[m.first].block - 1
                 c == told[m.op].block
      <3>1. b \in Int /\ c \in Int /\ c <= b
        BY <2>3, <2>8
      <3>2. ASSUME NEW j \in DOMAIN log, log[j].op = m.op, log[j].block <= b
            PROVE  log[j].block <= c
        <4>1. j \in Nat /\ log[j].block \in Nat /\ log[j].block < log[m.first].block /\ log[j].block <= checkpoint
          BY <1>1, <2>2, <2>3, <3>2, LogIs
        <4>2. c < log[j].block => j \in p
          BY <1>3, <2>1, <3>2, <4>1 DEF Part
        <4>3. j \in p => m.first <= j
          BY <2>1
        <4>4. m.first < j => log[m.first].block <= log[j].block
          BY <1>1, <2>1, LogIs
        <4> QED
          BY <2>3, <4>1, <4>2, <4>3, <4>4
      <3>3. Figures!FigureAt(m.op, b) = Figures!FigureAt(m.op, c)
        <4> HIDE DEF b, c
        <4> QED
          BY <1>1, <3>1, <3>2, FigureStays
      <3> QED
        BY <2>1, <2>5, <3>3 DEF FiguresInv, ToldWasTrue
    <2> QED
      BY <2>1, <2>2, <2>3, <2>4, <2>5, <2>6, <2>7, <2>8 DEF m
  <1>6. ASSUME NEW i \in I
        PROVE  \E m \in D : m.op = log[i].op
    <2> DEFINE p == Part(I, log[i].op)
               m == Figures!Message(p, Figures!ReadOld(p))
    <2>1. i \in p
      BY DEF Part
    <2>2. p \in Figures!Parts(I)
      BY <1>1, <1>2, <2>1, PartsAre
    <2>3. m \in D
      BY <1>4, <2>2
    <2>4. p = Part(I, m.op)
      BY <1>5, <2>2
    <2>5. m.op = log[i].op
      BY <2>1, <2>4 DEF Part
    <2> QED
      BY <2>3, <2>5
  <1> QED
    BY <1>4, <1>5, <1>6 DEF I, D

(* The windows of a completed block, and of those before it.                 *)
LEMMA WindowsTell ==
  ASSUME FiguresInv, Windowed, Figures!Delivered, NEW k \in 1..block
  PROVE  LET W == Figures!WindowMessages(Figures!OfWindow(k)) IN
         /\ \A m \in W :
              /\ checkpoint < k /\ m.op \in Operators
              /\ m.first \in DOMAIN log /\ m.last \in DOMAIN log
              /\ log[m.first].block = k /\ log[m.last].block = k
              /\ m.old = IF kind = "curve" THEN Figures!Untold ELSE Figures!FigureAt(m.op, k - 1)
              /\ m.new = Figures!FigureAt(m.op, k)
         /\ \A op \in Operators : checkpoint < k /\ (\A m \in W : m.op # op) =>
              Figures!FigureAt(op, k) = Figures!FigureAt(op, k - 1)
  <1> DEFINE W == Figures!WindowMessages(Figures!OfWindow(k))
  <1>1. /\ IsChain /\ checkpoint \in Nat /\ EventsOf(collected) \subseteq DOMAIN log
        /\ block \in (checkpoint + 1)..FigureBlocks
    BY FiguresType, FigureConstants DEF Figures!Delivered
  <1>2. CASE checkpoint < k
    <2>1. ASSUME NEW i \in DOMAIN log, log[i].block = k
          PROVE  i \in EventsOf(collected)
      <3>1. k = block => i \in arrived
        BY <2>1 DEF Figures!Delivered, Figures!OfBlock
      <3>2. k # block => k < block
        BY <1>1
      <3> QED
        BY <1>2, <2>1, <3>1, <3>2 DEF FiguresInv, AllCollected, Windowed
    <2>2. k \in 1..FigureBlocks
      BY <1>1, FigureConstants
    <2> QED
      BY <1>1, <1>2, <2>1, <2>2, WindowTells
  <1>3. CASE ~(checkpoint < k)
    <2>1. Figures!OfWindow(k) = {}
      <3>1. \A i \in EventsOf(collected) : log[i].block > checkpoint /\ log[i].block \in Nat
        BY <1>1, LogIs DEF FiguresInv, Fits
      <3> QED
        BY <1>1, <1>3, <3>1 DEF Figures!OfWindow, EventsOf
    <2>2. Figures!Parts({}) = {}
      BY DEF Figures!Parts
    <2>3. W = {}
      BY <2>1, <2>2 DEF Figures!WindowMessages, Figures!TotalKeys, Figures!EffectiveWeights,
                        Figures!CurveWeights, Windowed
    <2> QED
      BY <1>3, <2>3
  <1> QED
    BY <1>2, <1>3

(* What was last told, after the first windows of a completed block.         *)
LEMMA ToldThrough ==
  ASSUME FiguresInv, Windowed, Figures!Delivered, NEW n \in 0..block, NEW ms, DOMAIN ms = 1..n,
         \A k \in 1..n : ms[k] = Figures!WindowMessages(Figures!OfWindow(k)), NEW op \in Operators
  PROVE  LET t == Figures!LastOf(ms, op, told[op]) IN
         /\ t \in [figure : 0..MaxFigure, block : 0..FigureBlocks]
         /\ t.figure = Figures!FigureAt(op, t.block)
         /\ \A b \in t.block..n : Figures!FigureAt(op, b) = t.figure
         /\ t = told[op] \/ checkpoint < t.block
  <1> DEFINE t == Figures!LastOf(ms, op, told[op])
             W(k) == Figures!WindowMessages(Figures!OfWindow(k))
  <1>1. /\ IsChain /\ checkpoint \in Nat /\ EventsOf(collected) \subseteq DOMAIN log
        /\ told[op] \in [figure : 0..MaxFigure, block : 0..FigureBlocks]
        /\ block \in (checkpoint + 1)..FigureBlocks
    BY FigureConstants
    DEF FiguresInv, Figures!TypeOK, IsChain, EventsOf, Figures!Range, Figures!IsStore, Figures!Delivered
  <1>3. ASSUME NEW k \in (checkpoint + 1)..n
        PROVE  /\ \A m \in W(k) : /\ log[m.last].block = k /\ m.new = Figures!FigureAt(m.op, k)
               /\ (\A m \in W(k) : m.op # op) => Figures!FigureAt(op, k) = Figures!FigureAt(op, k - 1)
    <2>1. k \in 1..block /\ checkpoint < k
      BY <1>1
    <2> QED
      BY <2>1, WindowsTell
  <1>4. ASSUME NEW k \in 1..n, NEW m \in W(k)
        PROVE  checkpoint < k
    <2>1. k \in 1..block
      BY <1>1
    <2> QED
      BY <1>4, <2>1, WindowsTell
  <1> HIDE DEF W
  <1>5. \A k \in 1..n : ms[k] = W(k)
    BY DEF W
  <1>6. n \in Nat /\ told[op].block \in Nat /\ told[op].figure = Figures!FigureAt(op, told[op].block)
    BY <1>1, FigureConstants DEF FiguresInv, ToldWasTrue
  <1>7. CASE (\A k \in 1..n : \A m \in ms[k] : m.op # op) /\ t = told[op]
    <2>1. \A k \in (checkpoint + 1)..n : Figures!FigureAt(op, k) = Figures!FigureAt(op, k - 1)
      BY <1>1, <1>3, <1>5, <1>6, <1>7
    <2>2. \A b \in told[op].block..checkpoint : Figures!FigureAt(op, b) = told[op].figure
      BY DEF FiguresInv, Fits
    <2>3. ASSUME NEW b \in told[op].block..n
          PROVE  Figures!FigureAt(op, b) = told[op].figure
      <3>1. CASE b <= checkpoint
        BY <1>1, <1>6, <2>2, <3>1
      <3>2. CASE checkpoint < b /\ told[op].block <= checkpoint
        <4>1. \A d \in (checkpoint + 1)..b : Figures!FigureAt(op, d) = Figures!FigureAt(op, d - 1)
          BY <1>1, <1>6, <2>1
        <4>2. b \in Nat /\ checkpoint <= b /\ b \in checkpoint..b
          BY <1>1, <1>6, <3>2
        <4>3. Figures!FigureAt(op, b) = Figures!FigureAt(op, checkpoint)
          BY <1>1, <4>1, <4>2, FigureThroughBlocks
        <4> QED
          BY <1>1, <1>6, <2>2, <3>2, <4>3
      <3>3. CASE checkpoint < told[op].block
        <4>1. \A d \in (told[op].block + 1)..b : Figures!FigureAt(op, d) = Figures!FigureAt(op, d - 1)
          BY <1>1, <1>6, <2>1, <3>3
        <4>2. b \in Nat /\ told[op].block <= b /\ b \in told[op].block..b
          BY <1>1, <1>6
        <4>3. Figures!FigureAt(op, b) = Figures!FigureAt(op, told[op].block)
          BY <1>6, <4>1, <4>2, FigureThroughBlocks
        <4> QED
          BY <1>6, <4>3
      <3> QED
        BY <1>1, <1>6, <3>1, <3>2, <3>3
    <2> QED
      BY <1>1, <1>6, <1>7, <2>3
  <1>8. ASSUME NEW k \in 1..n, NEW m \in ms[k], m.op = op,
               \A l \in (k + 1)..n : \A x \in ms[l] : x.op # op,
               t = [figure |-> m.new, block |-> log[m.last].block]
        PROVE  /\ t \in [figure : 0..MaxFigure, block : 0..FigureBlocks]
               /\ t.figure = Figures!FigureAt(op, t.block)
               /\ \A b \in t.block..n : Figures!FigureAt(op, b) = t.figure
               /\ checkpoint < t.block
    <2>1. k \in (checkpoint + 1)..n /\ k \in Nat /\ k <= n
      BY <1>1, <1>4, <1>5, <1>6, <1>8
    <2>2. t = [figure |-> Figures!FigureAt(op, k), block |-> k]
      BY <1>3, <1>5, <1>8, <2>1
    <2>3. \A d \in (k + 1)..n : Figures!FigureAt(op, d) = Figures!FigureAt(op, d - 1)
      <3> SUFFICES ASSUME NEW d \in (k + 1)..n
                   PROVE  Figures!FigureAt(op, d) = Figures!FigureAt(op, d - 1)
        OBVIOUS
      <3>1. d \in (checkpoint + 1)..n /\ d \in 1..n
        BY <1>1, <1>6, <2>1
      <3>2. \A x \in W(d) : x.op # op
        BY <1>5, <1>8, <3>1
      <3> QED
        BY <1>3, <3>1, <3>2
    <2>4. \A d \in k..n : Figures!FigureAt(op, d) = Figures!FigureAt(op, k)
      BY <1>6, <2>1, <2>3, FigureThroughBlocks
    <2>5. Figures!FigureAt(op, k) \in 0..MaxFigure /\ k \in 0..FigureBlocks
      BY <1>1, <2>1, FigureType, FigureConstants
    <2> HIDE DEF t
    <2> QED
      BY <1>1, <2>1, <2>2, <2>4, <2>5
  <1>9. \/ (\A k \in 1..n : \A m \in ms[k] : m.op # op) /\ t = told[op]
        \/ \E k \in 1..n : \E m \in ms[k] :
             /\ m.op = op /\ \A l \in (k + 1)..n : \A x \in ms[l] : x.op # op
             /\ t = [figure |-> m.new, block |-> log[m.last].block]
    <2>1. n \in Nat /\ DOMAIN ms = 1..n
      BY <1>6
    <2>2. \A r :
            \/ (\A k \in 1..n : \A m \in ms[k] : m.op # op) /\ Figures!LastOf(ms, op, r) = r
            \/ \E k \in 1..n : \E m \in ms[k] :
                 /\ m.op = op /\ \A l \in (k + 1)..n : \A x \in ms[l] : x.op # op
                 /\ Figures!LastOf(ms, op, r) = [figure |-> m.new, block |-> log[m.last].block]
      BY <2>1, LastOfIs
    <2> QED
      BY <2>2
  <1> HIDE DEF t
  <1> QED
    BY <1>7, <1>8, <1>9 DEF t

(* No step changes the chain, or what follows from it.                       *)
LEMMA ChainKept ==
  ASSUME log' = log, kind' = kind
  PROVE  /\ \A op, b : Figures!FigureAt(op, b)' = Figures!FigureAt(op, b)
         /\ Figures!IsLog' = Figures!IsLog
         /\ \A s : Figures!IsStore(s)' = Figures!IsStore(s)
         /\ \A b : Figures!OfBlock(b)' = Figures!OfBlock(b)
         /\ Windowed' = Windowed
  BY DEF Figures!FigureAt, Figures!Indexes, Figures!Latest, Figures!IsLog, Figures!Before,
         Figures!IsStore, Figures!OfBlock, Windowed, Figures!IsInjective

(* NoChangeSkipped, of one step.                                             *)
NothingSkipped ==
  \A k \in DOMAIN out' : \A m \in out'[k] :
    LET was == Figures!LastOf(SubSeq(out', 1, k - 1), m.op, told[m.op])
    IN kind \in {"deposited", "total", "weight"}
         => m.old = was.figure \/ log[m.first].block <= was.block

(* A step that tells nothing.                                                *)
LEMMA NothingTold ==
  ASSUME FiguresInv, Figures!Tell(<<>>)
  PROVE  told' = told /\ Figures!FiguresAreTrue' /\ NothingSkipped
  <1>1. out' = <<>> /\ Figures!Told' = {}
    BY DEF Figures!Tell, Figures!Told, Figures!Range
  <1>2. told' = told
    <2>1. told = [op \in Operators |-> told[op]]
      BY DEF FiguresInv, Figures!TypeOK
    <2>2. \A op \in Operators : Figures!LastOf(<<>>, op, told[op]) = told[op]
      BY DEF Figures!LastOf
    <2>3. told' = IF kind = "limit" THEN told
                  ELSE [op \in Operators |-> Figures!LastOf(<<>>, op, told[op])]
      BY DEF Figures!Tell
    <2> QED
      BY <2>1, <2>2, <2>3
  <1>3. Figures!FiguresAreTrue'
    BY <1>1 DEF Figures!FiguresAreTrue
  <1>4. NothingSkipped
    BY <1>1 DEF NothingSkipped
  <1> QED
    BY <1>2, <1>3, <1>4

(* An event is stored once.                                                  *)
LEMMA StoredIs ==
  ASSUME FiguresInv, NEW i \in DOMAIN log
  PROVE  /\ Figures!IsStore(Figures!Stored(i))
         /\ EventsOf(Figures!Stored(i)) = EventsOf(collected) \cup {i}
  <1>1. collected \in Seq(DOMAIN log) /\ DOMAIN collected = 1..Len(collected) /\ Len(collected) \in Nat
    BY FiguresType
  <1>2. \A m, n \in DOMAIN collected : collected[m] = collected[n] => m = n
    BY DEF FiguresInv, Figures!TypeOK, Figures!IsStore, Figures!IsInjective
  <1>3. CASE i \in EventsOf(collected)
    <2>1. Figures!Stored(i) = collected
      BY <1>3 DEF Figures!Stored, EventsOf
    <2> QED
      BY <1>3, <2>1 DEF FiguresInv, Figures!TypeOK
  <1>4. CASE i \notin EventsOf(collected)
    <2> DEFINE s == Append(collected, i)
    <2>1. Figures!Stored(i) = s
      BY <1>4 DEF Figures!Stored, EventsOf
    <2>2. /\ s \in Seq(DOMAIN log) /\ DOMAIN s = 1..(Len(collected) + 1)
          /\ s[Len(collected) + 1] = i /\ \A n \in 1..Len(collected) : s[n] = collected[n]
      BY <1>1
    <2>3. \A n \in 1..Len(collected) : collected[n] # i
      BY <1>1, <1>4 DEF EventsOf, Figures!Range
    <2> HIDE DEF s
    <2>4. \A m, n \in DOMAIN s : s[m] = s[n] => m = n
      BY <1>1, <1>2, <2>2, <2>3
    <2>5. \A j : j \in EventsOf(s) <=> j \in EventsOf(collected) \cup {i}
      <3>1. 1..(Len(collected) + 1) = (1..Len(collected)) \cup {Len(collected) + 1}
        BY <1>1
      <3> QED
        BY <1>1, <2>2, <3>1 DEF EventsOf, Figures!Range
    <2> QED
      BY <2>1, <2>2, <2>4, <2>5 DEF Figures!IsStore, Figures!IsInjective
  <1> QED
    BY <1>3, <1>4

LEMMA FiguresInitially == Figures!Init => FiguresInv /\ Figures!FiguresAreTrue
  <1> SUFFICES ASSUME Figures!Init
               PROVE  FiguresInv /\ Figures!FiguresAreTrue
    OBVIOUS
  <1>1. log \in Seq(Figures!Event)
    <2>1. PICK n \in 0..MaxFigureEvents : log \in [1..n -> Figures!Event]
      BY DEF Figures!Init
    <2> QED
      BY <2>1, FigureConstants
  <1>2. IsChain
    BY <1>1 DEF IsChain, Figures!Init
  <1>3. /\ checkpoint = 0 /\ block = 1 /\ collected = <<>> /\ arrived = {} /\ out = <<>>
        /\ disk = [checkpoint |-> 0, store |-> <<>>] /\ kind \in {"deposited", "total", "weight", "curve", "limit"}
        /\ told = [op \in Operators |-> [figure |-> 0, block |-> 0]]
    BY DEF Figures!Init
  <1>4. Figures!IsStore(<<>>) /\ EventsOf(<<>>) = {}
    BY DEF Figures!IsStore, Figures!IsInjective, EventsOf, Figures!Range
  <1>5. Figures!TypeOK
    BY <1>1, <1>3, <1>4, FigureConstants DEF Figures!TypeOK
  <1>6. \A op : Figures!FigureAt(op, 0) = 0
    <2> SUFFICES ASSUME NEW op
                 PROVE  Figures!FigureAt(op, 0) = 0
      OBVIOUS
    <2>1. Until(op, 0) = {}
      BY <1>2, LogIs DEF Until
    <2> QED
      BY <1>2, <2>1, FigureAtIs
  <1>7. AllCollected
    BY <1>2, <1>3, LogIs DEF AllCollected
  <1>8. Fits(0, <<>>)
    <2>1. \A j \in DOMAIN log : ~(log[j].block <= 0)
      BY <1>2, LogIs
    <2>2. \A op \in Operators : told[op].block = 0 /\ told[op].figure = 0
      BY <1>3
    <2>3. \A b \in 0..0 : b = 0
      OBVIOUS
    <2> QED
      BY <1>4, <1>6, <2>1, <2>2, <2>3 DEF Fits
  <1>9. ToldWasTrue
    BY <1>3, <1>6 DEF ToldWasTrue
  <1>10. Figures!FiguresAreTrue
    BY <1>3 DEF Figures!FiguresAreTrue, Figures!Told, Figures!Range
  <1> QED
    BY <1>2, <1>3, <1>5, <1>7, <1>8, <1>9, <1>10 DEF FiguresInv, IsChain

LEMMA ArriveKeepsFigures ==
  ASSUME FiguresInv, NEW i \in DOMAIN log, Figures!Arrive(i)
  PROVE  FiguresInv' /\ Figures!FiguresAreTrue' /\ NothingSkipped
  <1>1. /\ i \in Figures!OfBlock(block) /\ log[i].block = block /\ arrived' = arrived \cup {i}
        /\ kind' = kind /\ log' = log /\ block' = block /\ checkpoint' = checkpoint /\ disk' = disk
    BY DEF Figures!Arrive, Figures!OfBlock
  <1>2. told' = told /\ Figures!FiguresAreTrue' /\ NothingSkipped
    <2>1. CASE kind = "limit"
      BY <1>1, <2>1 DEF Figures!Arrive, Figures!Tell, Figures!FiguresAreTrue, NothingSkipped
    <2>2. CASE kind # "limit"
      BY <2>2, NothingTold DEF Figures!Arrive
    <2> QED
      BY <2>1, <2>2
  <1>3. /\ Figures!IsStore(collected') /\ EventsOf(collected)' \subseteq EventsOf(collected) \cup {i}
        /\ EventsOf(collected) \subseteq EventsOf(collected)'
        /\ kind # "limit" => i \in EventsOf(collected)'
    <2>1. CASE kind = "limit"
      BY <2>1 DEF Figures!Arrive, EventsOf, Figures!Range, FiguresInv, Figures!TypeOK
    <2>2. CASE kind # "limit"
      <3>1. collected' = Figures!Stored(i)
        BY <2>2 DEF Figures!Arrive
      <3>2. EventsOf(collected)' = EventsOf(Figures!Stored(i))
        BY <3>1 DEF EventsOf, Figures!Range
      <3> QED
        BY <3>1, <3>2, StoredIs
    <2> QED
      BY <2>1, <2>2
  <1>4. Figures!TypeOK'
    <2>1. Figures!IsStore(collected)' /\ Figures!IsStore(disk.store)' /\ Figures!OfBlock(block)' = Figures!OfBlock(block)
      BY <1>1, <1>3, ChainKept DEF FiguresInv, Figures!TypeOK
    <2> QED
      BY <1>1, <1>2, <2>1 DEF FiguresInv, Figures!TypeOK, Figures!Event
  <1>5. AllCollected'
    BY <1>1, <1>3 DEF FiguresInv, AllCollected
  <1>6. Fits(checkpoint, collected)'
    <2>1. ASSUME Windowed
          PROVE  \A j \in EventsOf(collected)' : log[j].block > checkpoint
      BY <1>1, <1>3, <2>1, FiguresType DEF FiguresInv, Fits
    <2>2. ASSUME NEW j \in DOMAIN log, log[j].block <= checkpoint, NEW k \in EventsOf(collected)', k < j
          PROVE  k \in EventsOf(collected)
      <3>1. i < j => log[i].block <= log[j].block
        BY FiguresType, LogIs
      <3>2. log[i].block > checkpoint /\ log[i].block \in Nat /\ log[j].block \in Nat /\ checkpoint \in Nat
        BY <1>1, FiguresType, LogIs
      <3> QED
        BY <1>3, <2>2, <3>1, <3>2
    <2>3. \A op, b : Figures!FigureAt(op, b)' = Figures!FigureAt(op, b)
      BY <1>1, ChainKept
    <2> QED
      BY <1>1, <1>2, <1>3, <2>1, <2>2, <2>3 DEF FiguresInv, Fits, Windowed
  <1>7. Fits(disk.checkpoint, disk.store)' /\ ToldWasTrue' /\ Figures!IsLog'
    BY <1>1, <1>2, ChainKept DEF FiguresInv, Fits, ToldWasTrue, Windowed, EventsOf, Figures!Range
  <1> QED
    BY <1>1, <1>2, <1>4, <1>5, <1>6, <1>7 DEF FiguresInv

(* In the three steps that leave the store, or take it from the disk.        *)
LEMMA QuietStepsKeepFigures ==
  ASSUME FiguresInv, Figures!NextBlockOfBatch \/ Figures!Save \/ Figures!Crash
  PROVE  FiguresInv' /\ Figures!FiguresAreTrue' /\ NothingSkipped
  <1>1. /\ kind' = kind /\ log' = log /\ told' = told
        /\ Figures!FiguresAreTrue' /\ NothingSkipped
    BY NothingTold DEF Figures!NextBlockOfBatch, Figures!Save, Figures!Crash
  <1>2. /\ Figures!IsLog' /\ ToldWasTrue' /\ \A op, b : Figures!FigureAt(op, b)' = Figures!FigureAt(op, b)
        /\ \A s : Figures!IsStore(s)' = Figures!IsStore(s)
        /\ \A b : Figures!OfBlock(b)' = Figures!OfBlock(b)
    BY <1>1, ChainKept DEF FiguresInv, ToldWasTrue
  <1>3. CASE Figures!NextBlockOfBatch
    <2>1. /\ block' = block + 1 /\ arrived' = {} /\ checkpoint' = checkpoint /\ disk' = disk
          /\ collected' = collected /\ block < FigureBlocks /\ Figures!OfBlock(block) \subseteq arrived
      BY <1>3 DEF Figures!NextBlockOfBatch, Figures!Delivered
    <2>2. Figures!TypeOK'
      <3>1. block' \in (checkpoint + 1)..(FigureBlocks + 1)
        BY <2>1, FiguresType, FigureConstants
      <3> QED
        BY <1>1, <1>2, <2>1, <3>1 DEF FiguresInv, Figures!TypeOK, Figures!Event
    <2>3. AllCollected'
      <3>1. \A i \in DOMAIN log : log[i].block < block + 1 => log[i].block < block \/ i \in arrived
        <4>1. \A i \in DOMAIN log : log[i].block \in Nat /\ block \in Int
          BY FiguresType, LogIs
        <4> QED
          BY <2>1, <4>1 DEF Figures!OfBlock
      <3> QED
        BY <1>1, <2>1, <3>1 DEF FiguresInv, AllCollected, EventsOf, Figures!Range
    <2>4. Fits(checkpoint, collected)' /\ Fits(disk.checkpoint, disk.store)'
      BY <1>1, <1>2, <2>1 DEF FiguresInv, Fits, Windowed, EventsOf, Figures!Range
    <2> QED
      BY <1>1, <1>2, <2>1, <2>2, <2>3, <2>4 DEF FiguresInv
  <1>4. CASE Figures!Save
    <2>1. /\ block' = block /\ arrived' = arrived /\ checkpoint' = checkpoint /\ collected' = collected
          /\ disk'.checkpoint = checkpoint /\ disk'.store = collected
      BY <1>4 DEF Figures!Save
    <2>2. Figures!TypeOK'
      BY <1>1, <1>2, <2>1 DEF FiguresInv, Figures!TypeOK, Figures!Event
    <2>3. AllCollected'
      BY <1>1, <2>1 DEF FiguresInv, AllCollected, EventsOf, Figures!Range
    <2>4. Fits(checkpoint, collected)' /\ Fits(disk.checkpoint, disk.store)'
      BY <1>1, <1>2, <2>1 DEF FiguresInv, Fits, Windowed, EventsOf, Figures!Range
    <2> QED
      BY <1>1, <1>2, <2>1, <2>2, <2>3, <2>4, FiguresType DEF FiguresInv
  <1>5. CASE Figures!Crash
    <2>1. /\ block' = disk.checkpoint + 1 /\ arrived' = {} /\ checkpoint' = disk.checkpoint
          /\ collected' = disk.store /\ disk' = disk
      BY <1>5 DEF Figures!Crash
    <2>2. Figures!TypeOK'
      <3>1. block' \in (checkpoint' + 1)..(FigureBlocks + 1)
        BY <2>1, FiguresType, FigureConstants
      <3> QED
        BY <1>1, <1>2, <2>1, <3>1 DEF FiguresInv, Figures!TypeOK, Figures!Event
    <2>3. AllCollected'
      <3>1. \A i \in DOMAIN log : ~(disk.checkpoint < log[i].block /\ log[i].block < disk.checkpoint + 1)
        BY FiguresType, LogIs
      <3> QED
        BY <1>1, <2>1, <3>1 DEF AllCollected
    <2>4. Fits(checkpoint, collected)' /\ Fits(disk.checkpoint, disk.store)'
      BY <1>1, <1>2, <2>1 DEF FiguresInv, Fits, Windowed, EventsOf, Figures!Range
    <2> QED
      BY <1>1, <1>2, <2>1, <2>2, <2>3, <2>4, FiguresType DEF FiguresInv
  <1> QED
    BY <1>3, <1>4, <1>5

(* The digest, with nothing behind the checkpoint untold after it.           *)
LEMMA DigestKeepsFigures ==
  ASSUME FiguresInv, Figures!FlushDigest
  PROVE  FiguresInv' /\ Figures!FiguresAreTrue' /\ NothingSkipped
  <1> DEFINE D == Figures!DepositedKeys(Figures!Ready)
             t(op) == Figures!LastOf(<<D>>, op, told[op])
  <1>1. /\ kind = "deposited" /\ kind' = kind /\ log' = log /\ block' = block /\ arrived' = arrived
        /\ checkpoint' = checkpoint /\ disk' = disk /\ collected' = Figures!Later(checkpoint)
        /\ out' = <<D>> /\ told' = [op \in Operators |-> t(op)]
    BY DEF Figures!FlushDigest, Figures!Tell
  <1>2. /\ \A m \in D :
             /\ m.op \in Operators /\ m.first \in DOMAIN log /\ m.last \in DOMAIN log
             /\ log[m.last].block <= checkpoint
             /\ \A j \in DOMAIN log :
                  log[j].op = m.op /\ log[j].block <= checkpoint => j <= m.last
             /\ m.old = Figures!FigureAt(m.op, log[m.first].block - 1)
             /\ m.new = Figures!FigureAt(m.op, checkpoint)
             /\ m.new = Figures!FigureAt(m.op, log[m.last].block)
             /\ m.old = told[m.op].figure \/ log[m.first].block <= told[m.op].block
        /\ \A i \in Figures!Ready : \E m \in D : m.op = log[i].op
    BY <1>1, DigestTells
  <1> HIDE DEF D
  <1>3. \A op, b : Figures!FigureAt(op, b)' = Figures!FigureAt(op, b)
    BY <1>1, ChainKept
  <1>4. \A op \in Operators :
          \/ (\A m \in D : m.op # op) /\ t(op) = told[op]
          \/ \E m \in D : m.op = op /\ t(op) = [figure |-> m.new, block |-> log[m.last].block]
    <2> DEFINE ms == <<D>>
               n == 1
    <2>1. n \in Nat /\ DOMAIN ms = 1..n /\ 1..n = {1} /\ ms[1] = D
      OBVIOUS
    <2> HIDE DEF ms, n
    <2>2. \A op, r :
            \/ (\A k \in 1..n : \A m \in ms[k] : m.op # op) /\ Figures!LastOf(ms, op, r) = r
            \/ \E k \in 1..n : \E m \in ms[k] :
                 /\ m.op = op /\ \A l \in (k + 1)..n : \A x \in ms[l] : x.op # op
                 /\ Figures!LastOf(ms, op, r) = [figure |-> m.new, block |-> log[m.last].block]
      BY <2>1, LastOfIs
    <2>3. \A op : t(op) = Figures!LastOf(ms, op, told[op])
      BY DEF ms
    <2> HIDE DEF t
    <2> SUFFICES ASSUME NEW op \in Operators
                 PROVE  \/ (\A m \in D : m.op # op) /\ t(op) = told[op]
                        \/ \E m \in D : m.op = op /\ t(op) = [figure |-> m.new, block |-> log[m.last].block]
      OBVIOUS
    <2>4. \/ (\A k \in 1..n : \A m \in ms[k] : m.op # op) /\ t(op) = told[op]
          \/ \E k \in 1..n : \E m \in ms[k] :
               /\ m.op = op /\ t(op) = [figure |-> m.new, block |-> log[m.last].block]
      BY <2>2, <2>3
    <2> QED
      BY <2>1, <2>4
  <1> HIDE DEF t
  <1>5. \A op \in Operators : told'[op] = t(op)
    BY <1>1
  <1>6. \A op \in Operators :
          /\ t(op) \in [figure : 0..MaxFigure, block : 0..FigureBlocks]
          /\ t(op).figure = Figures!FigureAt(op, t(op).block)
    <2> SUFFICES ASSUME NEW op \in Operators
                 PROVE  /\ t(op) \in [figure : 0..MaxFigure, block : 0..FigureBlocks]
                        /\ t(op).figure = Figures!FigureAt(op, t(op).block)
      OBVIOUS
    <2>1. CASE t(op) = told[op]
      BY <2>1, FiguresType DEF FiguresInv, ToldWasTrue
    <2>2. ASSUME NEW m \in D, m.op = op, t(op) = [figure |-> m.new, block |-> log[m.last].block]
          PROVE  /\ t(op) \in [figure : 0..MaxFigure, block : 0..FigureBlocks]
                 /\ t(op).figure = Figures!FigureAt(op, t(op).block)
      <3>1. log[m.last].block \in 0..FigureBlocks /\ m.new = Figures!FigureAt(op, log[m.last].block)
        BY <1>2, <2>2, FiguresType, LogIs, FigureConstants
      <3>2. m.new \in 0..MaxFigure
        BY <1>2, <2>2, FiguresType, FigureType
      <3> QED
        BY <2>2, <3>1, <3>2
    <2> QED
      BY <1>4, <2>1, <2>2
  <1>7. ASSUME NEW j \in DOMAIN log, log[j].block <= checkpoint
        PROVE  log[j].block <= t(log[j].op).block
    <2> DEFINE op == log[j].op
    <2>1. op \in Operators /\ log[j].block \in Nat /\ told[op].block \in Nat
      BY FiguresType, LogIs, FigureConstants
    <2>2. ASSUME NEW m \in D, m.op = op, t(op) = [figure |-> m.new, block |-> log[m.last].block]
          PROVE  log[j].block <= t(op).block
      <3>1. j <= m.last /\ m.last \in DOMAIN log /\ j \in Nat /\ m.last \in Nat
        BY <1>2, <1>7, <2>2, FiguresType, LogIs
      <3>2. log[j].block <= log[m.last].block
        BY <3>1, <2>1, FiguresType, LogIs
      <3> QED
        BY <2>2, <3>2
    <2>3. ASSUME \A m \in D : m.op # op, t(op) = told[op]
          PROVE  log[j].block <= t(op).block
      <3>1. j \notin Figures!Ready
        BY <1>2, <2>3
      <3>2. j \notin EventsOf(collected)
        BY <1>7, <3>1 DEF Figures!Ready, EventsOf
      <3>3. ~(told[op].block < log[j].block)
        BY <1>1, <1>7, <3>2 DEF FiguresInv, Fits
      <3> QED
        BY <2>1, <2>3, <3>3
    <2> HIDE DEF op
    <2>4. QED
      BY <1>4, <2>1, <2>2, <2>3 DEF op
  <1>8. /\ Figures!IsStore(collected') /\ EventsOf(collected)' = EventsOf(collected')
        /\ EventsOf(collected') = {i \in EventsOf(collected) : log[i].block > checkpoint}
    <2>1. Figures!IsStore(collected)
      BY DEF FiguresInv, Figures!TypeOK
    <2>2. EventsOf(collected)' = EventsOf(collected')
      BY DEF EventsOf, Figures!Range
    <2> QED
      BY <1>1, <2>1, <2>2, LaterIs
  <1>9. Figures!TypeOK'
    <2>1. Figures!IsStore(collected)' /\ Figures!IsStore(disk.store)' /\ Figures!OfBlock(block)' = Figures!OfBlock(block)
      BY <1>1, <1>8, ChainKept DEF FiguresInv, Figures!TypeOK
    <2>2. told' \in [Operators -> [figure : 0..MaxFigure, block : 0..FigureBlocks]]
      BY <1>1, <1>6
    <2> QED
      BY <1>1, <2>1, <2>2 DEF FiguresInv, Figures!TypeOK, Figures!Event
  <1>10. AllCollected'
    <2>1. \A i \in arrived : log[i].block > checkpoint /\ i \in DOMAIN log
      BY FiguresType DEF FiguresInv, Figures!TypeOK, Figures!OfBlock
    <2>2. \A i \in DOMAIN log : checkpoint < log[i].block => log[i].block > checkpoint
      BY FiguresType, LogIs
    <2> QED
      BY <1>1, <1>8, <2>1, <2>2 DEF FiguresInv, AllCollected
  <1>11. \A j \in DOMAIN log : log[j].block <= checkpoint =>
           ~(told'[log[j].op].block < log[j].block)
    <2>1. \A j \in DOMAIN log : log[j].op \in Operators /\ log[j].block \in Nat
      BY FiguresType, LogIs
    <2>2. \A op \in Operators : t(op).block \in Nat
      BY <1>6, FigureConstants
    <2> QED
      BY <1>5, <1>7, <2>1, <2>2
  <1>12. Fits(checkpoint, collected)'
    <2>1. ASSUME NEW j \in DOMAIN log, log[j].block <= checkpoint, NEW i \in EventsOf(collected'), i < j
          PROVE  FALSE
      <3>1. i \in DOMAIN log /\ log[i].block > checkpoint
        BY <1>8, FiguresType
      <3>2. log[i].block <= log[j].block /\ log[i].block \in Nat /\ log[j].block \in Nat /\ checkpoint \in Nat
        BY <2>1, <3>1, FiguresType, LogIs
      <3> QED
        BY <2>1, <3>1, <3>2
    <2> QED
      BY <1>1, <1>8, <1>11, <2>1 DEF Fits, Windowed
  <1>13. Fits(disk.checkpoint, disk.store)'
    <2>1. \A j \in DOMAIN log : log[j].block <= disk.checkpoint => log[j].block <= checkpoint
      BY FiguresType, LogIs
    <2> QED
      BY <1>1, <1>11, <2>1 DEF FiguresInv, Fits, Windowed, EventsOf, Figures!Range
  <1>14. ToldWasTrue'
    BY <1>3, <1>5, <1>6 DEF ToldWasTrue
  <1>15. Figures!FiguresAreTrue'
    <2>1. Figures!Told' = D
      BY <1>1 DEF Figures!Told, Figures!Range
    <2> QED
      BY <1>1, <1>2, <1>3, <2>1 DEF Figures!FiguresAreTrue
  <1>16. NothingSkipped
    <2> SUFFICES ASSUME NEW k \in DOMAIN out', NEW m \in out'[k]
                 PROVE  LET was == Figures!LastOf(SubSeq(out', 1, k - 1), m.op, told[m.op])
                        IN m.old = was.figure \/ log[m.first].block <= was.block
      BY DEF NothingSkipped
    <2>1. k = 1 /\ out'[k] = D
      BY <1>1
    <2>2. SubSeq(out', 1, k - 1) = <<>>
      BY <1>1, <2>1
    <2>3. Figures!LastOf(<<>>, m.op, told[m.op]) = told[m.op]
      BY DEF Figures!LastOf
    <2> QED
      BY <1>2, <2>1, <2>2, <2>3
  <1> QED
    BY <1>1, <1>9, <1>10, <1>12, <1>13, <1>14, <1>15, <1>16, ChainKept, FiguresType DEF FiguresInv

(* A completed block ends the windows of the blocks until it.                *)
LEMMA BlockCompletedKeepsFigures ==
  ASSUME FiguresInv, Figures!BlockCompleted
  PROVE  FiguresInv' /\ Figures!FiguresAreTrue' /\ NothingSkipped
  <1>1. /\ kind' = kind /\ log' = log /\ checkpoint' = block /\ block' = block + 1
        /\ arrived' = {} /\ disk' = disk /\ Figures!Delivered
        /\ block \in Nat /\ block \in 0..FigureBlocks /\ checkpoint < block
    BY FiguresType, FigureConstants DEF Figures!BlockCompleted, Figures!Delivered
  <1>2. \A op, b : Figures!FigureAt(op, b)' = Figures!FigureAt(op, b)
    BY <1>1, ChainKept
  <1>3. AllCollected' /\ Figures!IsLog' /\ disk'.checkpoint <= checkpoint'
    <2>1. \A i \in DOMAIN log : ~(block < log[i].block /\ log[i].block < block + 1)
      BY <1>1, FiguresType, LogIs
    <2>2. disk.checkpoint <= block
      BY <1>1, FiguresType, FigureConstants
    <2> QED
      BY <1>1, <2>1, <2>2, ChainKept DEF AllCollected, FiguresInv
  <1>4. ASSUME Figures!IsStore(collected'),
               told' \in [Operators -> [figure : 0..MaxFigure, block : 0..FigureBlocks]]
        PROVE  Figures!TypeOK'
    <2>1. block' \in (checkpoint' + 1)..(FigureBlocks + 1)
      BY <1>1, FigureConstants
    <2>2. Figures!IsStore(collected)' /\ Figures!IsStore(disk.store)'
      BY <1>1, <1>4, ChainKept DEF FiguresInv, Figures!TypeOK
    <2> QED
      BY <1>1, <1>4, <2>1, <2>2 DEF FiguresInv, Figures!TypeOK, Figures!Event
  <1>5. CASE ~Windowed
    <2>1. kind \in {"deposited", "limit"} /\ Figures!Tell(<<>>) /\ collected' = collected
      BY <1>5 DEF Figures!BlockCompleted, Windowed, FiguresInv, Figures!TypeOK
    <2>2. told' = told /\ Figures!FiguresAreTrue' /\ NothingSkipped
      BY <2>1, NothingTold
    <2>3. ASSUME kind = "deposited", NEW j \in DOMAIN log, log[j].block <= block
          PROVE  checkpoint < log[j].block => j \in EventsOf(collected)
      <3>1. log[j].block = block => j \in arrived
        BY <1>1 DEF Figures!Delivered, Figures!OfBlock
      <3>2. log[j].block # block => log[j].block < block
        BY <1>1, <2>3, FiguresType, LogIs
      <3> QED
        BY <2>3, <3>1, <3>2 DEF FiguresInv, AllCollected
    <2>4. \A j \in DOMAIN log : checkpoint < log[j].block \/ log[j].block <= checkpoint
      BY FiguresType, LogIs
    <2>5. Fits(checkpoint, collected)'
      BY <1>1, <1>5, <2>1, <2>2, <2>3, <2>4
      DEF FiguresInv, Fits, Windowed, EventsOf, Figures!Range
    <2>6. Fits(disk.checkpoint, disk.store)' /\ ToldWasTrue'
      BY <1>1, <1>2, <2>2 DEF FiguresInv, Fits, ToldWasTrue, Windowed, EventsOf, Figures!Range
    <2>7. Figures!TypeOK'
      BY <1>4, <2>1, <2>2, FiguresType DEF FiguresInv, Figures!TypeOK
    <2> QED
      BY <1>3, <2>2, <2>5, <2>6, <2>7 DEF FiguresInv
  <1>6. CASE Windowed
    <2> DEFINE E == Figures!Ended
               t(op) == Figures!LastOf(E, op, told[op])
    <2>1. /\ out' = E /\ told' = [op \in Operators |-> t(op)]
          /\ collected' = Figures!Later(block)
      BY <1>6 DEF Figures!BlockCompleted, Figures!Tell, Windowed
    <2>2. /\ E = [k \in 1..block |-> Figures!WindowMessages(Figures!OfWindow(k))]
          /\ E \in Seq({E[k] : k \in 1..block}) /\ Len(E) = block
      <3>1. E = [k \in 1..block |-> Figures!WindowMessages(Figures!OfWindow(k))]
        BY DEF Figures!Ended
      <3> HIDE DEF E
      <3>2. E \in [1..block -> {E[k] : k \in 1..block}]
        BY <3>1
      <3> QED
        BY <1>1, <3>1, <3>2
    <2> HIDE DEF E
    <2>3. DOMAIN E = 1..block /\ \A k \in 1..block : E[k] = Figures!WindowMessages(Figures!OfWindow(k))
      BY <2>2
    <2>4. ASSUME NEW op \in Operators
          PROVE  /\ t(op) \in [figure : 0..MaxFigure, block : 0..FigureBlocks]
                 /\ t(op).figure = Figures!FigureAt(op, t(op).block)
                 /\ \A b \in t(op).block..block : Figures!FigureAt(op, b) = t(op).figure
                 /\ t(op) = told[op] \/ checkpoint < t(op).block
      <3>1. block \in 0..block
        BY <1>1
      <3> QED
        BY <1>1, <1>6, <2>3, <3>1, ToldThrough
    <2> HIDE DEF t
    <2>5. \A op \in Operators : told'[op] = t(op)
      BY <2>1
    <2>6. /\ Figures!IsStore(collected')
          /\ EventsOf(collected)' = {i \in EventsOf(collected) : log[i].block > block}
      <3>1. Figures!IsStore(collected) /\ EventsOf(collected)' = EventsOf(collected')
        BY DEF FiguresInv, Figures!TypeOK, EventsOf, Figures!Range
      <3> QED
        BY <2>1, <3>1, LaterIs
    <2>7. Figures!TypeOK'
      BY <1>4, <2>1, <2>4, <2>6
    <2>8. Fits(checkpoint, collected)'
      BY <1>1, <1>2, <1>6, <2>4, <2>5, <2>6 DEF Fits, Windowed
    <2>9. Fits(disk.checkpoint, disk.store)'
      <3>1. \A i \in EventsOf(disk.store) : log[i].block > disk.checkpoint
        BY <1>6 DEF FiguresInv, Fits
      <3>2. \A op \in Operators : \A b \in t(op).block..disk.checkpoint :
              Figures!FigureAt(op, b) = t(op).figure
        <4> SUFFICES ASSUME NEW op \in Operators, NEW b \in t(op).block..disk.checkpoint
                     PROVE  Figures!FigureAt(op, b) = t(op).figure
          OBVIOUS
        <4>1. t(op).block \in Nat
          BY <2>4, FigureConstants
        <4>2. t(op) = told[op]
          BY <2>4, <4>1, FiguresType
        <4>3. b \in told[op].block..disk.checkpoint
          BY <4>2
        <4> QED
          BY <1>6, <4>2, <4>3 DEF FiguresInv, Fits
      <3> QED
        BY <1>1, <1>2, <1>6, <2>5, <3>1, <3>2 DEF Fits, Windowed, EventsOf, Figures!Range
    <2>10. ToldWasTrue'
      BY <1>2, <2>4, <2>5 DEF ToldWasTrue
    <2>11. Figures!FiguresAreTrue'
      <3>1. Figures!Told' = UNION {E[k] : k \in 1..block}
        BY <2>1, <2>3 DEF Figures!Told, Figures!Range
      <3>2. ASSUME NEW k \in 1..block, NEW m \in E[k]
            PROVE  /\ log[m.first].block = k /\ log[m.last].block = k
                   /\ m.old = IF kind = "curve" THEN Figures!Untold ELSE Figures!FigureAt(m.op, k - 1)
                   /\ m.new = Figures!FigureAt(m.op, k)
        BY <1>1, <1>6, <2>3, WindowsTell
      <3> QED
        BY <1>1, <1>2, <1>6, <3>1, <3>2 DEF Figures!FiguresAreTrue, Windowed, Figures!Untold
    <2>12. NothingSkipped
      <3> SUFFICES ASSUME NEW k \in DOMAIN out', NEW m \in out'[k], kind \in {"total", "weight"}
                   PROVE  LET was == Figures!LastOf(SubSeq(out', 1, k - 1), m.op, told[m.op])
                          IN m.old = was.figure \/ log[m.first].block <= was.block
        BY <1>6 DEF NothingSkipped, Windowed
      <3> DEFINE ms == SubSeq(E, 1, k - 1)
                 was == Figures!LastOf(ms, m.op, told[m.op])
      <3>1. k \in 1..block /\ k \in Nat /\ m \in E[k] /\ k - 1 \in 0..block
        BY <1>1, <2>1, <2>3
      <3>2. /\ checkpoint < k /\ m.op \in Operators
            /\ log[m.first].block = k /\ m.old = Figures!FigureAt(m.op, k - 1)
        <4>1. m \in Figures!WindowMessages(Figures!OfWindow(k))
          BY <2>3, <3>1
        <4>2. kind # "curve"
          OBVIOUS
        <4> QED
          BY <1>1, <1>6, <3>1, <4>1, <4>2, WindowsTell
      <3>3. DOMAIN ms = 1..(k - 1) /\ \A l \in 1..(k - 1) : ms[l] = E[l]
        <4>1. 1 \in 1..(Len(E) + 1) /\ k - 1 \in 0..Len(E)
          BY <1>1, <2>2, <3>1
        <4> QED
          BY <1>1, <2>2, <3>1
      <3> HIDE DEF ms
      <3>4. \A l \in 1..(k - 1) : ms[l] = Figures!WindowMessages(Figures!OfWindow(l))
        BY <1>1, <2>3, <3>1, <3>3
      <3>5. /\ was \in [figure : 0..MaxFigure, block : 0..FigureBlocks]
            /\ \A b \in was.block..(k - 1) : Figures!FigureAt(m.op, b) = was.figure
        BY <1>1, <1>6, <3>1, <3>2, <3>3, <3>4, ToldThrough
      <3> HIDE DEF was
      <3>6. was.block <= k - 1 \/ k <= was.block
        BY <3>1, <3>5, FigureConstants
      <3>7. was.block <= k - 1 => k - 1 \in was.block..(k - 1)
        BY <3>1, <3>5, FigureConstants
      <3>8. m.old = was.figure \/ log[m.first].block <= was.block
        BY <3>2, <3>5, <3>6, <3>7
      <3> QED
        BY <2>1, <3>8 DEF was, ms
    <2> QED
      BY <1>3, <2>7, <2>8, <2>9, <2>10, <2>11, <2>12 DEF FiguresInv
  <1> QED
    BY <1>5, <1>6

(* The figures of a collected message are the chain's, at the end of the     *)
(* block before its first event and at the end of the block of its last one  *)
(* (of the checkpoint's, in the digest), whatever the order in which the     *)
(* events came, wherever the digest was cut and the bot stopped; and a       *)
(* message takes up where the one before it left off, or repeats a part of   *)
(* it, so that no change falls between two messages (base_events.py 40-120,  *)
(* aggregation.py 119-176, services/subscription.py 61-71).                  *)
THEOREM MessagesTellTheChain == Figures!Spec => FiguresAreTrue
  <1> DEFINE I == FiguresInv /\ Figures!FiguresAreTrue
             A == NothingSkipped
  <1>1. Figures!Init => I
    BY FiguresInitially
  <1>2. I /\ [Figures!Next]_(Figures!vars) => I' /\ (A \/ UNCHANGED Figures!vars)
    <2> SUFFICES ASSUME I, [Figures!Next]_(Figures!vars)
                 PROVE  I' /\ (A \/ UNCHANGED Figures!vars)
      OBVIOUS
    <2>1. CASE \E i \in DOMAIN log : Figures!Arrive(i)
      BY <2>1, ArriveKeepsFigures
    <2>2. CASE Figures!NextBlockOfBatch \/ Figures!Save \/ Figures!Crash
      BY <2>2, QuietStepsKeepFigures
    <2>3. CASE Figures!BlockCompleted
      BY <2>3, BlockCompletedKeepsFigures
    <2>4. CASE Figures!FlushDigest
      BY <2>4, DigestKeepsFigures
    <2>5. CASE UNCHANGED Figures!vars
      <3>1. /\ kind' = kind /\ log' = log /\ block' = block /\ arrived' = arrived /\ checkpoint' = checkpoint
            /\ collected' = collected /\ disk' = disk /\ out' = out /\ told' = told
        BY <2>5 DEF Figures!vars
      <3>2. /\ \A op, b : Figures!FigureAt(op, b)' = Figures!FigureAt(op, b)
            /\ \A s : Figures!IsStore(s)' = Figures!IsStore(s)
            /\ \A b : Figures!OfBlock(b)' = Figures!OfBlock(b)
            /\ Figures!IsLog' /\ Windowed' = Windowed
        BY <3>1, ChainKept DEF FiguresInv
      <3>3. FiguresInv'
        <4>1. Figures!TypeOK'
          BY <3>1, <3>2 DEF FiguresInv, Figures!TypeOK, Figures!Event
        <4>2. AllCollected' /\ Fits(checkpoint, collected)' /\ Fits(disk.checkpoint, disk.store)' /\ ToldWasTrue'
          BY <3>1, <3>2
          DEF FiguresInv, AllCollected, Fits, ToldWasTrue, EventsOf, Figures!Range
        <4> QED
          BY <3>1, <3>2, <4>1, <4>2 DEF FiguresInv
      <3>4. Figures!FiguresAreTrue'
        BY <3>1, <3>2 DEF Figures!FiguresAreTrue, Figures!Told, Figures!Range
      <3> QED
        BY <2>5, <3>3, <3>4
    <2> QED
      BY <2>1, <2>2, <2>3, <2>4, <2>5 DEF Figures!Next
  <1>3. I => Figures!TypeOK /\ Figures!FiguresAreTrue
    BY DEF FiguresInv
  <1>4. A \/ UNCHANGED Figures!vars =>
          [\A k \in DOMAIN out' : \A m \in out'[k] :
             LET was == Figures!LastOf(SubSeq(out', 1, k - 1), m.op, told[m.op])
             IN kind \in {"deposited", "total", "weight"}
                  => m.old = was.figure \/ log[m.first].block <= was.block]_(Figures!vars)
    BY DEF NothingSkipped
  <1> HIDE DEF I, A
  <1> QED
    BY <1>1, <1>2, <1>3, <1>4, PTL DEF Figures!Spec, FiguresAreTrue, Figures!NoChangeSkipped
=============================================================================
