----------------------------- MODULE MCFollowing -----------------------------
(***************************************************************************)
(* Following the chain: the runtime, which follows the protocol version    *)
(* from variant to variant, and the sync of the events in one variant.     *)
(* They share no state, so a behaviour moves one of them and TLC explores  *)
(* each by itself.                                                         *)
(***************************************************************************)
EXTENDS EventSync, Runtime

CONSTANTS c1, c2, s1, s2

VARIABLE part  \* what moves

followingVars == <<vars, runtimeVars, part>>

MCRelevant == {1, 2}

\* Three variants; version 1 is within the range of the first, 4 is beyond the
\* last.
ThreeVariants == <<0, 2, 3>>

Sync(A) == part = "sync" /\ A /\ UNCHANGED <<runtimeVars, part>>
OnRuntime(A) == part = "runtime" /\ A /\ UNCHANGED <<vars, part>>

\* The runtime starts with its first variant and a state of any version.
FollowingInit ==
  /\ part \in {"sync", "runtime"}
  /\ Init /\ RuntimeInit
  /\ current = 1
  /\ part = "sync" => chainVersion = 1

FollowingNext ==
  \/ Sync(Publish)
  \/ Sync(Serialize)
  \/ Sync(Restart)
  \/ \E f \in Starts : Sync(Start(f))
  \/ \E f \in Starts : Sync(Retry(f))
  \/ \E f \in Starts : Sync(Receive(f))
  \/ \E f \in Starts : Sync(StreamFails(f))
  \/ \E f \in Starts : Sync(Completes(f))
  \/ \E f \in Starts : Sync(Apply(f))
  \/ \E i \in Events : Sync(Record(i))
  \/ \E i \in Events : Sync(GiveUp(i))
  \/ \E v \in Versions : OnRuntime(Upgrade(v))
  \/ OnRuntime(StartSyncInBackground)
  \/ \E k \in Variants : OnRuntime(SyncUpdate(k))
  \/ OnRuntime(ReportNext)
  \/ \E c \in Commands : OnRuntime(Dispatch(c))
  \/ \E c \in Commands : OnRuntime(Execute(c))
  \/ OnRuntime(TakeState)
  \/ OnRuntime(TakeVersion)
  \/ OnRuntime(CloseVariant)
  \/ OnRuntime(Migrate)
  \/ OnRuntime(SetCurrent)
  \/ OnRuntime(MigrationFails)
  \/ OnRuntime(Interrupt)
  \/ OnRuntime(CloseCurrent)

FollowingSpec == FollowingInit /\ [][FollowingNext]_followingVars

\* The fairness of FairSpec for the sync and of FairRuntimeSpec for the runtime.
FairFollowingSpec ==
  /\ FollowingSpec
  /\ \A f \in Starts : /\ WF_followingVars(Sync(Receive(f))) /\ WF_followingVars(Sync(Apply(f)))
                       /\ WF_followingVars(Sync(Retry(f)))
  /\ \A i \in Events : WF_followingVars(Sync(Record(i)))
  /\ WF_followingVars(OnRuntime(Follow))
=============================================================================
