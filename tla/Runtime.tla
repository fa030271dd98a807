------------------------------ MODULE Runtime ------------------------------
(***************************************************************************)
(* The wallet runtime: it runs one variant of the wallet at a time, follows *)
(* the variant's stream of state changes, publishes the states it carries,  *)
(* and when the stream reports a protocol version out of the variant's      *)
(* range it closes the variant, migrates its last state to the next one and *)
(* follows that one.  Meanwhile commands are dispatched to the variant that *)
(* is current, and the application may stop the wallet at any time.         *)
(*                                                                         *)
(* A variant is modelled after RunningV1Variant: a SubscriptionRef, every   *)
(* write of which appears on the stream of changes, and a sync fiber in the *)
(* variant's scope.  Progress updates (they only feed `progressRef`) are    *)
(* left out.  The chain and its protocol version are external.              *)
(***************************************************************************)
EXTENDS Naturals, Sequences, FiniteSets

CONSTANTS
  Since,                \* sinceVersion of every registered variant
  MaxSupportedVersion,
  Commands,             \* calls dispatched by the application, each once
  NotSent,              \* a command that is not under way, ...
  Done,                 \* ... one that was applied,
  RuntimeError,         \* published when the followed stream fails
  MaxSignals            \* bound: VersionChangeType.Next reported by variants

Variants == DOMAIN Since
Versions == 0..MaxSupportedVersion
State == [version: Versions, log: SUBSET Commands]

\* WalletBuilder.withVariant refuses a version that does not increase, build
\* refuses to build without a variant.
ASSUME RuntimeAssumption ==
  /\ Since \in Seq(Nat) /\ Since # <<>>
  /\ MaxSupportedVersion \in Nat
  /\ \A k \in Variants : Since[k] < MaxSupportedVersion
  /\ \A j, k \in Variants : j < k => Since[j] < Since[k]
  /\ NotSent # Done /\ NotSent \notin Variants /\ Done \notin Variants
  /\ RuntimeError \notin [version: Versions, state: State]
  /\ MaxSignals \in Nat

VARIABLES
  chainVersion, \* protocol version of the chain
  ref,          \* per variant: content of its state reference
  scope,        \* per variant: its scope
  syncing,      \* variants with a sync fiber
  current,      \* currentVariantRef
  calls,        \* per command: not sent, the variant it was routed to, or done
  phase,        \* what the fiber of runVariantStream is doing
  changes,      \* changes of the current variant that the fiber has not taken
  acc,          \* the accumulator: protocol version and last state
  latest,       \* currentStateRef
  signals,      \* Next reported so far
  late,         \* history: commands applied to a variant that was on its way out
  mishaps       \* history: events after which some promises are off

variantVars == <<ref, scope, syncing>>
fiberVars == <<phase, changes, acc, latest>>
runtimeVars == <<chainVersion, variantVars, current, calls, fiberVars, signals, late, mishaps>>

\* following: takes changes.  leaving: has seen a version out of range.
\* closed: has closed the variant.  starting: has started the next variant,
\* which is not current yet.
Phases == {"following", "leaving", "closed", "starting", "failed", "interrupted", "stopped"}

-----------------------------------------------------------------------------
(* Variants                                                                *)

IsLast(k) == k = Len(Since)

NextActivation(k) == IF IsLast(k) THEN MaxSupportedVersion ELSE Since[k + 1]

WithinRange(v, k) == Since[k] <= v /\ v < NextActivation(k)

StateChange(s) == [kind |-> "state", state |-> s]
VersionChange(v) == [kind |-> "version", version |-> v]
NextVersion == [kind |-> "next"]

\* Mutant: a change of the version is not reported.
ChangesOfOff(old, new) == <<StateChange(new)>>

\* The stream of a variant: every state written, followed by the version if it
\* differs from that of the state before.
ChangesOf(old, new) ==
  IF old.version = new.version THEN <<StateChange(new)>>
                               ELSE <<StateChange(new), VersionChange(new.version)>>

\* The fiber subscribes to the current variant only, until it is leaving it.
Listening(k) == phase = "following" /\ k = current

Write(k, s) ==
  /\ ref' = [ref EXCEPT ![k] = s]
  /\ changes' = IF Listening(k) THEN changes \o ChangesOf(ref[k], s) ELSE changes

\* The version a change reports, if it makes the runtime leave variant k.
\* Next means the next variant; there is none after the last one.
NewVersion(c, k) == IF c.kind = "version" THEN c.version ELSE NextActivation(k)

Leaves(c, k) ==
  \/ c.kind = "version" /\ ~WithinRange(c.version, k)
  \/ c.kind = "next" /\ ~IsLast(k)

\* Whatever is written to variant k now is not going to be migrated.
OnTheWayOut(k) == ~Listening(k) \/ \E i \in DOMAIN changes : Leaves(changes[i], k)

-----------------------------------------------------------------------------
(* The chain and the sync of a variant                                     *)

\* An upgrade of the chain (external).
Upgrade(v) ==
  /\ chainVersion < v
  /\ chainVersion' = v
  /\ UNCHANGED <<variantVars, current, calls, fiberVars, signals, late, mishaps>>

\* start(): the sync fiber lives in the variant's scope; forked into a closed
\* one it is interrupted at once.
StartSyncInBackground ==
  /\ syncing' = IF scope[current] = "open" THEN syncing \cup {current} ELSE syncing
  /\ UNCHANGED <<chainVersion, ref, scope, current, calls, fiberVars, signals, late, mishaps>>

\* A sync update raises the version in the state.
SyncUpdate(k) ==
  /\ k \in syncing
  /\ ref[k].version # chainVersion
  /\ Write(k, [ref[k] EXCEPT !.version = chainVersion])
  /\ UNCHANGED <<chainVersion, scope, syncing, current, calls, phase, acc, latest, signals,
                 late, mishaps>>

\* A variant that cannot name the version asks for the next variant.
ReportNext ==
  /\ signals < MaxSignals /\ Listening(current)
  /\ signals' = signals + 1
  /\ changes' = Append(changes, NextVersion)
  /\ mishaps' = mishaps \cup {"next"}
  /\ UNCHANGED <<chainVersion, variantVars, current, calls, phase, acc, latest, late>>

-----------------------------------------------------------------------------
(* Commands                                                                *)

\* dispatch reads the current variant ...
Dispatch(c) ==
  /\ calls[c] = NotSent
  /\ calls' = [calls EXCEPT ![c] = current]
  /\ UNCHANGED <<chainVersion, variantVars, current, fiberVars, signals, late, mishaps>>

\* ... whose method then updates the state reference, whatever has become of
\* the variant since.
Execute(c) ==
  /\ calls[c] \in Variants
  /\ Write(calls[c], [ref[calls[c]] EXCEPT !.log = @ \cup {c}])
  /\ late' = IF OnTheWayOut(calls[c]) THEN late \cup {c} ELSE late
  /\ calls' = [calls EXCEPT ![c] = Done]
  /\ UNCHANGED <<chainVersion, scope, syncing, current, phase, acc, latest, signals, mishaps>>

-----------------------------------------------------------------------------
(* runVariantStream                                                        *)

\* Mutant: the state is published but not kept for the migration.
TakeStateOff ==
  /\ phase = "following" /\ changes # <<>> /\ Head(changes).kind = "state"
  /\ latest' = [version |-> acc.version, state |-> Head(changes).state]
  /\ changes' = Tail(changes)
  /\ UNCHANGED <<chainVersion, variantVars, current, calls, phase, acc, signals, late, mishaps>>

TakeState ==
  /\ phase = "following" /\ changes # <<>> /\ Head(changes).kind = "state"
  /\ latest' = [version |-> acc.version, state |-> Head(changes).state]
  /\ acc' = [acc EXCEPT !.last = Head(changes).state]
  /\ changes' = Tail(changes)
  /\ UNCHANGED <<chainVersion, variantVars, current, calls, phase, signals, late, mishaps>>

\* Mutant: a version out of the range is only noted.
TakeVersionOff ==
  /\ phase = "following" /\ changes # <<>> /\ Head(changes).kind # "state"
  /\ acc' = [acc EXCEPT !.version = NewVersion(Head(changes), current)]
  /\ changes' = Tail(changes)
  /\ UNCHANGED <<chainVersion, variantVars, current, calls, phase, latest, signals, late,
                 mishaps>>

\* A version within the range is noted; one out of it (or Next, unless there is
\* none) ends the consumption of the stream, whatever it still holds.
TakeVersion ==
  /\ phase = "following" /\ changes # <<>> /\ Head(changes).kind # "state"
  /\ LET c == Head(changes)
         v == NewVersion(c, current)
     IN IF Leaves(c, current)
        THEN /\ phase' = "leaving" /\ changes' = <<>>
             /\ acc' = [acc EXCEPT !.version = v]
             /\ mishaps' = IF ~IsLast(current) /\ ~WithinRange(v, current + 1)
                           THEN mishaps \cup {"skipped"} ELSE mishaps
        ELSE /\ changes' = Tail(changes)
             /\ acc' = IF c.kind = "version" THEN [acc EXCEPT !.version = v] ELSE acc
             /\ UNCHANGED <<phase, mishaps>>
  /\ UNCHANGED <<chainVersion, variantVars, current, calls, latest, signals, late>>

CloseVariant ==
  /\ phase = "leaving"
  /\ scope' = [scope EXCEPT ![current] = "closed"]
  /\ syncing' = syncing \ {current}
  /\ phase' = "closed"
  /\ UNCHANGED <<chainVersion, ref, current, calls, changes, acc, latest, signals, late,
                 mishaps>>

\* migrateToNextVariant: always the immediate next one.
Migrate ==
  /\ phase = "closed" /\ ~IsLast(current)
  /\ ref' = [ref EXCEPT ![current + 1] = acc.last]
  /\ scope' = [scope EXCEPT ![current + 1] = "open"]
  /\ phase' = "starting"
  /\ UNCHANGED <<chainVersion, syncing, current, calls, changes, acc, latest, signals, late,
                 mishaps>>

\* The new variant becomes current and is followed: nothing suspends the fiber
\* between the two.  Its stream begins with its state.
SetCurrent ==
  /\ phase = "starting"
  /\ current' = current + 1
  /\ phase' = "following"
  /\ changes' = <<StateChange(ref[current + 1])>>
  /\ UNCHANGED <<chainVersion, variantVars, calls, acc, latest, signals, late, mishaps>>

\* There is no next variant, or it does not start: the error is published.
MigrationFails ==
  /\ phase = "closed"
  /\ latest' = RuntimeError
  /\ phase' = "failed"
  /\ mishaps' = IF IsLast(current) THEN mishaps ELSE mishaps \cup {"start_error"}
  /\ UNCHANGED <<chainVersion, variantVars, current, calls, changes, acc, signals, late>>

\* stop() closes the scope of the runtime: first the fiber is interrupted ...
Interrupt ==
  /\ phase \notin {"interrupted", "stopped"}
  /\ phase' = "interrupted" /\ changes' = <<>>
  /\ mishaps' = IF phase = "starting" THEN mishaps \cup {"stopped_midway"} ELSE mishaps
  /\ UNCHANGED <<chainVersion, variantVars, current, calls, acc, latest, signals, late>>

\* Mutant: the runtime stops without closing the variant.
CloseCurrentOff ==
  /\ phase = "interrupted"
  /\ phase' = "stopped"
  /\ UNCHANGED <<chainVersion, variantVars, current, calls, changes, acc, latest, signals,
                 late, mishaps>>

\* ... then the variant found in currentVariantRef is closed.
CloseCurrent ==
  /\ phase = "interrupted"
  /\ scope' = [scope EXCEPT ![current] = "closed"]
  /\ syncing' = syncing \ {current}
  /\ phase' = "stopped"
  /\ UNCHANGED <<chainVersion, ref, current, calls, changes, acc, latest, signals, late,
                 mishaps>>

-----------------------------------------------------------------------------

\* start, startFirst, startEmpty: any variant may be started, with any state.
\* One whose version is out of the range is not noticed: there is no change.
StartVariant(k, s) ==
  /\ mishaps = IF WithinRange(s.version, k) THEN {} ELSE {"misplaced"}
  /\ ref = [j \in Variants |-> s]
  /\ scope = [j \in Variants |-> IF j = k THEN "open" ELSE "none"]
  /\ current = k
  /\ changes = <<StateChange(s)>>
  /\ acc = [version |-> Since[k], last |-> s]
  /\ latest = [version |-> Since[k], state |-> s]
  /\ chainVersion = s.version

RuntimeInit ==
  /\ \E k \in Variants, v \in Versions : StartVariant(k, [version |-> v, log |-> {}])
  /\ syncing = {}
  /\ calls = [c \in Commands |-> NotSent]
  /\ phase = "following"
  /\ signals = 0
  /\ late = {}

Follow == TakeState \/ TakeVersion \/ CloseVariant \/ Migrate \/ SetCurrent \/ MigrationFails

RuntimeNext ==
  \/ \E v \in Versions : Upgrade(v)
  \/ StartSyncInBackground
  \/ \E k \in Variants : SyncUpdate(k)
  \/ ReportNext
  \/ \E c \in Commands : Dispatch(c) \/ Execute(c)
  \/ Follow
  \/ Interrupt \/ CloseCurrent

RuntimeSpec == RuntimeInit /\ [][RuntimeNext]_runtimeVars

\* The fiber of the runtime runs until it is interrupted.
FairRuntimeSpec == RuntimeSpec /\ WF_runtimeVars(Follow)

-----------------------------------------------------------------------------
(* Properties                                                              *)

Change == {StateChange(s) : s \in State} \cup {VersionChange(v) : v \in Versions} \cup {NextVersion}

RuntimeTypeOK ==
  /\ chainVersion \in Versions
  /\ ref \in [Variants -> State]
  /\ scope \in [Variants -> {"none", "open", "closed"}]
  /\ syncing \in SUBSET Variants
  /\ current \in Variants
  /\ calls \in [Commands -> Variants \cup {NotSent, Done}]
  /\ phase \in Phases
  /\ phase = "starting" => ~IsLast(current)
  /\ changes \in Seq(Change)
  /\ acc \in [version: Versions, last: State]
  /\ latest \in [version: Versions, state: State] \cup {RuntimeError}
  /\ signals \in 0..MaxSignals
  /\ late \in SUBSET Commands
  /\ mishaps \in SUBSET {"misplaced", "next", "skipped", "start_error", "stopped_midway"}

\* Commands that were applied in time.
Saved == {c \in Commands : calls[c] = Done} \ late

Surviving(s) == Saved \subseteq s.log

\* Commands survive a migration: what a command did to the state of a variant
\* is part of the state of the variant that follows, however the commands, the
\* sync and the migration interleave, unless the variant had already written a
\* version out of its range when the command was applied.
CommandsSurvive ==
  /\ phase = "following" => Surviving(ref[current])
  /\ phase \in {"leaving", "closed"} => Surviving(acc.last)
  /\ phase = "starting" => Surviving(ref[current + 1])

\* Runtime.ts on closing the variant with the runtime: "Otherwise variant would
\* be running in the background".  Besides the current variant only the one
\* about to take over is ever open, and after stop() none, unless the runtime
\* was interrupted between the start of a variant and its becoming current.
NothingInBackground ==
  \A k \in Variants :
    scope[k] = "open" =>
      \/ k = current /\ phase \notin {"closed", "starting", "stopped"}
      \/ /\ k = current + 1
         /\ \/ phase = "starting"
            \/ phase \in {"interrupted", "stopped"} /\ "stopped_midway" \in mishaps

\* The variant and the protocol version have parted: the chain skipped a
\* variant, a variant asked for the next one by itself, or was misplaced.
OffTrack == mishaps \cap {"misplaced", "next", "skipped"} # {}

\* A quiet runtime runs the variant its state's protocol version belongs to and
\* has published that very state, unless the two have parted before.
QuietMeansCurrent ==
  (phase = "following" /\ changes = <<>>) =>
    /\ latest # RuntimeError /\ latest.state = ref[current]
    /\ ~OffTrack => WithinRange(ref[current].version, current)

\* The inductive strengthening of the three.  Position p of the stream ch holds
\* the last state before position i; position 0 stands for the accumulator.
IsState(ch, p) == p = 0 \/ ch[p].kind = "state"

LastBefore(ch, i, p) ==
  /\ p \in 0..i - 1 /\ IsState(ch, p)
  /\ \A q \in p + 1..i - 1 : ch[q].kind # "state"

StateAt(ch, last, p) == IF p = 0 THEN last ELSE ch[p].state

\* The stream ends with the state of the variant; every version comes with the
\* state that has it; and the state before a version out of range holds what
\* is to survive.
StreamInv ==
  phase = "following" =>
    /\ \A p \in 0..Len(changes) : LastBefore(changes, Len(changes) + 1, p) =>
         StateAt(changes, acc.last, p) = ref[current]
    /\ \A i \in DOMAIN changes, p \in 0..Len(changes) : LastBefore(changes, i, p) =>
         /\ Leaves(changes[i], current) => Surviving(StateAt(changes, acc.last, p))
         /\ changes[i].kind = "version" =>
              StateAt(changes, acc.last, p).version = changes[i].version
    /\ \A i \in DOMAIN changes : changes[i].kind = "next" => "next" \in mishaps
    /\ latest # RuntimeError
    /\ \/ latest.state = acc.last
       \/ \E i \in DOMAIN changes : changes[i].kind = "state"
    /\ \/ OffTrack
       \/ WithinRange(ref[current].version, current)
       \/ \E i \in DOMAIN changes : Leaves(changes[i], current)
    /\ Surviving(ref[current])

\* On the way to the next variant.
MigrationInv ==
  phase \in {"leaving", "closed", "starting"} =>
    /\ latest # RuntimeError
    /\ Surviving(acc.last)
    /\ \/ IsLast(current) \/ OffTrack
       \/ WithinRange(acc.last.version, current + 1)
    /\ phase = "starting" => ref[current + 1] = acc.last

\* No command and no sync update reaches a variant that is not current yet.
ScopeInv ==
  /\ NothingInBackground
  /\ syncing \subseteq {current}
  /\ phase \in {"closed", "starting", "stopped"} => syncing = {} /\ scope[current] # "open"
  /\ \A c \in Commands : calls[c] \in Variants => calls[c] <= current

IInv == RuntimeTypeOK /\ StreamInv /\ MigrationInv /\ ScopeInv

\* A variant whose state has a version out of its range is replaced by the one
\* whose range that is, or the error is published, unless the wallet is stopped
\* or the two have parted.
VersionFollowed ==
  ~WithinRange(ref[current].version, current) ~>
    \/ WithinRange(ref[current].version, current)
    \/ phase \in {"failed", "interrupted", "stopped"}
    \/ OffTrack
=============================================================================
