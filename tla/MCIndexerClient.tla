-------------------------- MODULE MCIndexerClient ---------------------------
(***************************************************************************)
(* What stands on the indexer: a bounded subscription, the unshielded       *)
(* wallet that follows its transactions, and the tool that pins the schema. *)
(* They share no state here, so a behaviour moves one of them and TLC       *)
(* explores each by itself.                                                 *)
(***************************************************************************)
EXTENDS Backpressure, UnshieldedWallet, SchemaSync, TLC

CONSTANTS u1, u2, t1

VARIABLE part  \* the component that moves

clientVars == <<boundedVars, vars, schemaVars, part>>

\* No argument, every flag, a value in the next argument or in the same one,
\* a value that is missing, and one too many.
MCArgvs ==
  {<<>>, <<Flag("update")>>, <<Flag("tag"), Bare("v2")>>, <<Inline("v1"), Flag("verify")>>,
   <<Flag("tag"), Flag("update")>>, <<Inline("v1"), Bare("v2")>>}

\* A release; a second one with the same schema or another one, or none; and a
\* repository with the first one only.
MCReleases ==
  {(<<"s1", "v1">> :> "c1") @@ (<<"s1", "v2">> :> c) @@ (<<"s2", "v1">> :> "c1") @@ (<<"s2", "v2">> :> Absent) :
     c \in Contents \cup {Absent}}

ClientInit ==
  /\ part \in {"feed", "wallet", "schema"}
  /\ BoundedInit /\ Init /\ SchemaInit
  /\ part # "feed" => published = From
  /\ part # "schema" => lock = Absent /\ config = "s1" /\ upstream[<<"s1", "v2">>] = Absent

FeedOnly(A) == part = "feed" /\ A /\ UNCHANGED <<vars, schemaVars, part>>
Wallet(A) == part = "wallet" /\ A /\ UNCHANGED <<boundedVars, schemaVars, part>>
Schema(A) == part = "schema" /\ A /\ UNCHANGED <<boundedVars, vars, part>>

ClientNext ==
  \/ FeedOnly(Publish)
  \/ FeedOnly(Close)
  \/ \E i \in DOMAIN sessions : FeedOnly(OnItem(i))
  \/ \E i \in DOMAIN sessions : FeedOnly(OnError(i))
  \/ \E i \in DOMAIN sessions : FeedOnly(OnComplete(i))
  \/ FeedOnly(OpenSession)
  \/ FeedOnly(StoreDisposer)
  \/ FeedOnly(Consume)
  \/ FeedOnly(ConsumeExit)
  \/ FeedOnly(Interrupt)
  \/ \E t \in Txs : Wallet(Transacting(t))
  \/ \E t \in Txs : Wallet(Include(t))
  \/ Wallet(ForeignTransaction)
  \/ Wallet(ApplyTransaction)
  \/ Wallet(UpdateProgress)
  \/ Wallet(Disconnect)
  \/ Wallet(StartSync)
  \/ Wallet(Serialize)
  \/ Wallet(CrashAndRestore)
  \/ \E argv \in Argvs : Schema(Invoke(argv))
  \/ Schema(ReadInputs)
  \/ Schema(FetchSchema)
  \/ Schema(WriteLock)
  \/ Schema(Retarget)
  \/ Schema(Rewrite)
  \/ Schema(RemoveTypes)
  \/ Schema(RegenerateTypes)
  \/ Schema(Fail)
  \/ \E s \in Sources, tag \in Tags, c \in Contents : Schema(MoveTag(s, tag, c))
  \/ \E s \in Sources : Schema(EditConfig(s))
  \/ Schema(EditCodegen)
  \/ \E s \in Copies : Schema(EditSchema(s))

ClientSpec == ClientInit /\ [][ClientNext]_clientVars

\* The fairness of the subscription and of the wallet's sync; the tool makes no
\* promise.
FairClientSpec ==
  /\ ClientSpec
  /\ WF_clientVars(FeedOnly(OpenSession)) /\ WF_clientVars(FeedOnly(StoreDisposer))
  /\ WF_clientVars(FeedOnly(Consume)) /\ WF_clientVars(FeedOnly(ConsumeExit))
  /\ WF_clientVars(\E i \in DOMAIN sessions : Current(i) /\ FeedOnly(OnItem(i)))
  /\ WF_clientVars(\E i \in DOMAIN sessions :
                     Current(i) /\ sessions[i].state = "open" /\ FeedOnly(OnComplete(i)))
  /\ WF_clientVars(Wallet(ApplyTransaction)) /\ WF_clientVars(Wallet(UpdateProgress))
  /\ WF_clientVars(Wallet(StartSync))

\* However often the subscription fails or the process restarts, a wallet that
\* follows the indexer ends up with the coins of the whole chain.
WalletCatchesUp == part = "wallet" => EventuallySynced
=============================================================================
