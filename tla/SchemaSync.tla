----------------------------- MODULE SchemaSync -----------------------------
(***************************************************************************)
(* The tool that pins the GraphQL schema of the indexer: a lock names a     *)
(* release and the hash of its schema, indexer.gql holds a copy under a     *)
(* header that says where it is from, and the types of the client are       *)
(* generated from the copy.  The tool verifies the copy, or fetches it      *)
(* again and brings all three up to date, and it may die at any step while  *)
(* people move tags, edit the files and change the settings.                *)
(*                                                                         *)
(* A content stands for its hash; a source for a repository and a path in   *)
(* it.  External: GitHub, the code generator, and people.                   *)
(***************************************************************************)
EXTENDS Naturals, Sequences

CONSTANTS
  Sources,    \* where the schema may be fetched from
  Tags,       \* releases of the indexer
  Contents,   \* schemas
  HandMade,   \* a schema no release has
  Releases,   \* the first contents of the tags at each source, Absent without a tag
  Argvs,      \* command lines
  MaxEdits,   \* bound: changes by people
  MaxRuns,    \* bound: invocations of the tool
  Absent      \* no file, no header, no tag or no release

\* The header of a copy, the copy, what the lock pins, and the types with the
\* settings they were generated under.
Headers == [source : Sources, tag : Tags, sha : Contents]
Copy == [header : Headers \cup {Absent}, body : Contents \cup {HandMade}]
Lock == [tag : Tags, sha : Contents]
Generated == [body : Contents \cup {HandMade}, codegen : Nat]

ASSUME SchemaAssumption ==
  /\ MaxEdits \in Nat /\ MaxRuns \in Nat
  /\ Releases \subseteq [Sources \X Tags -> Contents \cup {Absent}]
  /\ HandMade \notin Contents /\ Absent \notin Contents \cup Tags \cup Sources \cup {HandMade}
  /\ Absent \notin Headers /\ Absent \notin Copy
  /\ Absent \notin Lock /\ Absent \notin Generated

VARIABLES
  upstream,  \* content of each tag at each source
  config,    \* schema.config.yml
  codegen,   \* version of the settings of the code generator
  lock,      \* schema.lock
  schema,    \* indexer.gql: its header and its body
  types,     \* src/graphql/generated: the body and the settings they are from
  tool,      \* what the tool is at, and what it knows
  ended,   \* how its last run ended
  edits,     \* changes by people so far
  runs,      \* invocations so far
  quiet,     \* history: nobody changed anything since the last run began
  mishap     \* history: types were left behind, see VerifiedTypes

filesVars == <<lock, schema, types>>
peopleVars == <<upstream, config, codegen, edits>>
schemaVars == <<peopleVars, filesVars, tool, ended, runs, quiet, mishap>>

-----------------------------------------------------------------------------
(* The command line                                                        *)

\* --update, --verify or --tag, a flag with its value (--tag=v), and a value.
Flag(f) == [flag |-> f, value |-> "none"]
Inline(v) == [flag |-> "tag", value |-> v]
Bare(v) == [flag |-> "", value |-> v]

\* The value of --tag: its own, or the next argument unless that is a flag.
ValueOf(argv, i) ==
  IF argv[i].value # "none" THEN argv[i].value
  ELSE IF i < Len(argv) /\ argv[i + 1].flag = "" THEN argv[i + 1].value
  ELSE ""

TagFlags(argv) == {i \in DOMAIN argv : argv[i].flag = "tag"}

\* A flag without its value, or a value without its flag.
Malformed(argv) ==
  \E i \in DOMAIN argv :
    \/ i \in TagFlags(argv) /\ ValueOf(argv, i) = ""
    \/ argv[i].flag = "" /\ ~(i > 1 /\ argv[i - 1] = Flag("tag"))

\* The last --tag counts, and implies --update.
ParseArgs(argv) ==
  [update |-> \E i \in DOMAIN argv : argv[i].flag \in {"tag", "update"},
   tag |-> IF TagFlags(argv) = {} THEN Absent
           ELSE ValueOf(argv, CHOOSE i \in TagFlags(argv) : \A j \in TagFlags(argv) : j <= i)]

\* Tags has every tag somebody asks for; one that no source has is Absent there.
ASSUME ArgvsAssumption ==
  \A argv \in Argvs : ~Malformed(argv) => ParseArgs(argv).tag \in Tags \cup {Absent}

-----------------------------------------------------------------------------
(* Decisions                                                               *)

Provenance(s, tag, content) == [source |-> s, tag |-> tag, sha |-> content]

\* The commit in the header is not compared.
HeaderMatches(header, expected) == header = expected

DecideVerify(l, remote, current, s) ==
  IF remote # l.sha THEN "LockMismatch"
  ELSE IF current = Absent THEN "Missing"
  ELSE IF current.body # l.sha THEN "BodyDrift"
  ELSE IF current.header = Absent \/ ~HeaderMatches(current.header, Provenance(s, l.tag, l.sha))
  THEN "HeaderMismatch"
  ELSE "InSync"

\* Mutant: the header is looked at before the body.
DecideUpdateOff(remote, expected, current) ==
  IF current = Absent THEN "Rewrite"
  ELSE IF current.header # Absent /\ HeaderMatches(current.header, expected) THEN "Noop"
  ELSE IF current.body # remote THEN "Rewrite" ELSE "Retarget"

DecideUpdate(remote, expected, current) ==
  IF current = Absent \/ current.body # remote THEN "Rewrite"
  ELSE IF current.header # Absent /\ HeaderMatches(current.header, expected) THEN "Noop"
  ELSE "Retarget"

-----------------------------------------------------------------------------
(* The tool                                                                *)

Idle == [stage |-> "idle", update |-> FALSE, tag |-> Absent, source |-> Absent,
         lock |-> Absent, current |-> Absent, body |-> Absent]

At(stage) == tool.stage = stage

Goto(stage) == tool' = [tool EXCEPT !.stage = stage] /\ UNCHANGED ended

End(v) == tool' = Idle /\ ended' = v

\* main: parse the arguments.
Invoke(argv) ==
  /\ At("idle") /\ runs < MaxRuns
  /\ runs' = runs + 1
  /\ quiet' = TRUE
  /\ IF Malformed(argv) THEN End("failed")
     ELSE /\ tool' = [Idle EXCEPT !.stage = "reading", !.update = ParseArgs(argv).update,
                                  !.tag = ParseArgs(argv).tag]
          /\ ended' = "running"
  /\ UNCHANGED <<peopleVars, filesVars, mishap>>

\* The tag of the command wins over that of the lock; there must be one.
ReadInputs ==
  LET tag == IF tool.tag # Absent THEN tool.tag ELSE IF lock # Absent THEN lock.tag ELSE Absent
  IN /\ At("reading")
     /\ IF tag = Absent THEN End("failed")
        ELSE /\ tool' = [tool EXCEPT !.stage = "fetching", !.tag = tag, !.source = config,
                                     !.lock = lock, !.current = schema]
             /\ UNCHANGED ended
     /\ UNCHANGED <<peopleVars, filesVars, runs, quiet, mishap>>

Fetched == upstream[<<tool.source, tool.tag>>]

\* A tag that does not exist is a failure of the request.  To verify, this is
\* all there is to do.
FetchSchema ==
  /\ At("fetching")
  /\ IF Fetched = Absent THEN End("failed")
     ELSE IF tool.update
     THEN tool' = [tool EXCEPT !.stage = "fetched", !.body = Fetched] /\ UNCHANGED ended
     ELSE End(DecideVerify(tool.lock, Fetched, tool.current, tool.source))
  /\ UNCHANGED <<peopleVars, filesVars, runs, quiet, mishap>>

\* The commit is fetched, the copy is read, and the lock written whatever is
\* decided.
WriteLock ==
  LET outcome == DecideUpdate(tool.body, Provenance(tool.source, tool.tag, tool.body), schema)
  IN /\ At("fetched")
     /\ lock' = [tag |-> tool.tag, sha |-> tool.body]
     /\ IF outcome = "Noop" THEN End("updated")
        ELSE /\ tool' = [tool EXCEPT !.stage = outcome, !.current = schema]
             /\ UNCHANGED ended
     /\ UNCHANGED <<peopleVars, schema, types, runs, quiet, mishap>>

Stamped(body) == [header |-> Provenance(tool.source, tool.tag, tool.body), body |-> body]

\* Retarget: the copy gets a new header only.
Retarget ==
  /\ At("Retarget")
  /\ schema' = Stamped(tool.current.body)
  /\ End("updated")
  /\ UNCHANGED <<peopleVars, lock, types, runs, quiet, mishap>>

\* Rewrite: the new copy, ...
Rewrite ==
  /\ At("Rewrite")
  /\ schema' = Stamped(tool.body)
  /\ mishap' = TRUE
  /\ Goto("cleaning")
  /\ UNCHANGED <<peopleVars, lock, types, runs, quiet>>

\* ... the types of the old one are removed, ...
RemoveTypes ==
  /\ At("cleaning")
  /\ types' = Absent
  /\ Goto("generating")
  /\ UNCHANGED <<peopleVars, lock, schema, runs, quiet, mishap>>

\* ... and the generator makes those of what it finds.
RegenerateTypes ==
  /\ At("generating") /\ schema # Absent
  /\ types' = [body |-> schema.body, codegen |-> codegen]
  /\ mishap' = FALSE
  /\ End("updated")
  /\ UNCHANGED <<peopleVars, lock, schema, runs, quiet>>

\* A file cannot be read or written, GitHub or the generator fails, somebody
\* interrupts the tool.
Fail ==
  /\ ~At("idle")
  /\ End("failed")
  /\ UNCHANGED <<peopleVars, filesVars, runs, quiet, mishap>>

-----------------------------------------------------------------------------
(* People                                                                  *)

Edit ==
  /\ edits < MaxEdits
  /\ edits' = edits + 1
  /\ quiet' = FALSE
  /\ UNCHANGED <<tool, ended, runs>>

\* A tag is made or moved upstream.
MoveTag(s, tag, c) ==
  /\ Edit
  /\ upstream' = [upstream EXCEPT ![<<s, tag>>] = c]
  /\ UNCHANGED <<config, codegen, filesVars, mishap>>

\* schema.config.yml is changed.
EditConfig(s) ==
  /\ Edit /\ s # config
  /\ config' = s
  /\ UNCHANGED <<upstream, codegen, filesVars, mishap>>

\* The settings of the code generator are changed.
EditCodegen ==
  /\ Edit
  /\ codegen' = codegen + 1
  /\ UNCHANGED <<upstream, config, filesVars, mishap>>

\* The copy is edited, replaced by the schema of a release, or deleted.
EditSchema(s) ==
  /\ Edit /\ s # schema
  /\ schema' = s
  /\ mishap' = (mishap \/ (s # Absent /\ s.body \in Contents))
  /\ UNCHANGED <<upstream, config, codegen, lock, types>>

-----------------------------------------------------------------------------
\* What people may leave as the copy.
Copies ==
  {Absent} \cup [header : {Absent, IF schema = Absent THEN Absent ELSE schema.header},
                 body : Contents \cup {HandMade}]

\* A fresh package, or one at the release of its lock.
SchemaInit ==
  /\ upstream \in Releases /\ config \in Sources /\ codegen = 0
  /\ \/ lock = Absent /\ schema = Absent /\ types = Absent
     \/ \E tag \in Tags :
          LET c == upstream[<<config, tag>>]
          IN /\ c # Absent
             /\ lock = [tag |-> tag, sha |-> c]
             /\ schema = [header |-> Provenance(config, tag, c), body |-> c]
             /\ types = [body |-> c, codegen |-> 0]
  /\ tool = Idle /\ ended = "none"
  /\ edits = 0 /\ runs = 0 /\ quiet = TRUE /\ mishap = FALSE

SchemaNext ==
  \/ \E argv \in Argvs : Invoke(argv)
  \/ ReadInputs
  \/ FetchSchema
  \/ WriteLock
  \/ Retarget
  \/ Rewrite
  \/ RemoveTypes
  \/ RegenerateTypes
  \/ Fail
  \/ \E s \in Sources, tag \in Tags, c \in Contents : MoveTag(s, tag, c)
  \/ \E s \in Sources : EditConfig(s)
  \/ EditCodegen
  \/ \E s \in Copies : EditSchema(s)

SchemaSpec == SchemaInit /\ [][SchemaNext]_schemaVars

-----------------------------------------------------------------------------
(* Properties                                                              *)

Tool ==
  [stage : {"idle", "reading", "fetching", "fetched", "Retarget", "Rewrite", "cleaning", "generating"},
   update : BOOLEAN, tag : Tags \cup {Absent}, source : Sources \cup {Absent},
   lock : Lock \cup {Absent}, current : Copy \cup {Absent}, body : Contents \cup {Absent}]

Outcomes == {"none", "running", "failed", "updated",
             "InSync", "LockMismatch", "Missing", "BodyDrift", "HeaderMismatch"}

\* Every variable has its type.
SchemaTypeOK ==
  /\ upstream \in [Sources \X Tags -> Contents \cup {Absent}]
  /\ config \in Sources /\ codegen \in Nat
  /\ lock \in Lock \cup {Absent}
  /\ schema \in Copy \cup {Absent}
  /\ types \in Generated \cup {Absent}
  /\ tool \in Tool /\ ended \in Outcomes
  /\ edits \in Nat /\ runs \in Nat /\ quiet \in BOOLEAN /\ mishap \in BOOLEAN

\* After an update that nobody disturbed, verifying passes: what update leaves
\* alone, restamps or rewrites is what verify accepts (decideUpdate,
\* decideVerify).
UpdateRepairs ==
  ended = "updated" /\ quiet =>
    DecideVerify(lock, upstream[<<config, lock.tag>>], schema, config) = "InSync"

\* If verifying passes and nobody has touched anything since it began, the copy
\* is the schema of the pinned release, and its header says so.
VerifiedIsPinned ==
  ended = "InSync" /\ quiet =>
    /\ schema.body = upstream[<<config, lock.tag>>]
    /\ schema.header.source = config /\ schema.header.tag = lock.tag

\* A copy that passes has the types of the client generated from it, unless a
\* run died between the copy and the types, or somebody put the schema of a
\* release there by hand (runUpdate regenerates on a changed body only).
VerifiedTypes ==
  ended = "InSync" /\ quiet /\ ~mishap =>
    types # Absent /\ types.body = schema.body

PinsHold == UpdateRepairs /\ VerifiedIsPinned /\ VerifiedTypes

\* schema-sync/README.md: --update rewrites the generated types, after a change
\* of the settings of the code generator too (runUpdate).
UpdateRegenerates ==
  ended = "updated" /\ quiet => types # Absent /\ types.codegen = codegen
=============================================================================
