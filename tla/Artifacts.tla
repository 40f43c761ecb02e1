----------------------------- MODULE Artifacts -----------------------------
(***************************************************************************)
(* Artifacts (services/api/src/artifacts): files that are staged, checked,  *)
(* moved to their place and recorded as rows, versions of one another, and  *)
(* copied beside a message that carries them.  The file system and the      *)
(* database are changed one after the other, and a catch block takes back   *)
(* what an error leaves half done.                                          *)
(* An upload creates one artifact and a message one directory: they are     *)
(* named after the request.                                                 *)
(***************************************************************************)
EXTENDS Conversations

CONSTANTS Plan   \* an artifact the workspace begins with

VARIABLES
    staged,     \* the uploads whose temporary file is there
    blob,       \* the artifacts whose content is there
    artifact,   \* the artifact rows
    copied      \* the attachments in the directory of each message

artifactVars == <<staged, blob, artifact, copied>>

ArtifactIds == {Plan} \cup Slots
Versions == 1..(Cardinality(Slots) + 1)
ArtifactRows == [logical : ArtifactIds, version : Versions, agent : AgentIds \cup {None}, name : {"given", "renamed"}]

ArtifactsTypeOK ==
    /\ staged \subseteq Slots /\ blob \subseteq ArtifactIds
    /\ artifact \in [ArtifactIds -> ArtifactRows \cup {None}]
    /\ copied \in [Slots -> SUBSET ArtifactIds]

ArtifactsInit ==
    /\ staged = {} /\ blob = {Plan}
    /\ artifact = [a \in ArtifactIds |->
          IF a = Plan THEN [logical |-> Plan, version |-> 1, agent |-> None, name |-> "given"] ELSE None]
    /\ copied = [s \in Slots |-> {}]

UploadSteps == <<"stage", "validate", "move", "record", "announce">>

ArtifactProgram == [
    upload |-> UploadSteps,
    rename |-> <<"getArtifact", "putArtifact">>,
    download |-> <<"openFile">>]

(***************************************************************************)
(* An error: the catch blocks of the upload and of the attachments.         *)
(***************************************************************************)
\* discard: the upload's temporary file, if it is still there.
Discarded(s) == staged \ {s}

\* The directory that a message's attachments are copied to.
Directory(s) == s

TakesBack(s) ==
    /\ staged' = Discarded(s)
    /\ blob' = IF At(s, "record") \/ At(s, "announce") THEN blob \ {s} ELSE blob
    /\ copied' = IF At(s, "attach") THEN [copied EXCEPT ![Directory(s)] = {}] ELSE copied
    /\ UNCHANGED artifact

(***************************************************************************)
(* Uploads.                                                                 *)
(***************************************************************************)
\* The temporary file is written; one that is too large or cut off is removed at once.
Stage(s) ==
    /\ At(s, "stage")
    /\ \/ Moves(s, req[s]) /\ staged' = staged \cup {s}
       \/ Refuses(s) /\ UNCHANGED staged
    /\ UNCHANGED <<blob, artifact, copied>>

VersionsOf(l) == {artifact[a].version : a \in {b \in Present(artifact) : artifact[b].logical = l}}
AfterParent(parent) == artifact[parent].version + 1
NextVersion(parent) == Max(VersionsOf(artifact[parent].logical)) + 1

\* validateReferences, the parent and its versions: what the new row is to be.  An agent
\* may name no other agent as the author.
Validate(s) ==
    LET a == asked[s]
        author == IF a.agent = None /\ By(s) # User THEN By(s) ELSE a.agent
        ok == /\ KnownActor(s) /\ author \in agents \cup {None}
              /\ By(s) # User => author = By(s)
              /\ a.parent # None => artifact[a.parent] # None
        old == artifact[a.parent]
        row == IF a.parent = None
                 THEN [logical |-> s, version |-> 1, agent |-> author, name |-> "given"]
                 ELSE [logical |-> old.logical, version |-> NextVersion(a.parent), name |-> "given",
                       agent |-> IF author = None THEN old.agent ELSE author]
    IN /\ At(s, "validate")
       /\ IF ok THEN Moves(s, [req[s] EXCEPT !.row = row]) /\ UNCHANGED staged
                ELSE Refuses(s) /\ staged' = Discarded(s)
       /\ UNCHANGED <<blob, artifact, copied>>

Move(s) ==
    /\ At(s, "move") /\ Moves(s, req[s])
    /\ staged' = staged \ {s} /\ blob' = blob \cup {s}
    /\ UNCHANGED <<artifact, copied>>

\* The number is another version's by now: the index of PostgreSQL over an artifact's
\* versions refuses the row, and the file is taken back.
NumberIsTaken(s) == database = "postgres" /\ req[s].row.version \in VersionsOf(req[s].row.logical)

Record(s) ==
    /\ At(s, "record")
    /\ IF NumberIsTaken(s)
         THEN Refuses(s) /\ TakesBack(s)
         ELSE /\ Moves(s, req[s])
              /\ artifact' = [artifact EXCEPT ![s] = req[s].row]
              /\ UNCHANGED <<staged, blob, copied>>

Announce(s) ==
    /\ At(s, "announce") /\ Moves(s, req[s])
    /\ UNCHANGED artifactVars

(***************************************************************************)
(* Rows and content.                                                        *)
(***************************************************************************)
GetArtifact(s) ==
    LET a == asked[s].parent
    IN /\ Reads(s, "getArtifact", KnownActor(s) /\ artifact[a] # None, [req[s] EXCEPT !.row = artifact[a]])
       /\ UNCHANGED artifactVars

PutArtifact(s) ==
    /\ At(s, "putArtifact") /\ Moves(s, req[s])
    /\ artifact' = [artifact EXCEPT ![asked[s].parent] = [req[s].row EXCEPT !.name = "renamed"]]
    /\ UNCHANGED <<staged, blob, copied>>

\* The content is there, and is what was stored.
Content(a) == artifact[a] # None /\ a \in blob

Download(s) ==
    /\ Reads(s, "openFile", Content(asked[s].parent), req[s])
    /\ UNCHANGED artifactVars

(***************************************************************************)
(* Attachments: copied one by one into the directory of the message.        *)
(***************************************************************************)
Attach(s) ==
    LET missing == asked[s].attachments \ copied[Directory(s)]
    IN /\ At(s, "attach")
       /\ IF missing = {}
            THEN /\ Moves(s, [req[s] EXCEPT !.value = asked[s].attachments])
                 /\ UNCHANGED copied
            ELSE \E a \in missing :
                   IF Content(a)
                     THEN Goes(s, req[s]) /\ copied' = [copied EXCEPT ![Directory(s)] = @ \cup {a}]
                     ELSE Refuses(s) /\ copied' = [copied EXCEPT ![Directory(s)] = {}]
       /\ UNCHANGED <<staged, blob, artifact>>

ArtifactStep(s) ==
    \/ Stage(s) \/ Validate(s) \/ Move(s) \/ Record(s) \/ Announce(s)
    \/ GetArtifact(s) \/ PutArtifact(s) \/ Download(s) \/ Attach(s)
=============================================================================
