--------------------------- MODULE ArtifactRoutes ---------------------------
(***************************************************************************)
(* The artifact routes: prompt blocks with a history of versions.  Storage *)
(* is external: create() throws when the block exists, update() adds a     *)
(* version, listVersions() returns one page.  A content is the name of the *)
(* request that wrote it first.                                            *)
(***************************************************************************)
EXTENDS Requests, Sequences

CONSTANTS Blocks,   \* ids "hermes:kind:profile"
          PerPage   \* versions revert can see (1000 in the code)

ASSUME ArtifactAssumption == PerPage \in Nat \ {0}

VARIABLES block,    \* storage: block[b], the contents of its versions, oldest first
          version   \* version[r]: the version a revert asks for and then restores

artifactVars == <<block, version>>

ArtifactInit ==
  /\ block = [b \in Blocks |-> <<>>]
  /\ version = [r \in Reqs |-> 0]

Artifact(route, b) == [route |-> route, block |-> b]

PostArtifact(r) ==
  \E b \in Blocks :
    /\ Accept(r, Artifact("upsert", b), "find")
    /\ UNCHANGED artifactVars

(* validateRevertBody: the version is a positive integer. *)
PostRevert(r) ==
  \E b \in Blocks, v \in 1..(PerPage + 1) :
    /\ Accept(r, Artifact("revert", b), "versions")
    /\ version' = [version EXCEPT ![r] = v]
    /\ UNCHANGED block

(* upsertArtifactBlock looks, awaits, and then creates or updates. *)
GetById(r) ==
  /\ at[r] = "find"
  /\ \E next \in {IF block[req[r].block] = <<>> THEN "add" ELSE "update", "error"} :
       Goto(r, next)
  /\ UNCHANGED artifactVars

CreateBlock(r) ==
  /\ at[r] = "add"
  /\ \/ /\ block[req[r].block] = <<>>
        /\ block' = [block EXCEPT ![req[r].block] = <<r>>]
        /\ Goto(r, "ok")
     \/ Goto(r, "error") /\ UNCHANGED block
  /\ UNCHANGED version

UpdateBlock(r) ==
  /\ at[r] = "update"
  /\ \/ /\ block' = [block EXCEPT ![req[r].block] = Append(@, r)]
        /\ Goto(r, "ok")
     \/ Goto(r, "error") /\ UNCHANGED block
  /\ UNCHANGED version

(* The first page of the history, oldest first. *)
Listed(b) == 1..(IF Len(block[b]) < PerPage THEN Len(block[b]) ELSE PerPage)

FindVersion(r) ==
  /\ at[r] = "versions"
  /\ \E next \in {IF version[r] \in Listed(req[r].block) THEN "restore" ELSE "notfound",
                  "error"} :
       Goto(r, next)
  /\ UNCHANGED artifactVars

(* Faulty variant: the content of the latest version is written again. *)
RestoreLatest(r) ==
  /\ at[r] = "restore"
  /\ block' = [block EXCEPT ![req[r].block] = Append(@, @[Len(@)])]
  /\ Goto(r, "ok")
  /\ UNCHANGED version

RestoreVersion(r) ==
  /\ at[r] = "restore"
  /\ \/ /\ block' = [block EXCEPT ![req[r].block] = Append(@, @[version[r]])]
        /\ Goto(r, "ok")
     \/ Goto(r, "error") /\ UNCHANGED block
  /\ UNCHANGED version

ArtifactStep(r) ==
  \/ PostArtifact(r) \/ PostRevert(r) \/ GetById(r) \/ CreateBlock(r)
  \/ UpdateBlock(r) \/ FindVersion(r) \/ RestoreVersion(r)
=============================================================================
