--------------------------- MODULE MCCommandBridge ---------------------------
(***************************************************************************)
(* Instances of CommandBridge for TLC, with a statement of the             *)
(* documentation that the code does not keep.                              *)
(***************************************************************************)
EXTENDS CommandBridge

\* README.md:121 describes commands.json as "pending web commands written by
\* FastAPI": a command that was returned to its client should be in the file
\* until the engine has answered it.
PendingIsInFile ==
  \A k \in Keys : returned[k] # None =>
    returned[k] \in answers \cup IdsOf(Read(file))

\* RuntimeWorker: a pending command that stays in commands.json is answered.
PendingIsServed ==
  \A id \in Ids : id \in IdsOf(Pending(Read(file)))
                    ~> id \in answers \/ id \notin IdsOf(Pending(Read(file)))
=============================================================================
