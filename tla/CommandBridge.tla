---------------------------- MODULE CommandBridge ----------------------------
(***************************************************************************)
(* The bridge of two processes through the runtime directory:              *)
(*   backend/services/command_service.py  create_command, atomic_write;    *)
(*   main.py  _process_runtime_commands and its helpers, run by            *)
(*   RuntimeWorker.                                                        *)
(* The backend appends commands to commands.json; the engine executes the  *)
(* pending ones, appends the answers to command_results.json and marks the *)
(* commands completed.  Both rewrite commands.json through the same        *)
(* temporary file and no lock spans the two processes.                     *)
(*                                                                         *)
(* What happens to a file that the other process has open depends on the   *)
(* host.  On POSIX it is renamed or removed, and the writer goes on        *)
(* writing to it; on Windows os.replace and unlink raise PermissionError.  *)
(* _COMMAND_LOCK makes the backend one writer.                             *)
(***************************************************************************)
EXTENDS Integers, FiniteSets

CONSTANTS Keys,         \* idempotency keys of clients
          NoKey,        \* a call without one
          Torn,         \* a file that is empty or cut: json.load fails
          Absent,       \* no temporary file
          Window,       \* create_command keeps [-50:] of the unfinished
          ResultsKept,  \* the engine keeps [-100:] of the results
          MaxCommands,  \* bound: commands in a behaviour
          MaxFaults     \* bound: crashes and failed writes in a behaviour

ASSUME KeysAssumption   == NoKey \notin Keys
ASSUME FileAssumption   == Torn # Absent
ASSUME BoundsAssumption == /\ Window \in Nat /\ ResultsKept \in Nat
                           /\ MaxCommands \in Nat /\ MaxFaults \in Nat

VARIABLES
  host,      \* "posix" or "windows"
  file,      \* commands.json: its entries, or Torn
  tmp,       \* commands.json.tmp: the same, or Absent
  results,   \* command_results.json: the rank of each id, 1 the newest,
             \* 0 if it has no result there
  mapped,    \* command_idempotency: the command id of each key
  next,      \* the next command id
  bpc, bkey, bcopy, bfile, \* create_command: where it is, its key, its list,
                           \* and where the file is that it has open
  epc, todo, ecopy, efile, handled,  \* _process_runtime_commands, likewise
  executed,  \* history: commands the engine has executed
  answers,   \* history: commands whose result the engine has written
  returned,  \* history: the last new command returned for each key
  faults

disk    == <<file, tmp>>
backend == <<bpc, bkey, bcopy, bfile>>
engine  == <<epc, todo, ecopy, efile, handled>>
vars    == <<host, disk, results, mapped, next, backend, engine,
             executed, answers, returned, faults>>

\* What a file holds is a set of entries: create_command appends with a new
\* id and nobody reorders, so the order of the list is the order of the ids.
None == 0  \* no command; ids start at 1

Ids     == 1..MaxCommands
Entry   == [id : Ids, key : Keys \cup {NoKey}, status : {"pending", "completed"}]
Content == {Torn} \cup SUBSET Entry
Places  == {"closed", "tmp", "file", "gone"}

\* read_list, and the readers of the engine: a file that is not there or not
\* readable is empty.
Read(content) == IF content \in {Torn, Absent} THEN {} ELSE content

IdsOf(entries)   == {c.id : c \in entries}
Pending(entries) == {c \in entries : c.status = "pending"}

\* entries[-n:]
Newest(n, entries) ==
  {c \in entries : Cardinality({d \in entries : c.id < d.id}) < n}

\* command_status finds an id in the results or in the commands.
Known(id) == results[id] # 0 \/ id \in IdsOf(Read(file))
-----------------------------------------------------------------------------
Init == /\ host \in {"posix", "windows"}
        /\ file = {} /\ tmp = Absent
        /\ results = [id \in Ids |-> 0]
        /\ mapped = [k \in Keys |-> None]
        /\ next = 1
        /\ bpc = "idle" /\ bkey = NoKey /\ bcopy = {} /\ bfile = "closed"
        /\ epc = "idle" /\ todo = {} /\ ecopy = {} /\ efile = "closed"
        /\ handled = {}
        /\ executed = {} /\ answers = {}
        /\ returned = [k \in Keys |-> None]
        /\ faults = 0

\* A writer's file is overwritten from its start.  If the other one has
\* written to it since it was truncated, what is longer leaves a tail.
Overwritten(old, new) == IF old \in {Torn, Absent} THEN {new} ELSE {new, Torn}

\* On Windows the temporary file stays where it is as long as it is open.
Held(place) == host = "windows" /\ place = "tmp"

\* os.replace moves the temporary file; a writer that has it open goes along.
Moved(place) == CASE place = "tmp" -> "file"
                  [] place = "file" -> "gone"
                  [] OTHER -> place
-----------------------------------------------------------------------------
BackendIdle == bpc' = "idle" /\ bkey' = NoKey /\ bcopy' = {} /\ bfile' = "closed"
EngineIdle  == /\ epc' = "idle" /\ todo' = {} /\ ecopy' = {}
               /\ efile' = "closed" /\ handled' = {}

\* Mutant: the row of a command that cannot be found is kept.
StartKeepsRow(k) ==
  /\ bpc = "idle" /\ next <= MaxCommands
  /\ k \in Keys => ~(mapped[k] # None /\ Known(mapped[k]))
  /\ bpc' = "read" /\ bkey' = k
  /\ UNCHANGED <<disk, results, mapped, next, bcopy, bfile, engine,
                 executed, answers, returned, faults>>

\* create_command, under _COMMAND_LOCK: a key whose command can still be found
\* returns that command (no step of the model); a key whose command cannot
\* be found is forgotten.
StartCreate(k) ==
  /\ bpc = "idle" /\ next <= MaxCommands
  /\ k \in Keys => ~(mapped[k] # None /\ Known(mapped[k]))
  /\ mapped' = [j \in Keys |-> IF j = k THEN None ELSE mapped[j]]
  /\ bpc' = "read" /\ bkey' = k
  /\ UNCHANGED <<disk, results, next, bcopy, bfile, engine,
                 executed, answers, returned, faults>>

\* read_list, the window of unfinished commands, and the new one.
ReadCommands ==
  /\ bpc = "read"
  /\ bcopy' = Newest(Window, Pending(Read(file)))
                \cup {[id |-> next, key |-> bkey, status |-> "pending"]}
  /\ next' = next + 1
  /\ bpc' = "open"
  /\ UNCHANGED <<disk, results, mapped, bkey, bfile, engine,
                 executed, answers, returned, faults>>

\* tmp.write_text opens the temporary file and truncates it ...
BackendOpen ==
  /\ bpc = "open"
  /\ tmp' = Torn /\ bfile' = "tmp" /\ bpc' = "write"
  /\ UNCHANGED <<file, results, mapped, next, bkey, bcopy, engine,
                 executed, answers, returned, faults>>

\* ... and writes it, wherever it is by now.
WriteTo(place, new) ==
  \/ /\ place = "tmp" /\ tmp' \in Overwritten(tmp, new) /\ UNCHANGED file
  \/ /\ place = "file" /\ file' \in Overwritten(file, new) /\ UNCHANGED tmp
  \/ /\ place = "gone" /\ UNCHANGED disk

BackendWrite ==
  /\ bpc = "write"
  /\ WriteTo(bfile, bcopy)
  /\ bfile' = "closed" /\ bpc' = "replace"
  /\ UNCHANGED <<results, mapped, next, bkey, bcopy, engine,
                 executed, answers, returned, faults>>

\* tmp.replace(path): without a temporary file, or if it is held, the client
\* gets an error.
BackendReplace ==
  /\ bpc = "replace"
  /\ IF tmp = Absent \/ Held(efile)
     THEN /\ bpc' = "refuse" /\ UNCHANGED <<disk, efile>>
     ELSE /\ bpc' = "accept"
          /\ file' = tmp /\ tmp' = Absent /\ efile' = Moved(efile)
  /\ UNCHANGED <<results, mapped, next, bkey, bcopy, bfile,
                 epc, todo, ecopy, handled, executed, answers, returned, faults>>

\* The disk is full, or on Windows a reader has commands.json open.
BackendWriteFails ==
  /\ bpc \in {"write", "replace"} /\ faults < MaxFaults
  /\ faults' = faults + 1
  /\ bfile' = "closed" /\ bpc' = "refuse"
  /\ UNCHANGED <<disk, results, mapped, next, bkey, bcopy, engine,
                 executed, answers, returned>>

\* finally: tmp.unlink() if tmp.exists(), whoever is writing it; an error is
\* passed over.
Unlink ==
  /\ bpc \in {"accept", "refuse"}
  /\ IF Held(efile)
     THEN UNCHANGED <<tmp, efile>>
     ELSE tmp' = Absent /\ efile' = IF efile = "tmp" THEN "gone" ELSE efile
  /\ IF bpc = "accept" THEN bpc' = "row" /\ UNCHANGED <<bkey, bcopy, bfile>>
                       ELSE BackendIdle
  /\ UNCHANGED <<file, results, mapped, next,
                 epc, todo, ecopy, handled, executed, answers, returned, faults>>

\* insert or ignore into command_idempotency; the command is returned.
Return ==
  /\ bpc = "row"
  /\ LET id == next - 1
     IN  /\ mapped' = [k \in Keys |-> IF k = bkey /\ mapped[k] = None
                                      THEN id ELSE mapped[k]]
         /\ returned' = [k \in Keys |-> IF k = bkey THEN id ELSE returned[k]]
  /\ BackendIdle
  /\ UNCHANGED <<disk, results, next, engine, executed, answers, faults>>

BackendCrash ==
  /\ bpc # "idle" /\ faults < MaxFaults
  /\ faults' = faults + 1
  /\ BackendIdle
  /\ UNCHANGED <<disk, results, mapped, next, engine,
                 executed, answers, returned>>
-----------------------------------------------------------------------------
\* Mutant: the newest command is taken first.
LastOf(ids) == {c \in ids : \A d \in ids : d <= c}

\* for command in _read_pending_runtime_commands(...)
FirstOf(ids) == {c \in ids : \A d \in ids : c <= d}

\* _read_pending_runtime_commands.
ReadPending ==
  /\ epc = "idle"
  /\ todo' = IdsOf(Pending(Read(file))) /\ todo' # {}
  /\ epc' = "run"
  /\ UNCHANGED <<disk, results, mapped, next, backend, ecopy, efile, handled,
                 executed, answers, returned, faults>>

\* The body of the loop, whatever the command does and whether it fails.
Execute ==
  /\ epc = "run" /\ todo # {}
  /\ executed' = executed \cup FirstOf(todo)
  /\ epc' = "answer"
  /\ UNCHANGED <<disk, results, mapped, next, backend, todo, ecopy, efile,
                 handled, answers, returned, faults>>

\* Mutant: all results are kept.
RankedForever(id) ==
  [j \in Ids |-> CASE j = id                  -> 1
                   [] j # id /\ results[j] = 0 -> 0
                   [] OTHER                    -> results[j] + 1]

\* _write_runtime_command_result: only the engine writes this file.  The new
\* result is the newest, and ResultsKept of the others are kept.
Ranked(id) ==
  [j \in Ids |->
     CASE j = id                              -> 1
       [] j # id /\ results[j] = 0            -> 0
       [] j # id /\ 0 < results[id] /\ results[id] < results[j] -> results[j]
       [] OTHER -> IF results[j] <= ResultsKept THEN results[j] + 1 ELSE 0]

WriteResult ==
  /\ epc = "answer"
  /\ \E id \in FirstOf(todo) :
       /\ results' = Ranked(id)
       /\ answers' = answers \cup {id}
       /\ handled' = handled \cup {id}
       /\ todo' = todo \ {id}
  /\ epc' = "run"
  /\ UNCHANGED <<disk, mapped, next, backend, ecopy, efile,
                 executed, returned, faults>>

\* Mutant: its error ends the thread.
WriteResultKills ==
  /\ epc = "answer" /\ faults < MaxFaults
  /\ faults' = faults + 1
  /\ epc' = "dead"
  /\ UNCHANGED <<disk, results, mapped, next, backend, todo, ecopy, efile,
                 handled, executed, answers, returned>>

\* Its error ends the pass: RuntimeWorker catches it and starts over.
WriteResultFails ==
  /\ epc = "answer" /\ faults < MaxFaults
  /\ faults' = faults + 1
  /\ EngineIdle
  /\ UNCHANGED <<disk, results, mapped, next, backend,
                 executed, answers, returned>>

\* Mutant: everything that was read is marked.
MarkedAll(entries) == {[c EXCEPT !.status = "completed"] : c \in entries}

\* _mark_runtime_commands_completed
Marked(entries) ==
  {IF c.id \in handled THEN [c EXCEPT !.status = "completed"] ELSE c :
     c \in entries}

\* It reads the list again; an unreadable one ends the pass.
MarkRead ==
  /\ epc = "run" /\ todo = {}
  /\ IF file = Torn
     THEN EngineIdle
     ELSE /\ epc' = "open" /\ ecopy' = Marked(Read(file))
          /\ UNCHANGED <<todo, efile, handled>>
  /\ UNCHANGED <<disk, results, mapped, next, backend,
                 executed, answers, returned, faults>>

\* _atomic_json_write: open(tmp, "w"), json.dump, os.replace.
EngineOpen ==
  /\ epc = "open"
  /\ tmp' = Torn /\ efile' = "tmp" /\ epc' = "write"
  /\ UNCHANGED <<file, results, mapped, next, backend, todo, ecopy, handled,
                 executed, answers, returned, faults>>

EngineWrite ==
  /\ epc = "write"
  /\ WriteTo(efile, ecopy)
  /\ efile' = "closed" /\ epc' = "replace"
  /\ UNCHANGED <<results, mapped, next, backend, todo, ecopy, handled,
                 executed, answers, returned, faults>>

\* except Exception: pass
EngineReplace ==
  /\ epc = "replace" /\ EngineIdle
  /\ IF tmp = Absent \/ Held(bfile)
     THEN UNCHANGED <<disk, bfile>>
     ELSE file' = tmp /\ tmp' = Absent /\ bfile' = Moved(bfile)
  /\ UNCHANGED <<results, mapped, next, bpc, bkey, bcopy,
                 executed, answers, returned, faults>>

\* The engine dies, or it marks while its disk is full or, on Windows, while
\* a reader has commands.json open.
EngineCrash ==
  /\ epc # "idle" /\ faults < MaxFaults
  /\ faults' = faults + 1
  /\ EngineIdle
  /\ UNCHANGED <<disk, results, mapped, next, backend,
                 executed, answers, returned>>
-----------------------------------------------------------------------------
BackendStep == \/ ReadCommands \/ BackendOpen \/ BackendWrite
               \/ BackendReplace \/ Unlink \/ Return

EngineStep == \/ ReadPending \/ Execute \/ WriteResult \/ MarkRead
              \/ EngineOpen \/ EngineWrite \/ EngineReplace

Next == /\ \/ \E k \in Keys \cup {NoKey} : StartCreate(k)
           \/ BackendStep \/ BackendWriteFails \/ BackendCrash
           \/ EngineStep \/ WriteResultFails \/ EngineCrash
        /\ UNCHANGED host

Spec == Init /\ [][Next]_vars

\* RuntimeWorker calls _process_runtime_commands every half second, and a
\* request that is being served is served to its end.
FairSpec == Spec /\ WF_vars(BackendStep /\ UNCHANGED host)
                 /\ WF_vars(EngineStep /\ UNCHANGED host)
-----------------------------------------------------------------------------
TypeOK ==
  /\ host \in {"posix", "windows"}
  /\ file \in Content /\ tmp \in Content \cup {Absent}
  /\ results \in [Ids -> 0..ResultsKept + 1]
  /\ mapped \in [Keys -> Ids \cup {None}]
  /\ next \in 1..MaxCommands + 1
  /\ bpc \in {"idle", "read", "open", "write", "replace",
              "accept", "refuse", "row"}
  /\ bkey \in Keys \cup {NoKey} /\ bcopy \in SUBSET Entry /\ bfile \in Places
  /\ epc \in {"idle", "run", "answer", "open", "write", "replace"}
  /\ todo \in SUBSET Ids /\ ecopy \in SUBSET Entry /\ efile \in Places
  /\ handled \in SUBSET Ids
  /\ executed \in SUBSET Ids /\ answers \in SUBSET Ids
  /\ returned \in [Keys -> Ids \cup {None}]
  /\ faults \in 0..MaxFaults

\* _process_runtime_commands answers before it marks: whatever was overwritten,
\* restored or lost, a command that a client sees completed in commands.json
\* was executed and its result was written.
CompletedIsAnswered ==
  \A c \in Read(file) : c.status = "completed" => c.id \in answers \cap executed

\* create_command and _process_runtime_commands: commands are executed for the
\* first time in the order in which they were created, although each process
\* may put back an older list - as long as neither process has crashed and no
\* write has failed.  (After that a temporary file that was left behind may
\* bring back a command that a window or a torn list had dropped.)
ExecutedInOrder ==
  [][faults = 0 =>
       \A c \in executed' \ executed : \A d \in executed : d < c]_vars

\* create_command and Return: the key of a client leads to the last command
\* that was created for it, or to none.
KeyLeadsToLast ==
  \A k \in Keys : mapped[k] # None => mapped[k] = returned[k]
-----------------------------------------------------------------------------
\* In every list, on disk or in memory, what is completed is answered.
Answered(entries) ==
  \A c \in entries : c.status = "completed" => c.id \in answers

CopiesAnswered == /\ Answered(Read(file)) /\ Answered(Read(tmp))
                  /\ Answered(bcopy) /\ Answered(ecopy)

\* The engine answers what it executed and marks what it answered.
AnswersExecuted == /\ handled \subseteq answers /\ answers \subseteq executed
                   /\ epc = "answer" => todo # {} /\ FirstOf(todo) \subseteq executed

\* Who creates a command has forgotten the key and has an id.
CreateInProgress ==
  /\ bpc # "idle" /\ bkey \in Keys => mapped[bkey] = None
  /\ bpc = "read" => next <= MaxCommands
  /\ bpc \in {"open", "write", "replace", "accept", "row"} => next > 1

IInv == /\ TypeOK /\ CopiesAnswered /\ AnswersExecuted /\ CreateInProgress
        /\ KeyLeadsToLast
-----------------------------------------------------------------------------
\* What each process has at a step.  On Windows a file that is open stays.
Phases ==
  /\ bpc = "write" <=> bfile # "closed"
  /\ epc = "write" <=> efile # "closed"
  /\ bpc \in {"idle", "read"} => bcopy = {}
  /\ epc \in {"idle", "run", "answer"} => ecopy = {}
  /\ epc \notin {"run", "answer"} => todo = {}
  /\ host = "windows" => {bfile, efile} \subseteq {"closed", "tmp"}

\* The commands that are pending in the file and in the two copies.
Waiting(entries) == IdsOf(Pending(entries))
InFile == Waiting(Read(file))
InB    == Waiting(bcopy)
InE    == Waiting(ecopy)

\* With a command that is not executed, ids has what is older than something
\* in ids.
Keeps(ids, from) == \A d \in ids, c \in from \ executed : c < d => c \in ids

\* Each list an order is taken from has every older command that the lists
\* which may replace it can bring back.
Ordered ==
  /\ Keeps(InFile, InB) /\ Keeps(InE, InB) /\ Keeps(InE, InFile)
  /\ Keeps(todo, InFile) /\ Keeps(todo, InB)
  /\ Keeps(executed, InFile) /\ Keeps(executed, InB)
  /\ Keeps(executed, InE) /\ Keeps(executed, todo)
  /\ \A c \in InFile \cup InB \cup InE \cup todo \cup executed : c < next

\* What os.replace may move: one of the copies in flight, or nothing readable.
\* Otherwise someone has the temporary file open and it cannot be moved.
TmpKnown ==
  \/ Read(tmp) \in {{}, ecopy}
  \/ bpc = "replace" /\ Read(tmp) = bcopy
  \/ /\ host = "windows"
     /\ \/ bpc = "write"
        \/ epc = "write" /\ bpc # "replace"

OrderIInv == IInv /\ Phases /\ (faults = 0 => Ordered /\ TmpKnown)
=============================================================================
