------------------------------ MODULE HiMemory ------------------------------
(***************************************************************************)
(* The HI state file and the memory index (Kingofyadav/state_manager.py,   *)
(* memory.py, memory_store.py).  Curated memory lives in state.json; the   *)
(* table of memory.db is an index of it, refilled from the file by every   *)
(* read command, and also the only place of what other devices send.       *)
(*                                                                         *)
(* The workers are the processes and threads that call these modules (HI   *)
(* listeners, Jarvis, the web API).  They read and replace state.json      *)
(* under flock; the C command line (Jarvis/cli/src/state.c) rewrites it in *)
(* place and takes no lock.  A memory entry gets its id from its time and  *)
(* text, so each is added once; two entries may have the same text.  Of    *)
(* the file, the memory list and the profile id are kept.                  *)
(***************************************************************************)
EXTENDS Naturals, Sequences, FiniteSets, SequencesExt

CONSTANTS
  Entries,  \* memory entries, by id
  Foreign,  \* those another device may have
  Public,   \* those whose own visibility field says public
  Old,      \* those past the age their importance allows
  Text,     \* Text[e]: type and primary text, what duplicates share
  Workers,  \* processes and threads using the HI modules
  NoWorker, \* "no worker"
  NoEntry,  \* "no entry"
  Cap,      \* _MEMORY_CAP
  MaxUpsets \* bound: deletions, retention runs, visibility changes,
                \* crashes, rewrites by the C command line together

ASSUME MemoryAssumption ==
  /\ Foreign \subseteq Entries /\ Public \subseteq Entries
  /\ Old \subseteq Entries
  /\ NoWorker \notin Workers /\ NoEntry \notin Entries
  /\ Cap \in Nat \ {0} /\ MaxUpsets \in Nat

VARIABLES
  file,    \* state.json: memory and profile id (0: none yet)
  torn,    \* state.json is open and truncated
  lock,    \* holder of logs/state.json.lock
  rows,    \* table memories: visibility of each entry, or "none"
  archive, \* entries in finished files of logs/memory_archive
  newest,  \* entries in the archive file named after this second
  lost,    \* entries that were in an archive file replaced by a later one
  pc,      \* where each worker is
  op,      \* the command it executes
  cur,     \* its argument
  draft,   \* its copy of state.json
  todo,    \* entries it still has to write to, or delete from, memories
  cli,     \* where the C command line is
  cliCopy, \* the state.json it has read
  life,    \* what the operator has done with each entry
  minted,  \* profile ids generated
  shown,   \* entries the operator has made public
  spoilt,  \* a rewrite by the command line overlapped a locked update or
             \* was cut short
  upsets \* what MaxUpsets bounds

disk    == <<file, torn, archive, newest, lost>>
worker  == <<pc, op, cur, draft, todo>>
cmdline == <<cli, cliCopy>>
ghosts  == <<life, minted, shown, spoilt>>
vars == <<disk, lock, rows, worker, cmdline, ghosts, upsets>>

Content == [memory : Seq(Entries), id : Nat]
Blank == [memory |-> <<>>, id |-> 0]
Kept == ToSet(file.memory)

TypeOK ==
  /\ file \in Content
  /\ Len(file.memory) <= Cap
  /\ \A i, j \in 1..Len(file.memory) :
       Text[file.memory[i]] = Text[file.memory[j]] => i = j
  /\ torn \in BOOLEAN
  /\ lock \in Workers \union {NoWorker}
  /\ rows \in [Entries -> {"none", "private", "public"}]
  /\ archive \subseteq Entries /\ newest \subseteq Entries
  /\ lost \subseteq Entries
  /\ pc \in [Workers -> {"idle", "load", "mint", "loaded", "save", "sync",
                         "expire"}]
  /\ op \in [Workers -> {"none", "add", "search", "forget", "import",
                         "retain"}]
  /\ cur \in [Workers -> Entries \union {NoEntry}]
  /\ draft \in [Workers -> Content]
  /\ todo \in [Workers -> SUBSET Entries]
  /\ cli \in {"idle", "read", "open", "orphan"} /\ cliCopy \in Content
  /\ life \in [Entries -> {"new", "abroad", "adding", "added", "forgotten"}]
  /\ minted \in Nat /\ shown \subseteq Entries /\ spoilt \in BOOLEAN
  /\ upsets \in 0..MaxUpsets

Init ==
  /\ file = Blank /\ torn = FALSE /\ lock = NoWorker
  /\ rows = [e \in Entries |-> "none"]
  /\ archive = {} /\ newest = {} /\ lost = {}
  /\ pc = [p \in Workers |-> "idle"] /\ op = [p \in Workers |-> "none"]
  /\ cur = [p \in Workers |-> NoEntry] /\ draft = [p \in Workers |-> Blank]
  /\ todo = [p \in Workers |-> {}]
  /\ cli = "idle" /\ cliCopy = Blank
  /\ life = [e \in Entries |-> "new"]
  /\ minted = 0 /\ shown = {} /\ spoilt = FALSE /\ upsets = 0

Goto(p, label) == pc' = [pc EXCEPT ![p] = label]

Upset == upsets < MaxUpsets /\ upsets' = upsets + 1

(* Worker p takes up command o with argument e.                            *)
Takes(p, o, e) ==
  /\ pc[p] = "idle"
  /\ op' = [op EXCEPT ![p] = o] /\ cur' = [cur EXCEPT ![p] = e]

(* Worker p returns to its caller.                                         *)
Returns(p) ==
  /\ Goto(p, "idle")
  /\ op' = [op EXCEPT ![p] = "none"] /\ cur' = [cur EXCEPT ![p] = NoEntry]
  /\ todo' = [todo EXCEPT ![p] = {}]

-----------------------------------------------------------------------------
(* The commands.                                                           *)

AddMemory(p, e) ==
  /\ Takes(p, "add", e)
  /\ life[e] = "new"
  /\ life' = [life EXCEPT ![e] = "adding"]
  /\ Goto(p, "load")
  /\ UNCHANGED <<disk, lock, rows, draft, todo, cmdline, minted, shown, spoilt,
                 upsets>>

(* Any command that refreshes the index before it reads it: search,        *)
(* related, graph, link, summary.                                          *)
SearchMemory(p) ==
  /\ Takes(p, "search", NoEntry)
  /\ Goto(p, "load")
  /\ UNCHANGED <<disk, lock, rows, draft, todo, cmdline, ghosts, upsets>>

(* delete_memory_entry removes the row first, then updates the state.  For *)
(* an id without a row it rewrites the state as it is and reports that.    *)
DeleteMemory(p, e) ==
  /\ Takes(p, "forget", e)
  /\ rows[e] # "none"
  /\ rows' = [rows EXCEPT ![e] = "none"]
  /\ Upset
  /\ Goto(p, "load")
  /\ UNCHANGED <<disk, lock, draft, todo, cmdline, ghosts>>

(* An entry pulled from, or pushed by, another device: skipped when a row  *)
(* with another id has the same text.                                      *)
ImportMemory(p, e) ==
  /\ Takes(p, "import", e)
  /\ e \in Foreign
  /\ \A x \in Entries \ {e} : rows[x] # "none" => Text[x] # Text[e]
  /\ life' = [life EXCEPT ![e] = IF @ = "new" THEN "abroad" ELSE @]
  /\ todo' = [todo EXCEPT ![p] = {e}]
  /\ Goto(p, "sync")
  /\ UNCHANGED <<disk, lock, rows, draft, cmdline, minted, shown, spoilt,
                 upsets>>

(* apply_retention_policy, up to the file it archives the rows in.         *)
ApplyRetention(p) ==
  /\ Takes(p, "retain", NoEntry)
  /\ todo' = [todo EXCEPT ![p] = {e \in Old : rows[e] # "none"}]
  /\ Upset
  /\ Goto(p, "expire")
  /\ UNCHANGED <<disk, lock, rows, draft, cmdline, ghosts>>

SetVisibility(e, visibility) ==
  /\ rows[e] # "none"
  /\ rows' = [rows EXCEPT ![e] = visibility]
  /\ shown' = IF visibility = "public" THEN shown \union {e} ELSE shown \ {e}
  /\ Upset
  /\ UNCHANGED <<disk, lock, worker, cmdline, life, minted, spoilt>>

-----------------------------------------------------------------------------
(* The locked section of load_state and update_state.                      *)

(* Mutant: the lock is not taken.                                          *)
LoadUnlocked(p) ==
  /\ pc[p] = "load"
  /\ IF torn
     THEN Returns(p) /\ UNCHANGED draft
     ELSE /\ draft' = [draft EXCEPT ![p] =
               [file EXCEPT !.id = IF @ = 0 THEN minted + 1 ELSE @]]
          /\ Goto(p, IF file.id = 0 THEN "mint" ELSE "loaded")
          /\ UNCHANGED <<op, cur, todo>>
  /\ UNCHANGED <<disk, lock, rows, cmdline, ghosts, upsets>>

(* Mutant: a new profile id is given to the caller but not saved.          *)
LoadWithoutMint(p) ==
  /\ pc[p] = "load" /\ lock = NoWorker /\ ~torn
  /\ lock' = p
  /\ draft' = [draft EXCEPT ![p] =
       [file EXCEPT !.id = IF @ = 0 THEN minted + 1 ELSE @]]
  /\ minted' = IF file.id = 0 THEN minted + 1 ELSE minted
  /\ Goto(p, "loaded")
  /\ UNCHANGED <<disk, rows, op, cur, todo, cmdline, life, shown, spoilt,
                 upsets>>

(* Under the lock, read and normalize state.json.  A truncated file does   *)
(* not parse and the command fails.                                        *)
LoadState(p) ==
  /\ pc[p] = "load" /\ lock = NoWorker
  /\ IF torn
     THEN Returns(p) /\ UNCHANGED <<lock, draft>>
     ELSE /\ lock' = p
          /\ draft' = [draft EXCEPT ![p] =
               [file EXCEPT !.id = IF @ = 0 THEN minted + 1 ELSE @]]
          /\ Goto(p, IF file.id = 0 THEN "mint" ELSE "loaded")
          /\ UNCHANGED <<op, cur, todo>>
  /\ UNCHANGED <<disk, rows, cmdline, ghosts, upsets>>

(* tmp_path.replace: the file is complete under its name at once.  A       *)
(* command line that has the old file open goes on writing to that one.    *)
Replace(content) ==
  /\ file' = content
  /\ torn' = FALSE
  /\ cli' = IF cli = "open" THEN "orphan" ELSE cli
  /\ spoilt' = (spoilt \/ cli # "idle")

(* _ensure_hi_identity found no id: the new one is saved at once.          *)
MintIdentity(p) ==
  /\ pc[p] = "mint"
  /\ Replace(draft[p])
  /\ minted' = minted + 1
  /\ Goto(p, "loaded")
  /\ UNCHANGED <<archive, newest, lost, lock, rows, op, cur, draft, todo,
                 cliCopy, life, shown, upsets>>

(* add_memory appends; _archive_overflow moves what is over the cap to a   *)
(* file named after the second, replacing one that is there.               *)
AppendMemory(p) ==
  /\ pc[p] = "loaded" /\ op[p] = "add"
  /\ LET all  == Append(draft[p].memory, cur[p])
         over == Len(all) - Cap
     IN IF Len(all) > Cap
        THEN /\ newest' = ToSet(SubSeq(all, 1, over))
             /\ lost' = lost \union newest
             /\ draft' = [draft EXCEPT ![p].memory =
                            SubSeq(all, over + 1, Len(all))]
        ELSE /\ draft' = [draft EXCEPT ![p].memory = all]
             /\ UNCHANGED <<newest, lost>>
  /\ Goto(p, "save")
  /\ UNCHANGED <<file, torn, archive, lock, rows, op, cur, todo, cmdline,
                 ghosts, upsets>>

(* delete_memory_entry drops the entries whose id is the argument; the     *)
(* entries of state.json have no id, normalization keeps none.             *)
FilterMemory(p) ==
  /\ pc[p] = "loaded" /\ op[p] = "forget"
  /\ Goto(p, "save")
  /\ UNCHANGED <<disk, lock, rows, op, cur, draft, todo, cmdline, ghosts,
                 upsets>>

(* load_state returns; sync_from_state will walk the copy.                 *)
EndLoad(p) ==
  /\ pc[p] = "loaded" /\ op[p] = "search"
  /\ lock' = NoWorker
  /\ todo' = [todo EXCEPT ![p] = ToSet(draft[p].memory)]
  /\ draft' = [draft EXCEPT ![p] = Blank]
  /\ Goto(p, "sync")
  /\ UNCHANGED <<disk, rows, op, cur, cmdline, ghosts, upsets>>

(* Mutant: entries with the same text are all kept.                        *)
KeepDuplicates(memory) == memory

(* normalize_memory walks the list and drops an entry whose text it has    *)
(* seen: of entries with the same text it keeps the first.                 *)
AppendUnseen(seen, e) ==
  IF \E i \in 1..Len(seen) : Text[seen[i]] = Text[e]
  THEN seen ELSE Append(seen, e)

Normalize(memory) ==
  LET kept[n \in 0..Len(memory)] ==
        IF n = 0 THEN <<>> ELSE AppendUnseen(kept[n - 1], memory[n])
  IN kept[Len(memory)]

(* The end of update_state.  add_memory goes on to index the last entry.   *)
SaveState(p) ==
  LET memory == Normalize(draft[p].memory)
  IN /\ pc[p] = "save"
     /\ Replace([draft[p] EXCEPT !.memory = memory])
     /\ lock' = NoWorker
     /\ draft' = [draft EXCEPT ![p] = Blank]
     /\ IF op[p] = "add"
        THEN /\ life' = [life EXCEPT ![cur[p]] =
                  IF cur[p] \in ToSet(memory) THEN "added" ELSE "new"]
             /\ todo' = [todo EXCEPT ![p] = {Last(memory)}]
             /\ Goto(p, "sync")
             /\ UNCHANGED <<op, cur>>
        ELSE /\ life' = [life EXCEPT ![cur[p]] = "forgotten"]
             /\ Returns(p)
     /\ UNCHANGED <<archive, newest, lost, rows, cliCopy, minted, shown,
                    upsets>>

-----------------------------------------------------------------------------
(* The index.                                                              *)

(* Mutant: an entry without a visibility of its own is indexed as public.  *)
PublicByDefault(e) == "public"

(* _normalize_metadata: what is not public is private.                     *)
Visibility(e) == IF e \in Public THEN "public" ELSE "private"

(* Mutant: the index is not refreshed before it is read.                   *)
SkipSync(p) ==
  /\ pc[p] = "sync"
  /\ Returns(p)
  /\ UNCHANGED <<disk, lock, rows, draft, cmdline, ghosts, upsets>>

(* upsert_memory, one transaction per entry; entries are independent, so   *)
(* their order does not matter.                                            *)
UpsertMemory(p) ==
  /\ pc[p] = "sync"
  /\ \/ \E e \in todo[p] :
          /\ rows' = [rows EXCEPT ![e] = Visibility(e)]
          /\ todo' = [todo EXCEPT ![p] = @ \ {e}]
          /\ UNCHANGED <<pc, op, cur>>
     \/ /\ todo[p] = {}
        /\ Returns(p)
        /\ UNCHANGED rows
  /\ UNCHANGED <<disk, lock, draft, cmdline, ghosts, upsets>>

(* apply_retention_policy deletes the rows it has archived.                *)
DeleteExpired(p) ==
  /\ pc[p] = "expire"
  /\ rows' = [e \in Entries |-> IF e \in todo[p] THEN "none" ELSE rows[e]]
  /\ Returns(p)
  /\ UNCHANGED <<disk, lock, draft, cmdline, ghosts, upsets>>

-----------------------------------------------------------------------------
(* The surroundings.                                                       *)

(* The next second: archive files get a new name.                          *)
NextSecond ==
  /\ newest # {}
  /\ archive' = archive \union newest /\ newest' = {}
  /\ UNCHANGED <<file, torn, lost, lock, rows, worker, cmdline, ghosts, upsets>>

(* The worker is killed; the kernel drops its lock.                        *)
Crash(p) ==
  /\ pc[p] # "idle"
  /\ Upset
  /\ Returns(p)
  /\ lock' = IF lock = p THEN NoWorker ELSE lock
  /\ draft' = [draft EXCEPT ![p] = Blank]
  /\ UNCHANGED <<disk, rows, cmdline, ghosts>>

(* jarvis add-task, done, estimate: json.load(open(path)) ...              *)
CliRead ==
  /\ cli = "idle" /\ ~torn
  /\ Upset
  /\ cli' = "read" /\ cliCopy' = file
  /\ UNCHANGED <<disk, lock, rows, worker, ghosts>>

(* ... open(path, 'w') ...                                                 *)
CliOpen ==
  /\ cli = "read"
  /\ cli' = "open" /\ torn' = TRUE
  /\ UNCHANGED <<file, archive, newest, lost, lock, rows, worker, cliCopy,
                 ghosts, upsets>>

(* ... json.dump, to the file that had the name when it was opened.        *)
CliWrite ==
  /\ \/ /\ cli = "open"
        /\ file' = cliCopy /\ torn' = FALSE
        /\ spoilt' = (spoilt \/ lock # NoWorker)
     \/ /\ cli = "orphan"
        /\ UNCHANGED <<file, torn, spoilt>>
  /\ cli' = "idle" /\ cliCopy' = Blank
  /\ UNCHANGED <<archive, newest, lost, lock, rows, worker, life, minted,
                 shown, upsets>>

(* The command line is interrupted; a file it has truncated stays so.      *)
CliDies ==
  /\ cli # "idle"
  /\ cli' = "idle" /\ cliCopy' = Blank
  /\ spoilt' = (spoilt \/ cli = "open")
  /\ UNCHANGED <<disk, lock, rows, worker, life, minted, shown, upsets>>

-----------------------------------------------------------------------------
LockedStep(p) ==
  MintIdentity(p) \/ AppendMemory(p) \/ FilterMemory(p) \/ EndLoad(p)
  \/ SaveState(p)

IndexStep(p) == UpsertMemory(p) \/ DeleteExpired(p)

Command(p) ==
  \/ SearchMemory(p) \/ ApplyRetention(p)
  \/ \E e \in Entries : AddMemory(p, e) \/ DeleteMemory(p, e)
                        \/ ImportMemory(p, e)

Next ==
  \/ \E p \in Workers : Command(p) \/ LoadState(p) \/ LockedStep(p)
                        \/ IndexStep(p) \/ Crash(p)
  \/ \E e \in Entries, visibility \in {"private", "public"} :
       SetVisibility(e, visibility)
  \/ NextSecond \/ CliRead \/ CliOpen \/ CliWrite \/ CliDies

Spec == Init /\ [][Next]_vars

(* A command that was begun goes on, a worker that waits for the lock gets *)
(* it when it is released again and again (flock queues its waiters), and  *)
(* memory is searched again and again.                                     *)
Fairness ==
  /\ \A p \in Workers : /\ WF_vars(LockedStep(p) \/ IndexStep(p))
                        /\ SF_vars(LoadState(p))
  /\ SF_vars(\E p \in Workers : SearchMemory(p))

FairSpec == Spec /\ Fairness

-----------------------------------------------------------------------------
(* Properties.                                                             *)

(* An entry that add_memory has saved stays in state.json or in an archive *)
(* file, whichever workers update the file, however often the cap is       *)
(* exceeded and wherever a worker is killed.  Excepted are the two losses  *)
(* the code allows: by a rewrite of the unlocked command line, and of an   *)
(* archive file replaced within the second.                                *)
Safe == Kept \union archive \union newest

NothingIsLost ==
  spoilt \/ \A e \in Entries : life[e] = "added" => e \in Safe \union lost

(* The profile id is generated once and kept for ever, however many        *)
(* processes meet a file without one.                                      *)
IdentityIsStable == spoilt \/ (minted <= 1 /\ (minted = 1 => file.id = 1))

(* The index shows an entry as public only when its own visibility says so *)
(* or the operator made it public.                                         *)
NothingShownUnasked ==
  \A e \in Entries : rows[e] = "public" => e \in Public \union shown

(* What is in state.json gets into the index, also when the worker that    *)
(* added it is killed before it has written the row.                       *)
MemoryIsIndexed ==
  \A e \in Entries :
    (e \in Kept /\ ~torn) ~> (rows[e] # "none" \/ e \notin Kept \/ torn)

(* A claim the code does not keep: after "Memory <id> deleted." the entry  *)
(* stays out of the index.                                                 *)
DeletedStaysDeleted ==
  \A e \in Entries : life[e] = "forgotten" => rows[e] = "none"

=============================================================================
