-------------------------- MODULE HiMemory_proofs --------------------------
(***************************************************************************)
(* Proofs about HiMemory, for any number of workers, entries and faults:   *)
(* the lock of state.json excludes, the profile id is generated once,      *)
(* nothing is shown unasked, every state is within the cap and without a   *)
(* text twice, and no saved entry is lost.                                 *)
(***************************************************************************)
EXTENDS HiMemory, SequenceTheorems, WellFoundedInduction, TLAPS

(* The ids are followed without regard to the memory list: a content is a  *)
(* record of some list and an id.                                          *)
IsContent(c) == c = [memory |-> c.memory, id |-> c.id]

Places == {"idle", "load", "mint", "loaded", "save", "sync", "expire"}

ShapeInv ==
  /\ pc \in [Workers -> Places]
  /\ draft = [p \in Workers |-> draft[p]]
  /\ \A p \in Workers : IsContent(draft[p])
  /\ IsContent(file) /\ IsContent(cliCopy)

(* A worker in the locked section holds the lock.                          *)
Inside(p) == pc[p] \in {"mint", "loaded", "save"}
LockInv == \A p \in Workers : Inside(p) => lock = p

(* Another list in state.json keeps its shape and its profile id.          *)
LEMMA WithMemory ==
  ASSUME NEW c, IsContent(c), NEW m
  PROVE  /\ IsContent([c EXCEPT !.memory = m])
         /\ [c EXCEPT !.memory = m].id = c.id
BY DEF IsContent

(* So does a profile id given to a state that has none.                    *)
LEMMA WithId ==
  ASSUME NEW c, IsContent(c), NEW i
  PROVE  /\ IsContent([c EXCEPT !.id = IF @ = 0 THEN i ELSE @])
         /\ [c EXCEPT !.id = IF @ = 0 THEN i ELSE @].id =
              IF c.id = 0 THEN i ELSE c.id
BY DEF IsContent

(* The state that does not exist yet has no profile id.                    *)
LEMMA BlankShape == IsContent(Blank) /\ Blank.id = 0
BY DEF IsContent, Blank

(* A new value for one worker keeps the shape of the drafts.               *)
LEMMA DraftStep ==
  ASSUME ShapeInv, NEW p \in Workers, NEW c, IsContent(c),
         draft' = [draft EXCEPT ![p] = c]
  PROVE  /\ draft' = [q \in Workers |-> draft'[q]]
         /\ \A q \in Workers : IsContent(draft'[q])
         /\ draft'[p] = c
         /\ \A q \in Workers \ {p} : draft'[q] = draft[q]
<1>1. draft' = [q \in Workers |-> IF q = p THEN c ELSE draft[q]]
  BY DEF ShapeInv
<1> QED
  BY <1>1 DEF ShapeInv

-----------------------------------------------------------------------------
(* What each step does to the places of the workers, the lock, state.json, *)
(* the drafts and the copy of the command line.                            *)
Quiet == UNCHANGED <<file, draft, cli, cliCopy, minted, spoilt>>

OutsideStep(p) ==
  /\ Quiet /\ UNCHANGED lock
  /\ ~Inside(p) /\ ~Inside(p)'
  /\ pc' = [pc EXCEPT ![p] = pc'[p]] /\ pc'[p] \in Places

(* A step outside the lock changes neither the lock nor the file and the   *)
(* drafts, and moves only the worker that takes it.                        *)
LEMMA CommandEffect ==
  ASSUME ShapeInv, NEW p \in Workers, Command(p) \/ IndexStep(p)
  PROVE  OutsideStep(p)
<1> USE DEF ShapeInv, Places, OutsideStep, Inside, Quiet, Goto, Returns, Takes,
            disk, cmdline, ghosts
<1>1. CASE SearchMemory(p) \/ ApplyRetention(p)
  BY <1>1 DEF SearchMemory, ApplyRetention
<1>2. ASSUME NEW e \in Entries,
             AddMemory(p, e) \/ DeleteMemory(p, e) \/ ImportMemory(p, e)
      PROVE  OutsideStep(p)
  BY <1>2 DEF AddMemory, DeleteMemory, ImportMemory
<1>3. CASE UpsertMemory(p)
  BY <1>3 DEF UpsertMemory
<1>4. CASE DeleteExpired(p)
  BY <1>4 DEF DeleteExpired
<1> QED
  BY <1>1, <1>2, <1>3, <1>4 DEF Command, IndexStep

(* A step that leaves the places, the lock and the contents alone.         *)
Aside == UNCHANGED <<file, draft, cli, cliCopy, minted, spoilt, lock, pc>>

(* Such are the next second, a change of visibility and a stutter.         *)
LEMMA AsideEffect ==
  ASSUME \/ NextSecond
         \/ \E e \in Entries, visibility \in {"private", "public"} :
              SetVisibility(e, visibility)
         \/ UNCHANGED vars
  PROVE  Aside
BY DEF NextSecond, SetVisibility, vars, Aside, disk, worker, cmdline, ghosts

-----------------------------------------------------------------------------
(* The shapes of the contents, and the mutual exclusion of the workers in  *)
(* the locked section, also when holders are killed.                       *)
LEMMA LockAlways == Spec => [](ShapeInv /\ LockInv)
<1>1. Init => ShapeInv /\ LockInv
  BY BlankShape DEF Init, ShapeInv, LockInv, Inside, Places
<1>2. ShapeInv /\ LockInv /\ [Next]_vars => ShapeInv' /\ LockInv'
  <2> SUFFICES ASSUME ShapeInv, LockInv, [Next]_vars
               PROVE  ShapeInv' /\ LockInv'
    OBVIOUS
  <2> USE MemoryAssumption, BlankShape DEF MemoryAssumption
  <2>1. ASSUME NEW p \in Workers, Command(p) \/ IndexStep(p)
        PROVE  ShapeInv' /\ LockInv'
    <3>1. OutsideStep(p)
      BY <2>1, CommandEffect
    <3> QED
      BY <3>1 DEF OutsideStep, Quiet, ShapeInv, LockInv, Inside, Places
  <2>2. ASSUME NEW p \in Workers, LoadState(p)
        PROVE  ShapeInv' /\ LockInv'
    <3>1. CASE torn
      BY <2>2, <3>1
         DEF LoadState, Returns, Goto, ShapeInv, LockInv, Inside, Places,
             disk, cmdline
    <3>2. CASE ~torn
      <4> DEFINE c == [file EXCEPT !.id = IF @ = 0 THEN minted + 1 ELSE @]
      <4>1. IsContent(c)
        BY WithId DEF ShapeInv
      <4>2. draft' = [draft EXCEPT ![p] = c] /\ UNCHANGED <<file, cliCopy>>
        BY <2>2, <3>2 DEF LoadState, disk, cmdline
      <4>3. /\ draft' = [q \in Workers |-> draft'[q]]
            /\ \A q \in Workers : IsContent(draft'[q])
        BY <4>1, <4>2, DraftStep
      <4>4. /\ lock = NoWorker /\ lock' = p
            /\ \E l \in Places : pc' = [pc EXCEPT ![p] = l]
        BY <2>2, <3>2 DEF LoadState, Goto, Places
      <4> QED
        BY <4>2, <4>3, <4>4 DEF ShapeInv, LockInv, Inside
    <3> QED
      BY <3>1, <3>2
  <2>3. ASSUME NEW p \in Workers, MintIdentity(p)
        PROVE  ShapeInv' /\ LockInv'
    BY <2>3 DEF MintIdentity, Replace, Goto, ShapeInv, LockInv, Inside, Places
  <2>4. ASSUME NEW p \in Workers, AppendMemory(p)
        PROVE  ShapeInv' /\ LockInv'
    <3>1. PICK m : draft' = [draft EXCEPT ![p] = [@ EXCEPT !.memory = m]]
      BY <2>4 DEF AppendMemory
    <3>2. IsContent([draft[p] EXCEPT !.memory = m])
      BY WithMemory DEF ShapeInv
    <3>3. draft' = [draft EXCEPT ![p] = [draft[p] EXCEPT !.memory = m]]
      BY <3>1 DEF ShapeInv
    <3>4. /\ draft' = [q \in Workers |-> draft'[q]]
          /\ \A q \in Workers : IsContent(draft'[q])
      BY <3>2, <3>3, DraftStep
    <3> QED
      BY <2>4, <3>4 DEF AppendMemory, Goto, ShapeInv, LockInv, Inside, Places,
                        cmdline
  <2>5. ASSUME NEW p \in Workers, FilterMemory(p)
        PROVE  ShapeInv' /\ LockInv'
    BY <2>5 DEF FilterMemory, Goto, ShapeInv, LockInv, Inside, Places, disk,
                cmdline
  <2>6. ASSUME NEW p \in Workers, EndLoad(p)
        PROVE  ShapeInv' /\ LockInv'
    <3>1. /\ draft' = [q \in Workers |-> draft'[q]]
          /\ \A q \in Workers : IsContent(draft'[q])
      BY <2>6, DraftStep DEF EndLoad
    <3> QED
      BY <2>6, <3>1 DEF EndLoad, Goto, ShapeInv, LockInv, Inside, Places, disk,
                        cmdline
  <2>7. ASSUME NEW p \in Workers, SaveState(p)
        PROVE  ShapeInv' /\ LockInv'
    <3>1. /\ draft' = [q \in Workers |-> draft'[q]]
          /\ \A q \in Workers : IsContent(draft'[q])
      BY <2>7, DraftStep DEF SaveState
    <3>2. IsContent(file') /\ cliCopy' = cliCopy
      BY <2>7, WithMemory DEF SaveState, Replace, ShapeInv
    <3>3. /\ pc[p] = "save" /\ lock' = NoWorker
          /\ \E l \in {"sync", "idle"} : pc' = [pc EXCEPT ![p] = l]
      BY <2>7 DEF SaveState, Goto, Returns
    <3> QED
      BY <3>1, <3>2, <3>3 DEF ShapeInv, LockInv, Inside, Places
  <2>8. ASSUME NEW p \in Workers, Crash(p)
        PROVE  ShapeInv' /\ LockInv'
    <3>1. /\ draft' = [q \in Workers |-> draft'[q]]
          /\ \A q \in Workers : IsContent(draft'[q])
      BY <2>8, DraftStep DEF Crash
    <3> QED
      BY <2>8, <3>1 DEF Crash, Goto, Returns, ShapeInv, LockInv, Inside,
                        Places, disk, cmdline
  <2>9. CASE CliRead \/ CliOpen \/ CliWrite \/ CliDies
    BY <2>9 DEF CliRead, CliOpen, CliWrite, CliDies, ShapeInv, LockInv, Inside,
                Places, disk, worker
  <2>10. CASE Aside
    BY <2>10 DEF Aside, ShapeInv, LockInv, Inside
  <2> QED
    BY <2>1, <2>2, <2>3, <2>4, <2>5, <2>6, <2>7, <2>8, <2>9, <2>10,
       AsideEffect DEF Next, LockedStep
<1> QED
  BY <1>1, <1>2, PTL DEF Spec

-----------------------------------------------------------------------------
(* Until a rewrite of the command line gets in the way, the id in the file *)
(* is the one id that was minted, the worker that mints is the only one    *)
(* inside, and all who have loaded the file have that id.                  *)
IdInv ==
  /\ minted = file.id /\ minted \in {0, 1}
  /\ cli \in {"idle", "read", "open"}
  /\ cli \in {"read", "open"} => cliCopy.id = file.id
  /\ \A p \in Workers :
       /\ pc[p] = "mint" => minted = 0 /\ draft[p].id = 1
       /\ pc[p] \in {"loaded", "save"} => minted = 1 /\ draft[p].id = 1

(* Nothing forgets that a rewrite has got in the way.                      *)
LEMMA SpoiltStays == [Next]_vars /\ spoilt => spoilt'
BY DEF Next, LockedStep, Command, IndexStep, vars, ghosts, SearchMemory,
       ApplyRetention, AddMemory, DeleteMemory, ImportMemory, LoadState,
       MintIdentity, AppendMemory, FilterMemory, EndLoad, SaveState,
       Replace, UpsertMemory, DeleteExpired, Crash, SetVisibility,
       NextSecond, CliRead, CliOpen, CliWrite, CliDies

(* The id that was minted is the one in the file and in every copy.        *)
LEMMA IdAlways == Spec => [](spoilt \/ IdInv)
<1>1. Init => spoilt \/ IdInv
  BY BlankShape DEF Init, IdInv
<1>2. /\ ShapeInv /\ LockInv /\ (spoilt \/ IdInv) /\ [Next]_vars
      => (spoilt \/ IdInv)'
  <2> SUFFICES ASSUME ShapeInv, LockInv, spoilt \/ IdInv, [Next]_vars, ~spoilt'
               PROVE  IdInv'
    OBVIOUS
  <2>0. ~spoilt
    BY SpoiltStays
  <2>a. IdInv
    BY <2>0
  <2> USE <2>0, <2>a, MemoryAssumption DEF MemoryAssumption, IdInv
  <2>1. ASSUME NEW p \in Workers, Command(p) \/ IndexStep(p)
        PROVE  IdInv'
    <3>1. OutsideStep(p)
      BY <2>1, CommandEffect
    <3> QED
      BY <3>1 DEF OutsideStep, Quiet, ShapeInv, Inside
  <2>2. ASSUME NEW p \in Workers, LoadState(p)
        PROVE  IdInv'
    <3>1. UNCHANGED <<file, cli, cliCopy, minted>>
      BY <2>2 DEF LoadState, disk, cmdline, ghosts
    <3>2. CASE torn
      <4>1. draft' = draft /\ pc' = [pc EXCEPT ![p] = "idle"]
        BY <2>2, <3>2 DEF LoadState, Returns, Goto
      <4> QED
        BY <3>1, <4>1 DEF ShapeInv
    <3>3. CASE ~torn
      <4> DEFINE c == [file EXCEPT !.id = IF @ = 0 THEN minted + 1 ELSE @]
      <4>1. IsContent(c) /\ c.id = 1
        BY WithId DEF ShapeInv
      <4>2. draft' = [draft EXCEPT ![p] = c]
        BY <2>2, <3>3 DEF LoadState
      <4>3. draft'[p] = c /\ \A q \in Workers \ {p} : draft'[q] = draft[q]
        BY <4>1, <4>2, DraftStep
      <4>4. pc' = [pc EXCEPT ![p] = IF file.id = 0 THEN "mint" ELSE "loaded"]
        BY <2>2, <3>3 DEF LoadState, Goto
      <4> HIDE DEF c
      <4> QED
        BY <3>1, <4>1, <4>3, <4>4 DEF ShapeInv
    <3> QED
      BY <3>2, <3>3
  <2>3. ASSUME NEW p \in Workers, MintIdentity(p)
        PROVE  IdInv'
    <3>1. /\ pc[p] = "mint" /\ pc' = [pc EXCEPT ![p] = "loaded"]
          /\ file' = draft[p] /\ minted' = minted + 1 /\ draft' = draft
      BY <2>3 DEF MintIdentity, Replace, Goto
    <3>2. cli = "idle" /\ cli' = "idle"
      BY <2>3 DEF MintIdentity, Replace
    <3>3. \A q \in Workers \ {p} : ~Inside(q)
      BY <3>1 DEF LockInv, Inside
    <3> QED
      BY <3>1, <3>2, <3>3 DEF ShapeInv, Inside
  <2>4. ASSUME NEW p \in Workers, AppendMemory(p)
        PROVE  IdInv'
    <3>1. PICK m : draft' = [draft EXCEPT ![p] = [@ EXCEPT !.memory = m]]
      BY <2>4 DEF AppendMemory
    <3> DEFINE c == [draft[p] EXCEPT !.memory = m]
    <3>2. IsContent(c) /\ c.id = draft[p].id
      BY WithMemory DEF ShapeInv
    <3>3. draft' = [draft EXCEPT ![p] = c]
      BY <3>1 DEF ShapeInv
    <3>4. draft'[p] = c /\ \A q \in Workers \ {p} : draft'[q] = draft[q]
      BY <3>2, <3>3, DraftStep
    <3>5. /\ pc[p] = "loaded" /\ pc' = [pc EXCEPT ![p] = "save"]
          /\ UNCHANGED <<file, cli, cliCopy, minted>>
      BY <2>4 DEF AppendMemory, Goto, cmdline, ghosts
    <3> HIDE DEF c
    <3> QED
      BY <3>2, <3>4, <3>5 DEF ShapeInv
  <2>5. ASSUME NEW p \in Workers, FilterMemory(p)
        PROVE  IdInv'
    BY <2>5 DEF FilterMemory, Goto, ShapeInv, disk, cmdline, ghosts
  <2>6. ASSUME NEW p \in Workers, EndLoad(p)
        PROVE  IdInv'
    <3>1. \A q \in Workers \ {p} : draft'[q] = draft[q]
      BY <2>6, BlankShape, DraftStep DEF EndLoad
    <3> QED
      BY <2>6, <3>1 DEF EndLoad, Goto, ShapeInv, disk, cmdline, ghosts
  <2>7. ASSUME NEW p \in Workers, SaveState(p)
        PROVE  IdInv'
    <3>1. \A q \in Workers \ {p} : draft'[q] = draft[q]
      BY <2>7, BlankShape, DraftStep DEF SaveState
    <3>2. file'.id = draft[p].id
      BY <2>7, WithMemory DEF SaveState, Replace, ShapeInv
    <3>3. cli = "idle" /\ cli' = "idle" /\ minted' = minted
      BY <2>7 DEF SaveState, Replace
    <3>4. /\ pc[p] = "save"
          /\ \E l \in {"sync", "idle"} : pc' = [pc EXCEPT ![p] = l]
      BY <2>7 DEF SaveState, Goto, Returns
    <3> QED
      BY <3>1, <3>2, <3>3, <3>4 DEF ShapeInv
  <2>8. ASSUME NEW p \in Workers, Crash(p)
        PROVE  IdInv'
    <3>1. \A q \in Workers \ {p} : draft'[q] = draft[q]
      BY <2>8, BlankShape, DraftStep DEF Crash
    <3> QED
      BY <2>8, <3>1 DEF Crash, Goto, Returns, ShapeInv, disk, cmdline, ghosts
  <2>9. CASE CliRead
    BY <2>9 DEF CliRead, disk, worker, ghosts
  <2>10. CASE CliOpen
    BY <2>10 DEF CliOpen, worker, ghosts
  <2>11. CASE CliWrite
    BY <2>11 DEF CliWrite, worker
  <2>12. CASE CliDies
    BY <2>12 DEF CliDies, disk, worker
  <2>13. CASE Aside
    BY <2>13 DEF Aside
  <2> QED
    BY <2>1, <2>2, <2>3, <2>4, <2>5, <2>6, <2>7, <2>8, <2>9, <2>10, <2>11,
       <2>12, <2>13, AsideEffect DEF Next, LockedStep
<1> QED
  BY <1>1, <1>2, LockAlways, PTL DEF Spec

(* The profile id is generated once and kept, for any number of processes  *)
(* that meet a state without one and wherever they are killed.             *)
THEOREM IdentityAlways == Spec => []IdentityIsStable
<1>1. spoilt \/ IdInv => IdentityIsStable
  BY DEF IdInv, IdentityIsStable
<1> QED
  BY <1>1, IdAlways, PTL

-----------------------------------------------------------------------------
(* Nothing becomes public in the index but by its own visibility or the    *)
(* operator's command, in any interleaving of refreshes and deletions.     *)
THEOREM VisibilityAlways == Spec => []NothingShownUnasked
<1> DEFINE Inv == /\ rows \in [Entries -> {"none", "private", "public"}]
                  /\ NothingShownUnasked
<1>1. Init => Inv
  BY DEF Init, NothingShownUnasked
<1>2. Inv /\ [Next]_vars => Inv'
  <2> SUFFICES ASSUME Inv, [Next]_vars PROVE Inv'
    OBVIOUS
  <2> USE DEF NothingShownUnasked
  <2>1. ASSUME NEW e \in Entries, NEW v \in {"private", "public"},
               SetVisibility(e, v)
        PROVE  Inv'
    BY <2>1 DEF SetVisibility
  <2>2. ASSUME NEW p \in Workers, NEW e \in Entries, DeleteMemory(p, e)
        PROVE  Inv'
    BY <2>2 DEF DeleteMemory, ghosts
  <2>3. ASSUME NEW p \in Workers, UpsertMemory(p)
        PROVE  Inv'
    <3>1. \/ rows' = rows
          \/ \E e : rows' = [rows EXCEPT ![e] = Visibility(e)]
      BY <2>3 DEF UpsertMemory
    <3>2. shown' = shown
      BY <2>3 DEF UpsertMemory, ghosts
    <3> QED
      BY <3>1, <3>2 DEF Visibility
  <2>4. ASSUME NEW p \in Workers, DeleteExpired(p)
        PROVE  Inv'
    BY <2>4 DEF DeleteExpired, ghosts
  <2>5. ASSUME NEW p \in Workers,
               \/ SearchMemory(p) \/ ApplyRetention(p) \/ LoadState(p)
               \/ LockedStep(p) \/ Crash(p)
               \/ \E e \in Entries : AddMemory(p, e) \/ ImportMemory(p, e)
        PROVE  Inv'
    <3>1. UNCHANGED <<rows, shown>>
      BY <2>5 DEF SearchMemory, ApplyRetention, LoadState, LockedStep,
                  MintIdentity, AppendMemory, FilterMemory, EndLoad, SaveState,
                  Crash, AddMemory, ImportMemory, ghosts
    <3> QED
      BY <3>1
  <2>6. CASE NextSecond \/ CliRead \/ CliOpen \/ CliWrite \/ CliDies
    BY <2>6 DEF NextSecond, CliRead, CliOpen, CliWrite, CliDies, ghosts
  <2>7. CASE UNCHANGED vars
    BY <2>7 DEF vars, ghosts
  <2> QED
    BY <2>1, <2>2, <2>3, <2>4, <2>5, <2>6, <2>7 DEF Next, Command, IndexStep
<1> QED
  BY <1>1, <1>2, PTL DEF Spec

-----------------------------------------------------------------------------
(* What normalization makes of a memory list.                              *)

(* A set of numbers that is not empty has a least one.                     *)
LEMMA HasLeast ==
  ASSUME NEW S \in SUBSET Nat, S # {}
  PROVE  \E x \in S : \A y \in S : x <= y
<1>1. PICK x \in S : \A y \in S : ~ (<<y, x>> \in OpToRel(<, Nat))
  BY NatLessThanWellFounded, WFMin
<1>2. ASSUME NEW y \in S PROVE x <= y
  <2>1. x \in Nat /\ y \in Nat /\ <<y, x>> \in Nat \X Nat
    OBVIOUS
  <2>2. ~ (y < x)
    BY <1>1, <2>1 DEF OpToRel
  <2> QED
    BY <2>1, <2>2
<1> QED
  BY <1>2

(* A set of numbers with 0 and with the next of every one of them has all. *)
LEMMA Counting ==
  ASSUME NEW S, 0 \in S, \A n \in Nat : n \in S => n + 1 \in S
  PROVE  Nat \subseteq S
<1> SUFFICES ASSUME Nat \ S # {} PROVE FALSE
  OBVIOUS
<1>1. PICK n \in Nat \ S : \A m \in Nat \ S : n <= m
  BY HasLeast
<1>2. n # 0 /\ n - 1 \in Nat /\ ~ (n <= n - 1) /\ (n - 1) + 1 = n
  BY <1>1
<1> QED
  BY <1>1, <1>2

(* A list in which no two entries have the same text.                      *)
Distinct(s) == \A i, j \in 1..Len(s) : Text[s[i]] = Text[s[j]] => i = j

(* What the loop has kept after n of its turns.                            *)
IsWalk(f, memory, n) ==
  f = [i \in 0..n |-> IF i = 0 THEN <<>> ELSE AppendUnseen(f[i - 1], memory[i])]

(* There is such a walk, of any number of turns.                           *)
LEMMA WalkExists ==
  ASSUME NEW memory, NEW n \in Nat
  PROVE  \E f : IsWalk(f, memory, n)
<1> DEFINE S == {k \in Nat : \E f : IsWalk(f, memory, k)}
<1>1. 0 \in S
  <2> DEFINE f == [i \in 0..0 |-> <<>>]
  <2>1. IsWalk(f, memory, 0)
    BY DEF IsWalk
  <2> QED
    BY <2>1
<1>2. ASSUME NEW k \in Nat, k \in S PROVE k + 1 \in S
  <2>1. PICK g : IsWalk(g, memory, k)
    BY <1>2
  <2> DEFINE f == [i \in 0..(k + 1) |->
                     IF i = k + 1 THEN AppendUnseen(g[k], memory[k + 1]) ELSE g[i]]
  <2>2. ASSUME NEW i \in 0..(k + 1)
        PROVE  f[i] = IF i = 0 THEN <<>> ELSE AppendUnseen(f[i - 1], memory[i])
    <3>1. CASE i = k + 1
      <4>1. i # 0 /\ i - 1 = k /\ f[k] = g[k]
        BY <3>1
      <4> QED
        BY <3>1, <4>1
    <3>2. CASE i # k + 1
      <4>1. i \in 0..k /\ f[i] = g[i] /\ (i # 0 => i - 1 \in 0..(k + 1) /\ f[i - 1] = g[i - 1])
        BY <3>2
      <4>2. g[i] = IF i = 0 THEN <<>> ELSE AppendUnseen(g[i - 1], memory[i])
        BY <2>1, <4>1 DEF IsWalk
      <4> QED
        BY <4>1, <4>2
    <3> QED
      BY <3>1, <3>2
  <2>3. f = [i \in 0..(k + 1) |-> f[i]]
    OBVIOUS
  <2> HIDE DEF f
  <2>4. IsWalk(f, memory, k + 1)
    BY <2>2, <2>3 DEF IsWalk
  <2> QED
    BY <2>4
<1> HIDE DEF S
<1>3. Nat \subseteq S
  BY <1>1, <1>2, Counting
<1> QED
  BY <1>3 DEF S

(* Normalization is such a walk over the whole list.                       *)
LEMMA NormalizeWalks ==
  ASSUME NEW memory, Len(memory) \in Nat
  PROVE  \E f : /\ IsWalk(f, memory, Len(memory))
                /\ Normalize(memory) = f[Len(memory)]
<1> DEFINE kept[n \in 0..Len(memory)] ==
        IF n = 0 THEN <<>> ELSE AppendUnseen(kept[n - 1], memory[n])
<1>1. \E f : f = [n \in 0..Len(memory) |->
                    IF n = 0 THEN <<>> ELSE AppendUnseen(f[n - 1], memory[n])]
  BY WalkExists DEF IsWalk
<1>2. IsWalk(kept, memory, Len(memory))
  BY <1>1 DEF IsWalk
<1>3. Normalize(memory) = kept[Len(memory)]
  BY DEF Normalize
<1> QED
  BY <1>2, <1>3

(* One turn of the loop keeps a list without duplicates, and adds what is  *)
(* not in it yet.                                                          *)
LEMMA AppendUnseenKeeps ==
  ASSUME NEW s \in Seq(Entries), Distinct(s), NEW e \in Entries
  PROVE  /\ AppendUnseen(s, e) \in Seq(Entries)
         /\ Len(AppendUnseen(s, e)) \in {Len(s), Len(s) + 1}
         /\ Len(AppendUnseen(s, e)) > 0
         /\ Distinct(AppendUnseen(s, e))
         /\ \A i \in 1..Len(s) : AppendUnseen(s, e)[i] = s[i]
         /\ (\A i \in 1..Len(s) : Text[s[i]] # Text[e]) =>
              /\ Len(AppendUnseen(s, e)) = Len(s) + 1
              /\ AppendUnseen(s, e)[Len(s) + 1] = e
<1> DEFINE u == AppendUnseen(s, e)
<1>0. Len(s) \in Nat
  OBVIOUS
<1>1. CASE \E i \in 1..Len(s) : Text[s[i]] = Text[e]
  <2>1. u = s
    BY <1>1 DEF AppendUnseen
  <2>2. Len(s) > 0
    BY <1>0, <1>1
  <2> QED
    BY <1>0, <1>1, <2>1, <2>2
<1>2. CASE \A i \in 1..Len(s) : Text[s[i]] # Text[e]
  <2>1. u = Append(s, e)
    BY <1>2 DEF AppendUnseen
  <2>2. /\ u \in Seq(Entries) /\ Len(u) = Len(s) + 1
        /\ \A i \in 1..Len(s) : u[i] = s[i]
        /\ u[Len(s) + 1] = e
    BY <2>1, AppendProperties
  <2> HIDE DEF u
  <2>3. ASSUME NEW i \in 1..Len(u), NEW j \in 1..Len(u),
               Text[u[i]] = Text[u[j]]
        PROVE  i = j
    <3>1. \A k \in 1..Len(u) : k \in 1..Len(s) \/ k = Len(s) + 1
      BY <1>0, <2>2
    <3>2. CASE i \in 1..Len(s) /\ j \in 1..Len(s)
      BY <2>2, <2>3, <3>2 DEF Distinct
    <3>3. CASE i = Len(s) + 1 /\ j \in 1..Len(s)
      BY <1>2, <2>2, <2>3, <3>3
    <3>4. CASE i \in 1..Len(s) /\ j = Len(s) + 1
      BY <1>2, <2>2, <2>3, <3>4
    <3> QED
      BY <3>1, <3>2, <3>3, <3>4
  <2>4. Distinct(u)
    BY <2>3 DEF Distinct
  <2> QED
    BY <1>0, <2>2, <2>4 DEF u
<1> QED
  BY <1>1, <1>2

(* Normalization leaves a list without duplicates that is not longer, and  *)
(* keeps the entries up to the k-th when they have different texts.        *)
LEMMA NormalizeKeeps ==
  ASSUME NEW memory \in Seq(Entries), NEW k \in 0..Len(memory),
         \A i, j \in 1..k : Text[memory[i]] = Text[memory[j]] => i = j
  PROVE  /\ Normalize(memory) \in Seq(Entries)
         /\ Len(Normalize(memory)) <= Len(memory)
         /\ Len(memory) > 0 => Len(Normalize(memory)) > 0
         /\ Distinct(Normalize(memory))
         /\ \A i \in 1..k :
              \E j \in 1..Len(Normalize(memory)) : Normalize(memory)[j] = memory[i]
<1> DEFINE l == Len(memory)
<1>0. l \in Nat /\ k \in Nat /\ k <= l /\ \A i \in 1..l : memory[i] \in Entries
  BY ElementOfSeq
<1>1. PICK f : IsWalk(f, memory, l) /\ Normalize(memory) = f[l]
  BY <1>0, NormalizeWalks
<1>2. \A n \in 0..l : f[n] = IF n = 0 THEN <<>>
                             ELSE AppendUnseen(f[n - 1], memory[n])
  BY <1>1 DEF IsWalk
<1>3. f[0] = <<>>
  BY <1>0, <1>2
<1> DEFINE Good(n) ==
      /\ f[n] \in Seq(Entries) /\ Len(f[n]) <= n /\ Distinct(f[n])
      /\ n > 0 => Len(f[n]) > 0
      /\ n <= k => Len(f[n]) = n /\ \A i \in 1..n : f[n][i] = memory[i]
      /\ n >= k => \A i \in 1..k :
                     \E j \in 1..Len(f[n]) : f[n][j] = memory[i]
    S == {n \in Nat : n <= l => Good(n)}
<1>4. 0 \in S
  <2>1. <<>> \in Seq(Entries) /\ Len(<<>>) = 0
    OBVIOUS
  <2>2. Distinct(<<>>)
    BY <2>1 DEF Distinct
  <2>3. \A i \in 1..0 : FALSE
    OBVIOUS
  <2>4. 0 >= k => k = 0
    BY <1>0
  <2>5. /\ f[0] \in Seq(Entries) /\ Len(f[0]) = 0 /\ Distinct(f[0])
    BY <1>3, <2>1, <2>2
  <2>6. Good(0)
    BY <2>3, <2>4, <2>5
  <2> QED
    BY <2>6
<1>5. ASSUME NEW n \in Nat, n \in S PROVE n + 1 \in S
  <2> SUFFICES ASSUME n + 1 <= l PROVE Good(n + 1)
    OBVIOUS
  <2> DEFINE s == f[n]
             e == memory[n + 1]
             u == f[n + 1]
  <2>1. n <= l /\ Good(n) /\ e \in Entries /\ n + 1 \in 0..l
    BY <1>0, <1>5
  <2>2. u = AppendUnseen(s, e)
    BY <1>2, <2>1
  <2>3. s \in Seq(Entries) /\ Len(s) \in Nat /\ Len(s) <= n /\ Distinct(s)
    BY <2>1
  <2>4. /\ u \in Seq(Entries) /\ Len(u) \in {Len(s), Len(s) + 1} /\ Len(u) > 0
        /\ Distinct(u) /\ \A i \in 1..Len(s) : u[i] = s[i]
        /\ (\A i \in 1..Len(s) : Text[s[i]] # Text[e]) =>
             Len(u) = Len(s) + 1 /\ u[Len(s) + 1] = e
    <3>1. e \in Entries
      BY <2>1
    <3> HIDE DEF s, e, u
    <3> QED
      BY <2>2, <2>3, <3>1, AppendUnseenKeeps
  <2>5. ASSUME n + 1 <= k
        PROVE  Len(u) = n + 1 /\ \A i \in 1..(n + 1) : u[i] = memory[i]
    <3>1. Len(s) = n /\ \A i \in 1..n : s[i] = memory[i]
      BY <1>0, <2>1, <2>5
    <3>2. ASSUME NEW i \in 1..Len(s) PROVE Text[s[i]] # Text[e]
      <4>1. i \in 1..k /\ n + 1 \in 1..k /\ i # n + 1
        BY <1>0, <2>5, <3>1
      <4> QED
        BY <3>1, <4>1
    <3>3. Len(u) = n + 1 /\ u[n + 1] = e
      BY <2>4, <3>1, <3>2
    <3> HIDE DEF s, u, e
    <3> QED
      BY <2>4, <3>1, <3>3 DEF e
  <2>6. ASSUME n + 1 >= k, NEW i \in 1..k
        PROVE  \E j \in 1..Len(u) : u[j] = memory[i]
    <3>1. CASE n + 1 = k
      <4>1. i \in 1..Len(u) /\ u[i] = memory[i]
        BY <2>5, <3>1
      <4> QED
        BY <4>1
    <3>2. CASE n >= k
      <4>1. PICK j \in 1..Len(s) : s[j] = memory[i]
        BY <2>1, <3>2
      <4>2. j \in 1..Len(u) /\ u[j] = memory[i]
        BY <2>3, <2>4, <4>1
      <4> QED
        BY <4>2
    <3> QED
      BY <1>0, <2>6, <3>1, <3>2
  <2>7. Len(u) <= n + 1
    BY <2>3, <2>4
  <2> QED
    BY <2>4, <2>5, <2>6, <2>7
<1>6. l \in S
  <2> HIDE DEF S
  <2> QED
    BY <1>0, <1>4, <1>5, Counting
<1>7. Good(l)
  BY <1>0, <1>6
<1> QED
  BY <1>0, <1>1, <1>7

-----------------------------------------------------------------------------
(* The types, and the shape of the memory lists.                           *)

(* A list without duplicates and within the cap.                           *)
Neat(c) ==
  c \in Content /\ Len(c.memory) <= Cap /\ Distinct(c.memory)

Ops == {"none", "add", "search", "forget", "import", "retain"}

(* What a worker has read from the file is neat; what it is about to save  *)
(* is within the cap, and an addition has something to save.               *)
WorkerOK(l, o, c, d, t) ==
  /\ l \in Places /\ o \in Ops /\ c \in Entries \union {NoEntry}
  /\ d \in Content /\ t \subseteq Entries
  /\ o = "add" => c \in Entries
  /\ l # "save" => Neat(d)
  /\ l = "save" => /\ Len(d.memory) <= Cap
                   /\ o = "add" => Len(d.memory) > 0

WorkersOK ==
  /\ pc = [p \in Workers |-> pc[p]] /\ op = [p \in Workers |-> op[p]]
  /\ cur = [p \in Workers |-> cur[p]] /\ draft = [p \in Workers |-> draft[p]]
  /\ todo = [p \in Workers |-> todo[p]]
  /\ \A p \in Workers : WorkerOK(pc[p], op[p], cur[p], draft[p], todo[p])

RowsOK == rows \in [Entries -> {"none", "private", "public"}]
LifeOK == life \in [Entries ->
                      {"new", "abroad", "adding", "added", "forgotten"}]
ArchiveOK ==
  archive \subseteq Entries /\ newest \subseteq Entries /\ lost \subseteq Entries
LocksOK ==
  /\ torn \in BOOLEAN /\ lock \in Workers \union {NoWorker}
  /\ cli \in {"idle", "read", "open", "orphan"} /\ spoilt \in BOOLEAN
CountsOK == minted \in Nat /\ shown \subseteq Entries /\ upsets \in 0..MaxUpsets

NeatInv ==
  /\ WorkersOK /\ Neat(file) /\ Neat(cliCopy)
  /\ RowsOK /\ LifeOK /\ ArchiveOK /\ LocksOK /\ CountsOK

(* The parts together say what TypeOK says.                                *)
LEMMA NeatInvTypes == NeatInv => TypeOK
<1> SUFFICES ASSUME NeatInv PROVE TypeOK
  OBVIOUS
<1>1. /\ file \in Content /\ Len(file.memory) <= Cap /\ cliCopy \in Content
      /\ \A i, j \in 1..Len(file.memory) :
           Text[file.memory[i]] = Text[file.memory[j]] => i = j
  BY DEF NeatInv, Neat, Distinct
<1>2. /\ pc \in [Workers -> Places] /\ op \in [Workers -> Ops]
      /\ cur \in [Workers -> Entries \union {NoEntry}]
      /\ draft \in [Workers -> Content] /\ todo \in [Workers -> SUBSET Entries]
  BY DEF NeatInv, WorkersOK, WorkerOK
<1> QED
  BY <1>1, <1>2 DEF NeatInv, RowsOK, LifeOK, ArchiveOK, LocksOK, CountsOK,
                    TypeOK, Places, Ops

(* The state that does not exist yet is without duplicates.                *)
LEMMA BlankNeat == Neat(Blank) /\ Blank.memory = <<>>
<1>1. <<>> \in Seq(Entries) /\ Len(<<>>) = 0
  OBVIOUS
<1>2. Blank \in Content /\ Blank.memory = <<>>
  BY <1>1 DEF Blank, Content
<1> QED
  BY <1>1, <1>2, MemoryAssumption DEF Neat, Distinct

(* A new profile id leaves the list as it is.                              *)
LEMMA NeatWithId ==
  ASSUME NEW c, Neat(c), NEW i \in Nat
  PROVE  /\ Neat([c EXCEPT !.id = IF @ = 0 THEN i ELSE @])
         /\ [c EXCEPT !.id = IF @ = 0 THEN i ELSE @].memory = c.memory
<1> DEFINE d == [c EXCEPT !.id = IF @ = 0 THEN i ELSE @]
<1>1. d \in Content /\ d.memory = c.memory
  BY DEF Neat, Content
<1> HIDE DEF d
<1>2. Neat(d)
  BY <1>1 DEF Neat
<1> QED
  BY <1>1, <1>2 DEF d

(* Another list of entries makes another content of state.json.            *)
LEMMA ContentWithMemory ==
  ASSUME NEW c \in Content, NEW m \in Seq(Entries)
  PROVE  /\ [c EXCEPT !.memory = m] \in Content
         /\ [c EXCEPT !.memory = m].memory = m
         /\ [c EXCEPT !.memory = m].id = c.id
BY DEF Content

(* A worker's place, command, argument, copy and list of entries become    *)
(* others, and those of the other workers stay.                            *)
LEMMA WorkerStep ==
  ASSUME WorkersOK, NEW p \in Workers, NEW l, NEW o, NEW c, NEW d, NEW t,
         WorkerOK(l, o, c, d, t),
         pc' = [pc EXCEPT ![p] = l], op' = [op EXCEPT ![p] = o],
         cur' = [cur EXCEPT ![p] = c], draft' = [draft EXCEPT ![p] = d],
         todo' = [todo EXCEPT ![p] = t]
  PROVE  WorkersOK'
<1>1. /\ pc' = [q \in Workers |-> IF q = p THEN l ELSE pc[q]]
      /\ op' = [q \in Workers |-> IF q = p THEN o ELSE op[q]]
      /\ cur' = [q \in Workers |-> IF q = p THEN c ELSE cur[q]]
      /\ draft' = [q \in Workers |-> IF q = p THEN d ELSE draft[q]]
      /\ todo' = [q \in Workers |-> IF q = p THEN t ELSE todo[q]]
  BY DEF WorkersOK
<1>2. ASSUME NEW q \in Workers
      PROVE  WorkerOK(pc'[q], op'[q], cur'[q], draft'[q], todo'[q])
  <2>1. CASE q = p
    BY <1>1, <2>1
  <2>2. CASE q # p
    BY <1>1, <2>2 DEF WorkersOK
  <2> QED
    BY <2>1, <2>2
<1>3. /\ pc' = [q \in Workers |-> pc'[q]] /\ op' = [q \in Workers |-> op'[q]]
      /\ cur' = [q \in Workers |-> cur'[q]]
      /\ draft' = [q \in Workers |-> draft'[q]]
      /\ todo' = [q \in Workers |-> todo'[q]]
  BY <1>1
<1> QED
  BY <1>2, <1>3 DEF WorkersOK

(* What a worker does not change is what it was.                           *)
LEMMA Stays ==
  ASSUME WorkersOK, NEW p \in Workers
  PROVE  /\ pc = [pc EXCEPT ![p] = pc[p]] /\ op = [op EXCEPT ![p] = op[p]]
         /\ cur = [cur EXCEPT ![p] = cur[p]]
         /\ draft = [draft EXCEPT ![p] = draft[p]]
         /\ todo = [todo EXCEPT ![p] = todo[p]]
         /\ WorkerOK(pc[p], op[p], cur[p], draft[p], todo[p])
BY DEF WorkersOK

(* So it is with a step of the same command.                               *)
LEMMA PlaceStep ==
  ASSUME WorkersOK, NEW p \in Workers, NEW l, NEW d, NEW t,
         WorkerOK(l, op[p], cur[p], d, t),
         pc' = [pc EXCEPT ![p] = l], UNCHANGED <<op, cur>>,
         draft' = [draft EXCEPT ![p] = d], todo' = [todo EXCEPT ![p] = t]
  PROVE  WorkersOK'
<1>1. op' = [op EXCEPT ![p] = op[p]] /\ cur' = [cur EXCEPT ![p] = cur[p]]
  BY Stays
<1> QED
  BY <1>1, WorkerStep

(* Every step of a worker, the clock and the command line keeps the lists  *)
(* neat.                                                                   *)
LEMMA NeatInvStep == NeatInv /\ [Next]_vars => NeatInv'
<1> SUFFICES ASSUME NeatInv, [Next]_vars PROVE NeatInv'
  OBVIOUS
<1> DEFINE Filed ==
      Neat(file)' /\ Neat(cliCopy)' /\ ArchiveOK' /\ LocksOK'
<1>0. /\ Cap \in Nat \ {0} /\ WorkersOK /\ Neat(file) /\ Neat(cliCopy)
      /\ RowsOK /\ LifeOK /\ ArchiveOK /\ LocksOK /\ CountsOK
      /\ NoEntry \notin Entries /\ MaxUpsets \in Nat /\ Old \subseteq Entries
  BY MemoryAssumption DEF NeatInv
<1>a. ASSUME UNCHANGED <<disk, lock, cmdline, spoilt>> PROVE Filed
  BY <1>0, <1>a DEF disk, cmdline, ArchiveOK, LocksOK, Neat
<1>b. ASSUME UNCHANGED worker PROVE WorkersOK'
  BY <1>0, <1>b DEF worker, WorkersOK
<1>c. ASSUME UNCHANGED <<minted, shown, upsets>> PROVE CountsOK'
  BY <1>0, <1>c DEF CountsOK
<1>d. ASSUME UNCHANGED <<minted, shown>>, Upset PROVE CountsOK'
  BY <1>0, <1>d DEF CountsOK, Upset
<1>e. ASSUME UNCHANGED rows PROVE RowsOK'
  BY <1>0, <1>e DEF RowsOK
<1>f. ASSUME UNCHANGED life PROVE LifeOK'
  BY <1>0, <1>f DEF LifeOK
<1>g. ASSUME NEW p \in Workers, NEW d, Neat(d), Returns(p),
             draft' = [draft EXCEPT ![p] = d]
      PROVE  WorkersOK'
  <2>1. WorkerOK("idle", "none", NoEntry, d, {})
    BY <1>g DEF WorkerOK, Places, Ops, Neat
  <2> QED
    BY <1>0, <1>g, <2>1, WorkerStep DEF Returns, Goto
<1>1. ASSUME NEW p \in Workers, NEW o \in Ops, NEW e \in Entries \union {NoEntry},
             o = "add" => e \in Entries, Takes(p, o, e),
             NEW l \in {"load", "sync", "expire"}, Goto(p, l),
             NEW s \in SUBSET Entries, todo' = [todo EXCEPT ![p] = s],
             draft' = draft
      PROVE  WorkersOK'
  <2>1. WorkerOK(l, o, e, draft[p], s)
    <3>1. pc[p] = "idle" /\ WorkerOK(pc[p], op[p], cur[p], draft[p], todo[p])
      BY <1>0, <1>1, Stays DEF Takes
    <3> QED
      BY <1>1, <3>1 DEF WorkerOK, Places
  <2>2. draft' = [draft EXCEPT ![p] = draft[p]]
    BY <1>0, <1>1, Stays
  <2> QED
    BY <1>0, <1>1, <2>1, <2>2, WorkerStep DEF Takes, Goto
<1>2. ASSUME NEW p \in Workers, NEW e \in Entries, AddMemory(p, e)
      PROVE  NeatInv'
  <2>1. todo' = [todo EXCEPT ![p] = todo[p]] /\ todo[p] \in SUBSET Entries
    BY <1>0, <1>2, Stays DEF AddMemory, WorkerOK
  <2>2. WorkersOK'
    BY <1>1, <1>2, <2>1 DEF AddMemory, Ops
  <2>3. LifeOK'
    BY <1>0, <1>2 DEF AddMemory, LifeOK
  <2> QED
    BY <1>2, <1>a, <1>c, <1>e, <2>2, <2>3 DEF AddMemory, NeatInv
<1>3. ASSUME NEW p \in Workers, SearchMemory(p) PROVE NeatInv'
  <2>1. todo' = [todo EXCEPT ![p] = todo[p]] /\ todo[p] \in SUBSET Entries
    BY <1>0, <1>3, Stays DEF SearchMemory, WorkerOK
  <2>2. WorkersOK'
    BY <1>1, <1>3, <2>1 DEF SearchMemory, Ops
  <2> QED
    BY <1>3, <1>a, <1>c, <1>e, <1>f, <2>2 DEF SearchMemory, NeatInv, ghosts
<1>4. ASSUME NEW p \in Workers, NEW e \in Entries, DeleteMemory(p, e)
      PROVE  NeatInv'
  <2>1. todo' = [todo EXCEPT ![p] = todo[p]] /\ todo[p] \in SUBSET Entries
    BY <1>0, <1>4, Stays DEF DeleteMemory, WorkerOK
  <2>2. WorkersOK'
    BY <1>1, <1>4, <2>1 DEF DeleteMemory, Ops
  <2>3. RowsOK'
    BY <1>0, <1>4 DEF DeleteMemory, RowsOK
  <2> QED
    BY <1>4, <1>a, <1>d, <1>f, <2>2, <2>3 DEF DeleteMemory, NeatInv, ghosts
<1>5. ASSUME NEW p \in Workers, NEW e \in Entries, ImportMemory(p, e)
      PROVE  NeatInv'
  <2>1. WorkersOK'
    BY <1>1, <1>5 DEF ImportMemory, Ops
  <2>2. LifeOK'
    BY <1>0, <1>5 DEF ImportMemory, LifeOK
  <2> QED
    BY <1>5, <1>a, <1>c, <1>e, <2>1, <2>2 DEF ImportMemory, NeatInv
<1>6. ASSUME NEW p \in Workers, ApplyRetention(p) PROVE NeatInv'
  <2>1. {e \in Old : rows[e] # "none"} \in SUBSET Entries
    BY <1>0
  <2>2. WorkersOK'
    BY <1>1, <1>6, <2>1 DEF ApplyRetention, Ops
  <2> QED
    BY <1>6, <1>a, <1>d, <1>e, <1>f, <2>2 DEF ApplyRetention, NeatInv, ghosts
<1>7. ASSUME NEW e \in Entries, NEW v \in {"private", "public"},
             SetVisibility(e, v)
      PROVE  NeatInv'
  <2>1. RowsOK'
    BY <1>0, <1>7 DEF SetVisibility, RowsOK
  <2>2. CountsOK'
    BY <1>0, <1>7 DEF SetVisibility, CountsOK, Upset
  <2> QED
    BY <1>7, <1>a, <1>b, <1>f, <2>1, <2>2 DEF SetVisibility, NeatInv
<1>8. ASSUME NEW p \in Workers, LoadState(p) PROVE NeatInv'
  <2>0. pc[p] = "load" /\ WorkerOK(pc[p], op[p], cur[p], draft[p], todo[p])
    BY <1>0, <1>8, Stays DEF LoadState
  <2>1. CountsOK' /\ RowsOK' /\ LifeOK'
    BY <1>8, <1>c, <1>e, <1>f DEF LoadState, ghosts
  <2>2. Filed
    BY <1>0, <1>8
    DEF LoadState, disk, cmdline, ghosts, ArchiveOK, LocksOK, Neat
  <2>3. CASE torn
    <3>1. Returns(p) /\ draft' = [draft EXCEPT ![p] = draft[p]]
      BY <1>0, <1>8, <2>3, Stays DEF LoadState
    <3>2. Neat(draft[p])
      BY <2>0 DEF WorkerOK
    <3>3. WorkersOK'
      BY <1>g, <3>1, <3>2
    <3> QED
      BY <2>1, <2>2, <3>3 DEF NeatInv
  <2>4. CASE ~torn
    <3> DEFINE d == [file EXCEPT !.id = IF @ = 0 THEN minted + 1 ELSE @]
               l == IF file.id = 0 THEN "mint" ELSE "loaded"
    <3>1. Neat(d)
      BY <1>0, NeatWithId DEF CountsOK
    <3>2. draft' = [draft EXCEPT ![p] = d] /\ Goto(p, l)
          /\ UNCHANGED <<op, cur, todo>> /\ l \in {"mint", "loaded"}
      BY <1>8, <2>4 DEF LoadState
    <3> HIDE DEF d, l
    <3>3. WorkerOK(l, op[p], cur[p], d, todo[p])
      BY <2>0, <3>1, <3>2 DEF WorkerOK, Neat, Places
    <3>4. WorkersOK'
      <4>1. todo' = [todo EXCEPT ![p] = todo[p]]
        BY <1>0, <3>2, Stays
      <4> QED
        BY <1>0, <3>2, <3>3, <4>1, PlaceStep DEF Goto
    <3> QED
      BY <2>1, <2>2, <3>4 DEF NeatInv
  <2> QED
    BY <2>3, <2>4
<1>9. ASSUME NEW p \in Workers, MintIdentity(p) PROVE NeatInv'
  <2>0. pc[p] = "mint" /\ WorkerOK(pc[p], op[p], cur[p], draft[p], todo[p])
    BY <1>0, <1>9, Stays DEF MintIdentity
  <2>1. Neat(draft[p])
    BY <2>0 DEF WorkerOK
  <2>2. Filed
    BY <1>0, <1>9, <2>1 DEF MintIdentity, Replace, ArchiveOK, LocksOK, Neat
  <2>3. WorkerOK("loaded", op[p], cur[p], draft[p], todo[p])
    BY <2>0 DEF WorkerOK, Places
  <2>4. WorkersOK'
    <3>1. /\ todo' = [todo EXCEPT ![p] = todo[p]]
          /\ draft' = [draft EXCEPT ![p] = draft[p]]
          /\ pc' = [pc EXCEPT ![p] = "loaded"] /\ UNCHANGED <<op, cur>>
      BY <1>0, <1>9, Stays DEF MintIdentity, Goto
    <3> QED
      BY <1>0, <2>3, <3>1, PlaceStep
  <2>5. CountsOK'
    BY <1>0, <1>9 DEF MintIdentity, CountsOK
  <2> QED
    BY <1>9, <1>e, <1>f, <2>2, <2>4, <2>5 DEF MintIdentity, NeatInv
<1>10. ASSUME NEW p \in Workers, AppendMemory(p) PROVE NeatInv'
  <2> DEFINE all == Append(draft[p].memory, cur[p])
             over == Len(all) - Cap
             tail == SubSeq(all, over + 1, Len(all))
             head == SubSeq(all, 1, over)
             m == IF Len(all) > Cap THEN tail ELSE all
             d == [draft[p] EXCEPT !.memory = m]
  <2>0. /\ pc[p] = "loaded" /\ op[p] = "add"
        /\ WorkerOK(pc[p], op[p], cur[p], draft[p], todo[p])
    BY <1>0, <1>10, Stays DEF AppendMemory
  <2>1. Neat(draft[p]) /\ cur[p] \in Entries /\ draft[p].memory \in Seq(Entries)
    BY <2>0 DEF WorkerOK, Neat, Content
  <2>2. /\ all \in Seq(Entries) /\ Len(all) = Len(draft[p].memory) + 1
        /\ Len(draft[p].memory) \in Nat /\ Len(draft[p].memory) <= Cap
    BY <2>1 DEF Neat
  <2> HIDE DEF all
  <2>3. m \in Seq(Entries) /\ Len(m) <= Cap /\ Len(m) > 0
    <3>1. CASE Len(all) > Cap
      <4>1. over = 1 /\ Len(all) = Cap + 1
        BY <1>0, <2>2, <3>1
      <4>2. tail \in Seq(Entries) /\ Len(tail) = Cap
        BY <1>0, <2>2, <4>1
      <4> QED
        BY <1>0, <3>1, <4>2
    <3>2. CASE ~(Len(all) > Cap)
      BY <1>0, <2>2, <3>2
    <3> QED
      BY <3>1, <3>2
  <2>4. ToSet(head) \subseteq Entries
    <3>1. over \in Int /\ over <= Len(all)
      BY <1>0, <2>2
    <3>2. \A i \in 1..over : all[i] \in Entries
      BY <2>2, <3>1, ElementOfSeq
    <3>3. head \in Seq(Entries)
      BY <3>1, <3>2
    <3>4. \A i \in DOMAIN head : head[i] \in Entries
      BY <3>3
    <3> QED
      BY <3>4 DEF ToSet
  <2>5. /\ draft' = [draft EXCEPT ![p].memory = m]
        /\ newest' = newest \/ newest' = ToSet(head)
        /\ lost' = lost \/ lost' = lost \union newest
        /\ Goto(p, "save")
        /\ UNCHANGED <<file, torn, archive, lock, rows, op, cur, todo, cmdline,
                       ghosts, upsets>>
    BY <1>10 DEF AppendMemory, all
  <2>6. ArchiveOK'
    BY <1>0, <2>4, <2>5 DEF ArchiveOK
  <2> HIDE DEF m, head
  <2>7. draft' = [draft EXCEPT ![p] = d]
    BY <2>5
  <2>8. d \in Content /\ d.memory = m
    BY <2>1, <2>3, ContentWithMemory DEF Neat
  <2> HIDE DEF d
  <2>9. WorkerOK("save", op[p], cur[p], d, todo[p])
    BY <2>0, <2>3, <2>8 DEF WorkerOK, Places
  <2>10. WorkersOK'
    <3>1. /\ todo' = [todo EXCEPT ![p] = todo[p]]
          /\ pc' = [pc EXCEPT ![p] = "save"] /\ UNCHANGED <<op, cur>>
      BY <1>0, <2>5, Stays DEF Goto
    <3> QED
      BY <1>0, <2>7, <2>9, <3>1, PlaceStep
  <2>11. Neat(file)' /\ Neat(cliCopy)' /\ LocksOK'
    BY <1>0, <2>5 DEF cmdline, ghosts, LocksOK, Neat
  <2> QED
    BY <1>c, <1>e, <1>f, <2>5, <2>6, <2>10, <2>11 DEF ghosts, NeatInv
<1>11. ASSUME NEW p \in Workers, FilterMemory(p) PROVE NeatInv'
  <2>0. /\ pc[p] = "loaded" /\ op[p] = "forget"
        /\ WorkerOK(pc[p], op[p], cur[p], draft[p], todo[p])
    BY <1>0, <1>11, Stays DEF FilterMemory
  <2>1. WorkerOK("save", op[p], cur[p], draft[p], todo[p])
    BY <2>0 DEF WorkerOK, Neat, Places
  <2>2. WorkersOK'
    <3>1. /\ todo' = [todo EXCEPT ![p] = todo[p]]
          /\ draft' = [draft EXCEPT ![p] = draft[p]]
          /\ pc' = [pc EXCEPT ![p] = "save"] /\ UNCHANGED <<op, cur>>
      BY <1>0, <1>11, Stays DEF FilterMemory, Goto
    <3> QED
      BY <1>0, <2>1, <3>1, PlaceStep
  <2> QED
    BY <1>11, <1>a, <1>c, <1>e, <1>f, <2>2 DEF FilterMemory, NeatInv, ghosts
<1>12. ASSUME NEW p \in Workers, EndLoad(p) PROVE NeatInv'
  <2> DEFINE t == ToSet(draft[p].memory)
  <2>0. /\ pc[p] = "loaded" /\ op[p] = "search"
        /\ WorkerOK(pc[p], op[p], cur[p], draft[p], todo[p])
    BY <1>0, <1>12, Stays DEF EndLoad
  <2>1. t \subseteq Entries
    <3>1. draft[p].memory \in Seq(Entries)
      BY <2>0 DEF WorkerOK, Content
    <3>2. \A i \in DOMAIN draft[p].memory : draft[p].memory[i] \in Entries
      BY <3>1
    <3> QED
      BY <3>2 DEF ToSet
  <2>2. /\ todo' = [todo EXCEPT ![p] = t] /\ draft' = [draft EXCEPT ![p] = Blank]
        /\ Goto(p, "sync") /\ lock' = NoWorker
        /\ UNCHANGED <<disk, rows, op, cur, cmdline, ghosts, upsets>>
    BY <1>12 DEF EndLoad
  <2> HIDE DEF t
  <2>3. WorkerOK("sync", op[p], cur[p], Blank, t)
    BY <2>0, <2>1, BlankNeat DEF WorkerOK, Neat, Places
  <2>4. WorkersOK'
    BY <1>0, <2>2, <2>3, PlaceStep DEF Goto
  <2>5. Filed
    BY <1>0, <2>2 DEF disk, cmdline, ghosts, ArchiveOK, LocksOK, Neat
  <2> QED
    BY <1>c, <1>e, <1>f, <2>2, <2>4, <2>5 DEF NeatInv, ghosts
<1>13. ASSUME NEW p \in Workers, SaveState(p) PROVE NeatInv'
  <2> DEFINE memory == Normalize(draft[p].memory)
             content == [draft[p] EXCEPT !.memory = memory]
  <2>0. pc[p] = "save" /\ WorkerOK(pc[p], op[p], cur[p], draft[p], todo[p])
    BY <1>0, <1>13, Stays DEF SaveState
  <2>1. /\ draft[p] \in Content /\ draft[p].memory \in Seq(Entries)
        /\ Len(draft[p].memory) \in Nat /\ Len(draft[p].memory) <= Cap
    BY <2>0 DEF WorkerOK, Content
  <2>2. /\ memory \in Seq(Entries) /\ Len(memory) <= Len(draft[p].memory)
        /\ Len(draft[p].memory) > 0 => Len(memory) > 0
        /\ Distinct(memory)
    <3>1. 0 \in 0..Len(draft[p].memory) /\ \A i \in 1..0 : FALSE
      BY <2>1
    <3> HIDE DEF memory
    <3> QED
      BY <2>1, <3>1, NormalizeKeeps DEF memory
  <2>3. /\ file' = content /\ torn' = FALSE
        /\ cli' = (IF cli = "open" THEN "orphan" ELSE cli)
        /\ spoilt' = (spoilt \/ cli # "idle") /\ lock' = NoWorker
        /\ draft' = [draft EXCEPT ![p] = Blank]
        /\ UNCHANGED <<archive, newest, lost, rows, cliCopy, minted, shown,
                       upsets>>
    BY <1>13 DEF SaveState, Replace
  <2>4. /\ op[p] = "add" =>
             /\ todo' = [todo EXCEPT ![p] = {Last(memory)}]
             /\ Goto(p, "sync") /\ UNCHANGED <<op, cur>>
        /\ op[p] # "add" => Returns(p)
    BY <1>13 DEF SaveState
  <2>5. LifeOK'
    <3>1. \E x \in {"added", "new", "forgotten"} :
            life' = [life EXCEPT ![cur[p]] = x]
      BY <1>13 DEF SaveState
    <3> QED
      BY <1>0, <3>1 DEF LifeOK
  <2> HIDE DEF memory
  <2>6. content \in Content /\ content.memory = memory
    BY <2>1, <2>2, ContentWithMemory
  <2> HIDE DEF content
  <2>7. Neat(content)
    <3>1. Len(memory) \in Nat
      BY <2>2
    <3>2. Len(memory) <= Cap
      BY <1>0, <2>1, <2>2, <3>1
    <3> QED
      BY <2>2, <2>6, <3>2 DEF Neat
  <2>8. Filed
    <3>1. Neat(file)' /\ Neat(cliCopy)'
      BY <1>0, <2>3, <2>7 DEF Neat
    <3>2. ArchiveOK' /\ LocksOK'
      BY <1>0, <2>3 DEF ArchiveOK, LocksOK
    <3> QED
      BY <3>1, <3>2
  <2>9. WorkersOK'
    <3>1. CASE op[p] = "add"
      <4>1. Len(memory) \in Nat /\ Len(memory) > 0
        BY <2>0, <2>2, <3>1 DEF WorkerOK
      <4>2. {Last(memory)} \subseteq Entries
        <5>1. Len(memory) \in 1..Len(memory)
          BY <4>1
        <5>2. memory[Len(memory)] \in Entries
          BY <2>2, <5>1, ElementOfSeq
        <5> QED
          BY <5>2 DEF Last
      <4>3. WorkerOK("sync", op[p], cur[p], Blank, {Last(memory)})
        BY <2>0, <4>2, BlankNeat DEF WorkerOK, Neat, Places
      <4>4. op' = [op EXCEPT ![p] = op[p]] /\ cur' = [cur EXCEPT ![p] = cur[p]]
        BY <1>0, <2>4, <3>1, Stays
      <4> QED
        BY <1>0, <2>3, <2>4, <3>1, <4>3, <4>4, WorkerStep DEF Goto
    <3>2. CASE op[p] # "add"
      BY <1>g, <2>3, <2>4, <3>2, BlankNeat
    <3> QED
      BY <3>1, <3>2
  <2> QED
    BY <1>c, <1>e, <2>3, <2>5, <2>8, <2>9 DEF NeatInv
<1>14. ASSUME NEW p \in Workers, UpsertMemory(p) PROVE NeatInv'
  <2>0. pc[p] = "sync" /\ WorkerOK(pc[p], op[p], cur[p], draft[p], todo[p])
    BY <1>0, <1>14, Stays DEF UpsertMemory
  <2>1. WorkersOK' /\ RowsOK'
    <3>1. CASE UNCHANGED <<pc, op, cur>> /\ \E e \in todo[p] :
                 /\ rows' = [rows EXCEPT ![e] = Visibility(e)]
                 /\ todo' = [todo EXCEPT ![p] = @ \ {e}]
      <4>1. PICK e \in todo[p] :
              /\ rows' = [rows EXCEPT ![e] = Visibility(e)]
              /\ todo' = [todo EXCEPT ![p] = @ \ {e}]
        BY <3>1
      <4>2. RowsOK'
        BY <1>0, <4>1 DEF RowsOK, Visibility
      <4>3. WorkerOK(pc[p], op[p], cur[p], draft[p], todo[p] \ {e})
        BY <2>0 DEF WorkerOK
      <4>4. todo' = [todo EXCEPT ![p] = todo[p] \ {e}] /\ draft' = draft
        BY <1>14, <4>1 DEF UpsertMemory
      <4>5. /\ pc' = [pc EXCEPT ![p] = pc[p]] /\ op' = [op EXCEPT ![p] = op[p]]
            /\ cur' = [cur EXCEPT ![p] = cur[p]]
            /\ draft' = [draft EXCEPT ![p] = draft[p]]
        BY <1>0, <3>1, <4>4, Stays
      <4>6. WorkersOK'
        BY <1>0, <4>3, <4>4, <4>5, WorkerStep
      <4> QED
        BY <4>2, <4>6
    <3>2. CASE Returns(p) /\ UNCHANGED rows
      <4>1. draft' = [draft EXCEPT ![p] = draft[p]] /\ Neat(draft[p])
        BY <1>0, <1>14, <2>0, Stays DEF UpsertMemory, WorkerOK
      <4> QED
        BY <1>e, <1>g, <3>2, <4>1
    <3> QED
      BY <1>14, <3>1, <3>2 DEF UpsertMemory
  <2> QED
    BY <1>14, <1>a, <1>c, <1>f, <2>1 DEF UpsertMemory, NeatInv, ghosts
<1>15. ASSUME NEW p \in Workers, DeleteExpired(p) PROVE NeatInv'
  <2>0. pc[p] = "expire" /\ WorkerOK(pc[p], op[p], cur[p], draft[p], todo[p])
    BY <1>0, <1>15, Stays DEF DeleteExpired
  <2>1. draft' = [draft EXCEPT ![p] = draft[p]] /\ Neat(draft[p])
    BY <1>0, <1>15, <2>0, Stays DEF DeleteExpired, WorkerOK
  <2>2. WorkersOK'
    BY <1>15, <1>g, <2>1 DEF DeleteExpired
  <2>3. RowsOK'
    BY <1>0, <1>15 DEF DeleteExpired, RowsOK
  <2> QED
    BY <1>15, <1>a, <1>c, <1>f, <2>2, <2>3 DEF DeleteExpired, NeatInv, ghosts
<1>16. CASE NextSecond
  <2>1. /\ archive' = archive \union newest /\ newest' = {}
        /\ UNCHANGED <<file, torn, lost, lock, rows, worker, cmdline, ghosts,
                       upsets>>
    BY <1>16 DEF NextSecond
  <2>2. Filed
    BY <1>0, <2>1 DEF cmdline, ghosts, ArchiveOK, LocksOK, Neat
  <2> QED
    BY <1>b, <1>c, <1>e, <1>f, <2>1, <2>2 DEF NeatInv, ghosts
<1>17. ASSUME NEW p \in Workers, Crash(p) PROVE NeatInv'
  <2>1. WorkersOK'
    BY <1>17, <1>g, BlankNeat DEF Crash
  <2>2. Filed
    BY <1>0, <1>17 DEF Crash, disk, cmdline, ghosts, ArchiveOK, LocksOK, Neat
  <2> QED
    BY <1>17, <1>d, <1>e, <1>f, <2>1, <2>2 DEF Crash, NeatInv, ghosts
<1>18. CASE CliRead
  <2>1. Filed
    BY <1>0, <1>18 DEF CliRead, disk, ghosts, ArchiveOK, LocksOK, Neat
  <2> QED
    BY <1>18, <1>b, <1>d, <1>e, <1>f, <2>1 DEF CliRead, NeatInv, ghosts
<1>19. CASE CliOpen
  <2>1. Filed
    BY <1>0, <1>19 DEF CliOpen, ghosts, ArchiveOK, LocksOK, Neat
  <2> QED
    BY <1>19, <1>b, <1>c, <1>e, <1>f, <2>1 DEF CliOpen, NeatInv, ghosts
<1>20. CASE CliWrite
  <2>1. Neat(file)' /\ Neat(cliCopy)'
    BY <1>0, <1>20, BlankNeat DEF CliWrite, Neat
  <2>2. ArchiveOK' /\ LocksOK'
    BY <1>0, <1>20 DEF CliWrite, ArchiveOK, LocksOK
  <2> QED
    BY <1>20, <1>b, <1>c, <1>e, <1>f, <2>1, <2>2 DEF CliWrite, NeatInv
<1>21. CASE CliDies
  <2>1. Neat(file)' /\ Neat(cliCopy)'
    BY <1>0, <1>21, BlankNeat DEF CliDies, disk, Neat
  <2>2. ArchiveOK' /\ LocksOK'
    BY <1>0, <1>21 DEF CliDies, disk, ArchiveOK, LocksOK
  <2> QED
    BY <1>21, <1>b, <1>c, <1>e, <1>f, <2>1, <2>2 DEF CliDies, NeatInv
<1>22. CASE UNCHANGED vars
  BY <1>22, <1>a, <1>b, <1>c, <1>e, <1>f DEF vars, NeatInv, ghosts
<1> QED
  BY <1>2, <1>3, <1>4, <1>5, <1>6, <1>7, <1>8, <1>9, <1>10, <1>11, <1>12,
     <1>13, <1>14, <1>15, <1>16, <1>17, <1>18, <1>19, <1>20, <1>21, <1>22
  DEF Next, Command, LockedStep, IndexStep

(* No command, rewrite or crash leaves duplicates or more than the cap.    *)
LEMMA NeatAlways == Spec => []NeatInv
<1>1. Init => NeatInv
  <2> SUFFICES ASSUME Init PROVE NeatInv
    OBVIOUS
  <2>1. Neat(file) /\ Neat(cliCopy)
    BY BlankNeat DEF Init, Neat
  <2>2. WorkersOK
    <3>1. WorkerOK("idle", "none", NoEntry, Blank, {})
      BY BlankNeat DEF WorkerOK, Places, Ops, Neat
    <3> QED
      BY <3>1 DEF Init, WorkersOK
  <2>3. RowsOK /\ LifeOK /\ ArchiveOK /\ LocksOK
    BY DEF Init, RowsOK, LifeOK, ArchiveOK, LocksOK
  <2>4. CountsOK
    BY MemoryAssumption DEF Init, CountsOK
  <2> QED
    BY <2>1, <2>2, <2>3, <2>4 DEF NeatInv
<1> QED
  BY <1>1, NeatInvStep, PTL DEF Spec

(* The memory list of state.json never has two entries with the same text  *)
(* or more than the cap, whoever writes it; and the state is well typed.   *)
THEOREM TypeCorrect == Spec => []TypeOK
BY NeatAlways, NeatInvTypes, PTL

-----------------------------------------------------------------------------
(* Saved entries.                                                          *)

(* What is in archive files, or was in one that a later one replaced.      *)
Archived == archive \union newest \union lost

(* The first entries of list m, of which normalization keeps every one,    *)
(* have all of S.                                                          *)
Covers(m, S) ==
  \E k \in 0..Len(m) :
    /\ \A i, j \in 1..k : Text[m[i]] = Text[m[j]] => i = j
    /\ \A e \in S : \E i \in 1..k : m[i] = e

(* Until a rewrite of the command line gets in the way, its copy and those *)
(* of the workers are the file's list, and what a worker is about to save  *)
(* covers it.                                                              *)
CoverInv ==
  /\ \A e \in Entries : life[e] = "added" => e \in Kept \union Archived
  /\ cli \in {"idle", "read", "open"}
  /\ cli \in {"read", "open"} => cliCopy.memory = file.memory
  /\ \A p \in Workers :
       /\ pc[p] \in {"mint", "loaded"} => draft[p].memory = file.memory
       /\ pc[p] = "save" => Covers(draft[p].memory, Kept \ Archived)

(* A worker takes a step that leaves the file's list, and archives nothing *)
(* less.                                                                   *)
LEMMA WorkerCovers ==
  ASSUME NeatInv, CoverInv, NEW p \in Workers, NEW l, NEW d,
         pc' = [pc EXCEPT ![p] = l], draft' = [draft EXCEPT ![p] = d],
         file'.memory = file.memory, Archived \subseteq Archived',
         l \in {"mint", "loaded"} => d.memory = file.memory,
         l = "save" => Covers(d.memory, Kept \ Archived')
  PROVE  \A q \in Workers :
           /\ pc'[q] \in {"mint", "loaded"} => draft'[q].memory = file'.memory
           /\ pc'[q] = "save" => Covers(draft'[q].memory, Kept' \ Archived')
<1>1. Kept' = Kept
  BY DEF Kept
<1>2. /\ pc'[p] = l /\ draft'[p] = d
      /\ \A q \in Workers \ {p} : pc'[q] = pc[q] /\ draft'[q] = draft[q]
  <2>1. /\ pc' = [q \in Workers |-> IF q = p THEN l ELSE pc[q]]
        /\ draft' = [q \in Workers |-> IF q = p THEN d ELSE draft[q]]
    BY DEF NeatInv, WorkersOK
  <2> QED
    BY <2>1
<1>3. ASSUME NEW q \in Workers \ {p}, pc[q] = "save"
      PROVE  Covers(draft[q].memory, Kept \ Archived')
  <2>1. Covers(draft[q].memory, Kept \ Archived)
    BY <1>3 DEF CoverInv
  <2> QED
    BY <2>1 DEF Covers
<1> QED
  BY <1>1, <1>2, <1>3 DEF CoverInv

(* The list with an entry appended covers the file's list, also when what  *)
(* is over the cap went to the archive.                                    *)
LEMMA AppendCovers ==
  ASSUME NEW memory \in Seq(Entries), Distinct(memory), Len(memory) <= Cap,
         NEW e \in Entries, NEW m, NEW A,
         LET all == Append(memory, e)
             over == Len(all) - Cap
         IN \/ Len(all) <= Cap /\ m = all
            \/ /\ Len(all) > Cap /\ m = SubSeq(all, over + 1, Len(all))
               /\ ToSet(SubSeq(all, 1, over)) \subseteq A
  PROVE  Covers(m, ToSet(memory) \ A)
<1> DEFINE all == Append(memory, e)
           n == Len(memory)
<1>0. Cap \in Nat \ {0} /\ n \in Nat /\ n <= Cap /\ DOMAIN memory = 1..n
  BY MemoryAssumption
<1>1. all \in Seq(Entries) /\ Len(all) = n + 1
      /\ \A i \in 1..n : all[i] = memory[i]
  BY AppendProperties
<1>2. CASE n + 1 <= Cap
  <2>1. m = all
    BY <1>0, <1>1, <1>2
  <2> HIDE DEF all
  <2>2. n \in 0..Len(m) /\ \A i \in 1..n : m[i] = memory[i]
    BY <1>0, <1>1, <2>1
  <2>3. \A i, j \in 1..n : Text[m[i]] = Text[m[j]] => i = j
    BY <2>2 DEF Distinct
  <2>4. \A x \in ToSet(memory) : \E i \in 1..n : m[i] = x
    BY <1>0, <2>2 DEF ToSet
  <2> QED
    BY <2>2, <2>3, <2>4 DEF Covers
<1>3. CASE n = Cap
  <2>1. Len(all) - Cap = 1 /\ Len(all) > Cap
    BY <1>0, <1>1, <1>3
  <2>2. m = SubSeq(all, 2, n + 1) /\ ToSet(SubSeq(all, 1, 1)) \subseteq A
    <3> HIDE DEF all
    <3>1. /\ m = SubSeq(all, 1 + 1, Len(all))
          /\ ToSet(SubSeq(all, 1, 1)) \subseteq A
      BY <1>0, <1>1, <2>1 DEF all
    <3> QED
      BY <1>1, <3>1
  <2> HIDE DEF all
  <2>3. /\ m \in Seq(Entries) /\ Len(m) = n
        /\ \A i \in 1..n : m[i] = all[i + 1]
    <3>1. 2 \in 1..(Len(all) + 1) /\ n + 1 \in 2..Len(all)
      BY <1>0, <1>1, <1>3
    <3>2. \A i \in 2..(n + 1) : all[i] \in Entries
      BY <1>0, <1>1, ElementOfSeq
    <3> DEFINE u == SubSeq(all, 2, n + 1)
    <3>3. /\ u \in Seq(Entries)
          /\ Len(u) = IF 2 <= n + 1 THEN (n + 1) - 2 + 1 ELSE 0
          /\ \A i \in 1..((n + 1) - 2 + 1) : u[i] = all[2 + i - 1]
      BY <1>0, <3>2, SubSeqProperties
    <3> HIDE DEF u
    <3>4. Len(u) = n /\ \A i \in 1..n : u[i] = all[i + 1]
      <4>1. (n + 1) - 2 + 1 = n /\ \A i \in 1..n : 2 + i - 1 = i + 1
        BY <1>0
      <4> QED
        BY <1>0, <3>1, <3>3, <4>1
    <3> QED
      BY <2>2, <3>3, <3>4 DEF u
  <2>4. memory[1] \in A
    <3> DEFINE h == SubSeq(all, 1, 1)
    <3>1. Len(h) = 1 /\ h[1] = all[1] /\ h \in Seq(Entries)
      <4>1. 1 \in 1..(Len(all) + 1) /\ 1 \in 0..Len(all)
        BY <1>0, <1>1
      <4> QED
        BY <1>0, <1>1, <4>1, SubSeqProperties
    <3>2. 1 \in DOMAIN h
      BY <3>1
    <3>3. h[1] \in ToSet(h)
      BY <3>2 DEF ToSet
    <3> HIDE DEF h
    <3>4. all[1] = memory[1]
      BY <1>0, <1>1, <1>3
    <3> QED
      BY <2>2, <3>1, <3>3, <3>4 DEF h
  <2> DEFINE k == n - 1
  <2>5. k \in 0..Len(m) /\ \A i \in 1..k : i + 1 \in 1..n /\ m[i] = memory[i + 1]
    BY <1>0, <1>1, <1>3, <2>3
  <2>6. ASSUME NEW i \in 1..k, NEW j \in 1..k, Text[m[i]] = Text[m[j]]
        PROVE  i = j
    <3>1. i + 1 \in 1..n /\ j + 1 \in 1..n
          /\ Text[memory[i + 1]] = Text[memory[j + 1]]
      BY <2>5, <2>6
    <3>2. i + 1 = j + 1
      BY <3>1 DEF Distinct
    <3> QED
      BY <3>2
  <2>7. ASSUME NEW x \in ToSet(memory) \ A PROVE \E i \in 1..k : m[i] = x
    <3>1. PICK i \in 1..n : memory[i] = x
      BY <1>0 DEF ToSet
    <3>2. i # 1
      BY <2>4, <3>1
    <3>3. i - 1 \in 1..k /\ (i - 1) + 1 = i
      BY <1>0, <3>1, <3>2
    <3>4. m[i - 1] = x
      BY <2>5, <3>1, <3>3
    <3> QED
      BY <3>3, <3>4
  <2>8. \A i, j \in 1..k : Text[m[i]] = Text[m[j]] => i = j
    BY <2>6
  <2>9. \A x \in ToSet(memory) \ A : \E i \in 1..k : m[i] = x
    BY <2>7
  <2> HIDE DEF k
  <2> QED
    BY <2>5, <2>8, <2>9 DEF Covers
<1>4. n + 1 <= Cap \/ n = Cap
  <2> HIDE DEF n
  <2> QED
    BY <1>0
<1> QED
  BY <1>2, <1>3, <1>4

(* What a list covers, normalization keeps.                                *)
LEMMA NormalizeCovers ==
  ASSUME NEW m \in Seq(Entries), NEW S, Covers(m, S)
  PROVE  S \subseteq ToSet(Normalize(m)) /\ Normalize(m) \in Seq(Entries)
<1>1. PICK k \in 0..Len(m) :
        /\ \A i, j \in 1..k : Text[m[i]] = Text[m[j]] => i = j
        /\ \A e \in S : \E i \in 1..k : m[i] = e
  BY DEF Covers
<1> DEFINE u == Normalize(m)
<1>2. u \in Seq(Entries) /\ \A i \in 1..k : \E j \in 1..Len(u) : u[j] = m[i]
  <2> HIDE DEF u
  <2> QED
    BY <1>1, NormalizeKeeps DEF u
<1> HIDE DEF u
<1>3. ASSUME NEW e \in S PROVE e \in ToSet(u)
  <2>1. PICK i \in 1..k : m[i] = e
    BY <1>1
  <2>2. PICK j \in 1..Len(u) : u[j] = e
    BY <1>2, <2>1
  <2>3. j \in DOMAIN u
    BY <1>2
  <2> QED
    BY <2>2, <2>3 DEF ToSet
<1> QED
  BY <1>2, <1>3 DEF u

(* As long as the command line does not get in the way, every step keeps   *)
(* what is saved in the file or the archives.                              *)
LEMMA CoverInvStep ==
  ASSUME ShapeInv, LockInv, NeatInv, NeatInv', CoverInv, [Next]_vars, ~spoilt'
  PROVE  CoverInv'
<1>0. ~spoilt /\ WorkersOK /\ Neat(file) /\ file.memory \in Seq(Entries)
  BY SpoiltStays DEF NeatInv, Neat, Content
(* A worker's step that leaves file, archives and command line alone.      *)
<1>a. ASSUME NEW p \in Workers, NEW l, NEW d, UNCHANGED <<disk, cmdline>>,
             pc' = [pc EXCEPT ![p] = l], draft' = [draft EXCEPT ![p] = d],
             \A e \in Entries : life'[e] = "added" => life[e] = "added",
             l \in {"mint", "loaded"} => d.memory = file.memory,
             l = "save" => Covers(d.memory, Kept \ Archived)
      PROVE  CoverInv'
  <2>1. /\ file' = file /\ Archived' = Archived /\ Kept' = Kept
        /\ cli' = cli /\ cliCopy' = cliCopy
    BY <1>a DEF disk, cmdline, Archived, Kept
  <2>2. \A q \in Workers :
          /\ pc'[q] \in {"mint", "loaded"} => draft'[q].memory = file'.memory
          /\ pc'[q] = "save" => Covers(draft'[q].memory, Kept' \ Archived')
    BY <1>a, <2>1, WorkerCovers
  <2> QED
    BY <1>a, <2>1, <2>2 DEF CoverInv
(* A step of the surroundings that leaves the workers and the list alone.  *)
<1>b. ASSUME UNCHANGED <<pc, draft, life>>, file'.memory = file.memory,
             Archived' = Archived, cli' \in {"idle", "read", "open"},
             cli' \in {"read", "open"} => cliCopy'.memory = file.memory
      PROVE  CoverInv'
  <2>1. Kept' = Kept
    BY <1>b DEF Kept
  <2> QED
    BY <1>b, <2>1 DEF CoverInv
<1>1. ASSUME NEW p \in Workers, Command(p) \/ IndexStep(p) PROVE CoverInv'
  <2>1. OutsideStep(p)
    BY <1>1, CommandEffect
  <2>2. UNCHANGED <<disk, cmdline>>
    BY <1>1 DEF Command, IndexStep, SearchMemory, ApplyRetention, AddMemory,
                DeleteMemory, ImportMemory, UpsertMemory, DeleteExpired
  <2>3. \A e \in Entries : life'[e] = "added" => life[e] = "added"
    <3>1. CASE \E e \in Entries : AddMemory(p, e) \/ ImportMemory(p, e)
      BY <3>1 DEF AddMemory, ImportMemory, NeatInv, LifeOK
    <3>2. CASE ~ \E e \in Entries : AddMemory(p, e) \/ ImportMemory(p, e)
      <4>1. life' = life
        BY <1>1, <3>2 DEF Command, IndexStep, SearchMemory, ApplyRetention,
                          DeleteMemory, UpsertMemory, DeleteExpired, ghosts
      <4> QED
        BY <4>1
    <3> QED
      BY <3>1, <3>2
  <2>4. /\ pc' = [pc EXCEPT ![p] = pc'[p]]
        /\ pc'[p] \notin {"mint", "loaded", "save"}
        /\ draft' = [draft EXCEPT ![p] = draft[p]]
    BY <1>0, <2>1, Stays DEF OutsideStep, Inside, Quiet
  <2> QED
    BY <1>a, <2>2, <2>3, <2>4
<1>2. ASSUME NEW p \in Workers, LoadState(p) PROVE CoverInv'
  <2>1. UNCHANGED <<disk, cmdline, life>>
    BY <1>2 DEF LoadState, ghosts
  <2>2. CASE torn
    <3>1. /\ draft' = [draft EXCEPT ![p] = draft[p]]
          /\ pc' = [pc EXCEPT ![p] = "idle"]
      BY <1>0, <1>2, <2>2, Stays DEF LoadState, Returns, Goto
    <3> QED
      BY <1>a, <2>1, <3>1
  <2>3. CASE ~torn
    <3> DEFINE d == [file EXCEPT !.id = IF @ = 0 THEN minted + 1 ELSE @]
               l == IF file.id = 0 THEN "mint" ELSE "loaded"
    <3>1. d.memory = file.memory
      BY <1>0, NeatWithId DEF NeatInv, CountsOK
    <3>2. draft' = [draft EXCEPT ![p] = d] /\ pc' = [pc EXCEPT ![p] = l]
          /\ l # "save"
      BY <1>2, <2>3 DEF LoadState, Goto
    <3> HIDE DEF d, l
    <3> QED
      BY <1>a, <2>1, <3>1, <3>2
  <2> QED
    BY <2>2, <2>3
<1>3. ASSUME NEW p \in Workers, MintIdentity(p) PROVE CoverInv'
  <2>1. /\ pc[p] = "mint" /\ pc' = [pc EXCEPT ![p] = "loaded"]
        /\ file' = draft[p] /\ draft' = [draft EXCEPT ![p] = draft[p]]
        /\ UNCHANGED <<archive, newest, lost, life>>
    BY <1>0, <1>3, Stays DEF MintIdentity, Replace, Goto
  <2>2. draft[p].memory = file.memory /\ cli' = "idle"
    BY <1>3, <2>1 DEF CoverInv, MintIdentity, Replace
  <2>3. Archived' = Archived /\ Kept' = Kept /\ file'.memory = file.memory
    BY <2>1, <2>2 DEF Archived, Kept
  <2>4. \A q \in Workers :
          /\ pc'[q] \in {"mint", "loaded"} => draft'[q].memory = file'.memory
          /\ pc'[q] = "save" => Covers(draft'[q].memory, Kept' \ Archived')
    BY <2>1, <2>2, <2>3, WorkerCovers
  <2> QED
    BY <2>1, <2>2, <2>3, <2>4 DEF CoverInv
<1>4. ASSUME NEW p \in Workers, AppendMemory(p) PROVE CoverInv'
  <2> DEFINE all == Append(draft[p].memory, cur[p])
             over == Len(all) - Cap
             m == IF Len(all) > Cap THEN SubSeq(all, over + 1, Len(all))
                                    ELSE all
             d == [draft[p] EXCEPT !.memory = m]
  <2>0. /\ pc[p] = "loaded" /\ draft[p].memory = file.memory
        /\ cur[p] \in Entries /\ IsContent(draft[p])
    BY <1>0, <1>4, Stays DEF AppendMemory, CoverInv, WorkerOK, ShapeInv
  <2>1. /\ draft' = [draft EXCEPT ![p].memory = m]
        /\ pc' = [pc EXCEPT ![p] = "save"]
        /\ Len(all) > Cap => /\ newest' = ToSet(SubSeq(all, 1, over))
                             /\ lost' = lost \union newest
        /\ ~(Len(all) > Cap) => UNCHANGED <<newest, lost>>
        /\ UNCHANGED <<file, archive, cli, cliCopy, life>>
    BY <1>4 DEF AppendMemory, Goto, cmdline, ghosts
  <2>2. Covers(m, ToSet(file.memory) \ Archived')
    <3>1. LET x == Append(file.memory, cur[p])
              y == Len(x) - Cap
          IN \/ Len(x) <= Cap /\ m = x
             \/ /\ Len(x) > Cap /\ m = SubSeq(x, y + 1, Len(x))
                /\ ToSet(SubSeq(x, 1, y)) \subseteq Archived'
      <4>1. CASE Len(all) > Cap
        BY <2>0, <2>1, <4>1 DEF Archived
      <4>2. CASE ~(Len(all) > Cap)
        <5>1. Len(all) <= Cap
          <6>1. all \in Seq(Entries) /\ Len(all) \in Nat
            BY <1>0, <2>0
          <6> HIDE DEF all
          <6> QED
            BY <4>2, <6>1, MemoryAssumption
        <5> QED
          BY <2>0, <4>2, <5>1
      <4> QED
        BY <4>1, <4>2
    <3>2. Distinct(file.memory) /\ Len(file.memory) <= Cap
      BY <1>0 DEF Neat
    <3> HIDE DEF m
    <3> QED
      BY <1>0, <2>0, <3>1, <3>2, AppendCovers
  <2>3. Archived \subseteq Archived'
    BY <2>1 DEF Archived
  <2> HIDE DEF m
  <2>4. draft' = [draft EXCEPT ![p] = d] /\ d.memory = m
    BY <2>0, <2>1, WithMemory DEF IsContent, ShapeInv
  <2> HIDE DEF d
  <2>5. Covers(d.memory, Kept \ Archived')
    BY <2>2, <2>4 DEF Kept
  <2>6. file'.memory = file.memory /\ Kept' = Kept
    BY <2>1 DEF Kept
  <2>7. \A q \in Workers :
          /\ pc'[q] \in {"mint", "loaded"} => draft'[q].memory = file'.memory
          /\ pc'[q] = "save" => Covers(draft'[q].memory, Kept' \ Archived')
    BY <2>1, <2>3, <2>4, <2>5, <2>6, WorkerCovers
  <2> QED
    BY <2>1, <2>3, <2>6, <2>7 DEF CoverInv
<1>5. ASSUME NEW p \in Workers, FilterMemory(p) PROVE CoverInv'
  <2>1. /\ pc[p] = "loaded" /\ draft[p].memory = file.memory
        /\ pc' = [pc EXCEPT ![p] = "save"]
        /\ draft' = [draft EXCEPT ![p] = draft[p]]
        /\ UNCHANGED <<disk, cmdline, life>>
    BY <1>0, <1>5, Stays DEF FilterMemory, Goto, CoverInv, ghosts
  <2>2. Covers(file.memory, Kept \ Archived)
    <3>1. Len(file.memory) \in 0..Len(file.memory)
          /\ DOMAIN file.memory = 1..Len(file.memory)
      BY <1>0
    <3> QED
      BY <1>0, <3>1 DEF Covers, Neat, Distinct, Kept, ToSet
  <2> QED
    BY <1>a, <2>1, <2>2
<1>6. ASSUME NEW p \in Workers, EndLoad(p) PROVE CoverInv'
  BY <1>6, <1>a DEF EndLoad, Goto, ghosts
<1>7. ASSUME NEW p \in Workers, SaveState(p) PROVE CoverInv'
  <2> DEFINE m == draft[p].memory
             memory == Normalize(m)
  <2>1. /\ pc[p] = "save" /\ file' = [draft[p] EXCEPT !.memory = memory]
        /\ cli' = "idle" /\ UNCHANGED <<archive, newest, lost>>
        /\ \E l \in {"sync", "idle"} : pc' = [pc EXCEPT ![p] = l]
    BY <1>7 DEF SaveState, Replace, Goto, Returns, CoverInv
  <2>2. life' = [life EXCEPT ![cur[p]] =
                   IF op[p] = "add"
                   THEN IF cur[p] \in ToSet(memory) THEN "added" ELSE "new"
                   ELSE "forgotten"]
    BY <1>7 DEF SaveState
  <2>3. IsContent(draft[p]) /\ m \in Seq(Entries)
        /\ Covers(m, Kept \ Archived)
    BY <1>0, <2>1, Stays DEF ShapeInv, WorkerOK, Content, CoverInv
  <2>4. Kept \ Archived \subseteq ToSet(memory)
    <3> HIDE DEF m, memory
    <3> QED
      BY <2>3, NormalizeCovers DEF memory
  <2> HIDE DEF m, memory
  <2>5. file'.memory = memory
    BY <2>1, <2>3, WithMemory
  <2>6. Kept' = ToSet(memory) /\ Archived' = Archived
    BY <2>1, <2>5 DEF Kept, Archived
  <2>7. ASSUME NEW e \in Entries, life'[e] = "added"
        PROVE  e \in Kept' \union Archived'
    <3>1. e \in ToSet(memory) \/ life[e] = "added"
      BY <2>2, <2>7 DEF NeatInv, LifeOK
    <3> QED
      BY <2>4, <2>6, <3>1 DEF CoverInv
  <2>8. ASSUME NEW q \in Workers
        PROVE  pc'[q] \notin {"mint", "loaded", "save"}
    <3>1. q # p => pc[q] \notin {"mint", "loaded", "save"}
      BY <2>1 DEF LockInv, Inside
    <3> QED
      BY <2>1, <3>1 DEF ShapeInv
  <2> QED
    BY <2>1, <2>7, <2>8 DEF CoverInv
<1>8. ASSUME NEW p \in Workers, Crash(p) PROVE CoverInv'
  BY <1>8, <1>a DEF Crash, Returns, Goto, ghosts
<1>9. CASE NextSecond \/ \E e \in Entries, v \in {"private", "public"} :
                           SetVisibility(e, v)
  <2>1. UNCHANGED <<pc, draft, life, file, cli, cliCopy>>
    BY <1>9 DEF NextSecond, SetVisibility, disk, worker, cmdline, ghosts
  <2>2. Archived' = Archived
    BY <1>9 DEF NextSecond, SetVisibility, disk, Archived
  <2> QED
    BY <1>b, <2>1, <2>2 DEF CoverInv
<1>10. CASE CliRead \/ CliOpen \/ CliWrite \/ CliDies
  <2>1. UNCHANGED <<pc, draft, life, archive, newest, lost>>
    BY <1>10 DEF CliRead, CliOpen, CliWrite, CliDies, disk, worker, ghosts
  <2>2. file'.memory = file.memory
    BY <1>10 DEF CliRead, CliOpen, CliWrite, CliDies, disk, CoverInv
  <2>3. cli' \in {"idle", "read", "open"}
        /\ (cli' \in {"read", "open"} => cliCopy'.memory = file.memory)
    BY <1>10 DEF CliRead, CliOpen, CliWrite, CliDies, CoverInv
  <2>4. Archived' = Archived
    BY <2>1 DEF Archived
  <2> QED
    BY <1>b, <2>1, <2>2, <2>3, <2>4
<1>11. CASE UNCHANGED vars
  <2>1. UNCHANGED <<pc, draft, life, file, cli, cliCopy>> /\ Archived' = Archived
    BY <1>11 DEF vars, disk, worker, cmdline, ghosts, Archived
  <2> QED
    BY <1>b, <2>1 DEF CoverInv
<1> QED
  BY <1>1, <1>2, <1>3, <1>4, <1>5, <1>6, <1>7, <1>8, <1>9, <1>10, <1>11
  DEF Next, LockedStep

(* A saved entry stays in the file or in an archive, for any number of     *)
(* workers, entries, overflows and kills; a rewrite of the unlocked        *)
(* command line and an archive file replaced within the second excepted.   *)
THEOREM NothingIsLostAlways == Spec => []NothingIsLost
<1>1. Init => spoilt \/ CoverInv
  BY DEF Init, CoverInv
<1>2. ShapeInv /\ LockInv /\ NeatInv /\ NeatInv' /\ [Next]_vars
        /\ (spoilt \/ CoverInv) => (spoilt \/ CoverInv)'
  <2>1. [Next]_vars /\ spoilt => spoilt'
    BY SpoiltStays
  <2>2. ASSUME ShapeInv, LockInv, NeatInv, NeatInv', CoverInv, [Next]_vars,
               ~spoilt'
        PROVE  CoverInv'
    BY <2>2, CoverInvStep
  <2> QED
    BY <2>1, <2>2
<1>3. spoilt \/ CoverInv => NothingIsLost
  BY DEF CoverInv, NothingIsLost, Safe, Archived
<1> QED
  BY <1>1, <1>2, <1>3, LockAlways, NeatAlways, PTL DEF Spec

=============================================================================
