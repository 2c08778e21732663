-------------------------- MODULE AppManagerProofs --------------------------
(* Theorems about AppManager, for every value of its constants.            *)
EXTENDS AppManager, FiniteSetTheorems, WellFoundedInduction, TLAPS

USE NamesAssumption, ProcsAssumption, SizesAssumption, RestartAssumption,
    PreloadsAssumption

-----------------------------------------------------------------------------
(* Searching the registry.                                                 *)

LessThan == {p \in Nat \X Nat : p[1] < p[2]}

\* The order on the naturals is well founded, stated without an operator
\* parameter so that a minimal element can be picked from a set.
LEMMA LessThanWellFounded == IsWellFoundedOn(LessThan, Nat)
BY NatLessThanWellFounded DEF LessThan, OpToRel

\* A search that finds anything returns the lowest slot it could return.
LEMMA LowestIsLeast ==
  ASSUME NEW S \in SUBSET Slots, S # {}
  PROVE  Lowest(S) \in S /\ \A u \in S : Lowest(S) <= u
<1>1. S \subseteq Nat /\ Slots \subseteq Nat
  BY DEF Slots
<1>2. PICK x \in S : \A y \in S : ~(<<y, x>> \in LessThan)
  BY <1>1, LessThanWellFounded, WFMin
<1>3. ASSUME NEW y \in S PROVE x <= y
  <2>1. <<y, x>> \in Nat \X Nat /\ <<y, x>> \notin LessThan
    BY <1>1, <1>2
  <2>2. ~(y < x)
    BY <2>1 DEF LessThan
  <2> QED
    BY <1>1, <2>2
<1> QED
  BY <1>3 DEF Lowest

\* find_app_by_name returns an entry with that name.
LEMMA FindAppFinds ==
  ASSUME NEW r, NEW n, SlotsOf(r, n) # {}
  PROVE  FindApp(r, n) \in Slots /\ r[FindApp(r, n)].name = n
BY LowestIsLeast DEF FindApp, SlotsOf

\* find_free_slot returns a slot without a name.
LEMMA FreeSlotIsFree ==
  ASSUME NEW r, Named(r) # Slots
  PROVE  FreeSlot(r) \in Slots \ Named(r)
BY LowestIsLeast DEF FreeSlot, Named

\* The registry has MaxInstalled slots.
LEMMA SlotsFinite == IsFiniteSet(Slots) /\ Cardinality(Slots) = MaxInstalled
BY FS_Interval DEF Slots

\* The installed apps can be counted, and there are at most MaxInstalled.
LEMMA NamedFinite ==
  ASSUME NEW r
  PROVE  IsFiniteSet(Named(r)) /\ Cardinality(Named(r)) \in 0 .. MaxInstalled
<1>1. Named(r) \in SUBSET Slots
  BY DEF Named
<1> QED
  BY <1>1, SlotsFinite, FS_Subset, FS_CardinalityType

-----------------------------------------------------------------------------
(* Types.                                                                  *)

Registries == [Slots -> Entry]
RegistryFiles == [count : Int, num : 0 .. MaxInstalled, entries : Registries]
ContainerTables == [ContainerIds -> Container]

\* What a registry entry consists of.  Only this proof and the next two open
\* Entry, whose eight-field record type is slow to reason about in place.
LEMMA EntryFields ==
  ASSUME NEW e \in Entry
  PROVE  /\ e.id \in 0 .. MaxInstalled
         /\ e.name \in Names \cup {NoName}
         /\ e.state \in States
         /\ e.cid \in -1 .. MaxContainers - 1
         /\ e.crash \in Nat
         /\ e.auto \in BOOLEAN /\ e.max \in Nat /\ e.preloaded \in BOOLEAN
BY DEF Entry

\* A cleared slot (memset to zero) is an entry.
LEMMA EmptyEntryType == EmptyEntry \in Entry

BY DEF EmptyEntry, Entry, States

\* The single-field updates of the code leave an entry well typed.
LEMMA EntryUpdates ==
  ASSUME NEW e \in Entry, NEW x \in States, NEW c \in -1 .. MaxContainers - 1,
         NEW k \in Nat
  PROVE  /\ [e EXCEPT !.cid = c, !.state = x] \in Entry
         /\ [e EXCEPT !.state = x] \in Entry
         /\ [e EXCEPT !.cid = c] \in Entry
         /\ [e EXCEPT !.crash = k] \in Entry
         /\ [e EXCEPT !.crash = k, !.state = x] \in Entry
         /\ [e EXCEPT !.state = x, !.crash = k] \in Entry
         /\ [e EXCEPT !.name = NoName] \in Entry
BY DEF Entry

\* A stop, a destroy or both leave a well-typed container table.
LEMMA ContainerTypes ==
  ASSUME NEW c \in ContainerTables, NEW k \in ContainerIds
  PROVE  /\ StopOutcomes(c, k) \subseteq ContainerTables
         /\ DestroyOutcomes(c, k) \subseteq ContainerTables
         /\ StopAndDestroy(c, k) \subseteq ContainerTables
<1>1. ASSUME NEW d \in ContainerTables
      PROVE  /\ StopOutcomes(d, k) \subseteq ContainerTables
             /\ DestroyOutcomes(d, k) \subseteq ContainerTables
  BY DEF StopOutcomes, DestroyOutcomes, ContainerTables, Container, Statuses,
         FreeContainer
<1> QED
  BY <1>1 DEF StopAndDestroy

\* What a caller may have left to do is of the type of todo.
LEMMA TodoTypes ==
  /\ Idle \in Todo
  /\ \A n \in Names : MustStart(n) \in Todo
  /\ \A s \in Slots : MustFail(s) \in Todo
BY DEF Todo

\* What kind of work is left determines its slot and name.
LEMMA TodoFields ==
  ASSUME NEW d \in Todo
  PROVE  /\ d.op = "error" => d.slot \in Slots
         /\ d.op = "start" => d.name \in Names
BY DEF Todo, Idle, MustStart, MustFail

-----------------------------------------------------------------------------
(* The invariant that gives TypeOK, BinaryPresent and ErrorHasRetryLeft.   *)
(* TypeOK is not inductive alone: that the name of a saved binary carries  *)
(* a valid id depends on the id in the entry of every installed app, and   *)
(* that on the id in the registry file.                                    *)

EntryOK(e, F) ==
  /\ e \in Entry
  /\ RetryLeft(e)
  /\ e.name # NoName => BinaryOf(e) \in F
RegistryOK(r, F) == r \in Registries /\ \A s \in Slots : EntryOK(r[s], F)

\* What an app's binary must be among: on disk, or refused by it.  No call
\* removes anything from this set.
Kept == files \cup refused
BinariesOK ==
  /\ files \in SUBSET BinaryNames /\ torn \in SUBSET BinaryNames
  /\ ram_files \in SUBSET BinaryNames /\ refused \in SUBSET BinaryNames

EntryInv ==
  /\ RegistryOK(g_registry, Kept)
  /\ RegistryOK(flash.entries, Kept)
  /\ flash \in RegistryFiles /\ flash_on_disk \in BOOLEAN
  /\ g_app_count \in Int
  /\ g_initialized \in BOOLEAN /\ g_restart_app \in Names \cup {NoName}
  /\ restart_scheduled \in BOOLEAN /\ restart_running \in BOOLEAN
  /\ todo \in [Procs -> Todo] /\ containers \in ContainerTables
  /\ BinariesOK
  /\ faults \in 0 .. MaxFaults /\ boots \in 0 .. MaxBoots

\* The inductive invariant implies the properties checked.
LEMMA EntryInvImplies ==
  EntryInv => TypeOK /\ BinaryPresent /\ ErrorHasRetryLeft
BY DEF EntryInv, RegistryOK, EntryOK, TypeOK, BinaryPresent, HasBinary,
       ErrorHasRetryLeft, Registries, RegistryFiles, ContainerTables, Kept,
       BinariesOK

\* A cleared slot satisfies the entry invariant, whatever files exist.
LEMMA EmptyEntryOK == \A F : EntryOK(EmptyEntry, F)
BY EmptyEntryType DEF EntryOK, EmptyEntry, RetryLeft

\* The state, container, crash count and restart changes of the code keep
\* an entry correct.
LEMMA ChangeOK ==
  ASSUME NEW F, NEW e, EntryOK(e, F), NEW x \in States,
         NEW k \in -1 .. MaxContainers - 1
  PROVE  /\ EntryOK([e EXCEPT !.cid = k], F)
         /\ EntryOK([e EXCEPT !.crash = 0], F)
         /\ x # "ERROR" => /\ EntryOK([e EXCEPT !.state = x], F)
                           /\ EntryOK([e EXCEPT !.cid = k, !.state = x], F)
         /\ x # "ERROR" \/ x = e.state =>
              EntryOK([e EXCEPT !.crash = 0, !.state = x], F)
<1>1. /\ [e EXCEPT !.cid = k] \in Entry
      /\ [e EXCEPT !.crash = 0] \in Entry
      /\ [e EXCEPT !.state = x] \in Entry
      /\ [e EXCEPT !.cid = k, !.state = x] \in Entry
      /\ [e EXCEPT !.crash = 0, !.state = x] \in Entry
  BY EntryUpdates DEF EntryOK
<1>2. EntryOK([e EXCEPT !.cid = k], F)
  BY <1>1 DEF EntryOK, RetryLeft, Entry, BinaryOf
<1>3. EntryOK([e EXCEPT !.crash = 0], F)
  BY <1>1 DEF EntryOK, RetryLeft, Entry, BinaryOf
<1>4. x # "ERROR" => EntryOK([e EXCEPT !.state = x], F)
  BY <1>1 DEF EntryOK, RetryLeft, Entry, BinaryOf
<1>5. x # "ERROR" => EntryOK([e EXCEPT !.cid = k, !.state = x], F)
  BY <1>1 DEF EntryOK, RetryLeft, Entry, BinaryOf
<1>6. x # "ERROR" \/ x = e.state =>
        EntryOK([e EXCEPT !.crash = 0, !.state = x], F)
  BY <1>1 DEF EntryOK, RetryLeft, Entry, BinaryOf
<1> QED
  BY <1>2, <1>3, <1>4, <1>5, <1>6

\* Replacing one entry by a correct one keeps a registry correct.
LEMMA UpdateOK ==
  ASSUME NEW F, NEW r, RegistryOK(r, F), NEW s \in Slots, NEW e, EntryOK(e, F)
  PROVE  RegistryOK([r EXCEPT ![s] = e], F)
BY DEF RegistryOK, Registries, EntryOK

\* Writing a binary cannot make a registry incorrect: none is forgotten.
LEMMA MoreFilesOK ==
  ASSUME NEW F, NEW G, F \subseteq G, NEW r, RegistryOK(r, F)
  PROVE  RegistryOK(r, G)
BY DEF RegistryOK, EntryOK

\* An entry is correct in the file if it was correct in memory.
LEMMA PersistedOK ==
  ASSUME NEW F, NEW e, EntryOK(e, F)
  PROVE  EntryOK(Persisted(e), F) /\ Persisted(e).name = e.name
<1>1. -1 \in -1 .. MaxContainers - 1
  OBVIOUS
<1>2. (IF e.state = "RUNNING" THEN "INSTALLED" ELSE e.state) \in States
  BY EntryFields DEF EntryOK, States
<1>3. Persisted(e) \in Entry
  BY <1>1, <1>2, EntryUpdates DEF Persisted, EntryOK
<1>4. /\ Persisted(e).name = e.name /\ Persisted(e).id = e.id
      /\ Persisted(e).auto = e.auto /\ Persisted(e).max = e.max
      /\ Persisted(e).crash = e.crash
      /\ Persisted(e).state = "ERROR" => e.state = "ERROR"
  BY DEF Persisted, EntryOK, Entry
<1> QED
  BY <1>3, <1>4 DEF EntryOK, RetryLeft, BinaryOf

\* registry_save of a correct registry writes a correct file.
LEMMA SavedOK ==
  ASSUME NEW F, NEW r, RegistryOK(r, F), NEW c \in Int
  PROVE  RegistryOK(Saved(r, c).entries, F) /\ Saved(r, c) \in RegistryFiles
<1>1. ASSUME NEW i \in Slots PROVE EntryOK(Packed(r)[i], F)
  <2>1. CASE \E s \in Named(r) : Rank(r, s) = i
    <3> DEFINE t == CHOOSE s \in Named(r) : Rank(r, s) = i
    <3>1. t \in Slots
      BY <2>1 DEF Named
    <3> QED
      BY <2>1, <3>1, PersistedOK DEF Packed, RegistryOK
  <2>2. CASE ~ \E s \in Named(r) : Rank(r, s) = i
    BY <2>2, EmptyEntryOK DEF Packed
  <2> QED
    BY <2>1, <2>2
<1>2. Packed(r) \in Registries
  BY <1>1 DEF Packed, Registries, EntryOK
<1> QED
  BY <1>1, <1>2, NamedFinite DEF Saved, RegistryFiles, RegistryOK

\* A registry that starts empty is correct.
LEMMA NoRegistryOK ==
  \A F : RegistryOK(NoRegistry.entries, F) /\ NoRegistry \in RegistryFiles
<1>1. \A F : RegistryOK(EmptyRegistry, F)
  BY EmptyEntryOK DEF EmptyRegistry, RegistryOK, Registries, EntryOK
<1>2. NoRegistry.entries = EmptyRegistry /\ EmptyRegistry \in Registries
  BY <1>1 DEF NoRegistry, RegistryOK
<1>3. 0 \in 0 .. MaxInstalled /\ 0 \in Int
  OBVIOUS
<1>4. NoRegistry \in RegistryFiles
  BY <1>2, <1>3 DEF NoRegistry, RegistryFiles
<1> QED
  BY <1>1, <1>2, <1>4

\* registry_load of a correct file yields a correct registry.
LEMMA LoadedOK ==
  ASSUME NEW F, NEW f \in RegistryFiles, RegistryOK(f.entries, F)
  PROVE  RegistryOK(LoadedRegistry(f), F) /\ LoadedCount(f) \in Int
<1>1. ASSUME NEW i \in Slots PROVE EntryOK(LoadedRegistry(f)[i], F)
  BY EmptyEntryOK DEF LoadedRegistry, RegistryOK
<1> QED
  BY <1>1 DEF LoadedRegistry, LoadedCount, LoadCount, RegistryOK, Registries,
              EntryOK, RegistryFiles

\* A step that leaves the storage alone changes no part of it.
LEMMA StorageSame ==
  /\ UNCHANGED binaryVars =>
       /\ Kept' = Kept /\ BinariesOK' = BinariesOK
       /\ UNCHANGED <<files, torn, ram_files, refused>>
  /\ UNCHANGED storageVars =>
       /\ Kept' = Kept /\ BinariesOK' = BinariesOK
       /\ UNCHANGED <<flash, flash_on_disk, faults>>
<1>1. UNCHANGED binaryVars =>
        /\ Kept' = Kept /\ BinariesOK' = BinariesOK
        /\ UNCHANGED <<files, torn, ram_files, refused>>
  BY DEF binaryVars, Kept, BinariesOK
<1>2. UNCHANGED storageVars =>
        UNCHANGED binaryVars /\ UNCHANGED <<flash, flash_on_disk, faults>>
  BY DEF storageVars, flashVars
<1> QED
  BY <1>1, <1>2

\* So is what a loss of power leaves of the registry file.
LEMMA BootFileOK ==
  ASSUME EntryInv
  PROVE  RegistryOK(BootFile.entries, Kept) /\ BootFile \in RegistryFiles
BY NoRegistryOK DEF EntryInv, BootFile

\* What registry_save may leave, done or refused.
LEMMA SaveCases ==
  ASSUME NEW r, NEW c, NEW f \in 0 .. MaxFaults, RegistrySave(r, c, f)
  PROVE  /\ flash' \in {flash, Saved(r, c), NoRegistry}
         /\ flash_on_disk' \in {flash_on_disk, TRUE}
         /\ faults' \in 0 .. MaxFaults
         /\ \/ faults' = f /\ flash' = Saved(r, c)
            \/ faults' = f + 1
<1>1. CASE flash' = Saved(r, c) /\ flash_on_disk' = TRUE /\ faults' = f
  BY <1>1
<1>2. CASE /\ f < MaxFaults /\ faults' = f + 1
           /\ flash' \in IF flash_on_disk THEN {flash}
                                          ELSE {Saved(r, c), NoRegistry}
           /\ UNCHANGED flash_on_disk
  <2>1. flash' \in {flash, Saved(r, c), NoRegistry}
    <3>1. CASE flash_on_disk
      BY <1>2, <3>1
    <3>2. CASE ~flash_on_disk
      BY <1>2, <3>2
    <3> QED
      BY <3>1, <3>2
  <2> QED
    BY <1>2, <2>1
<1>3. CASE /\ f < MaxFaults /\ faults' = f + 1
           /\ flash' = NoRegistry /\ flash_on_disk' = TRUE
  BY <1>3
<1> QED
  BY <1>1, <1>2, <1>3 DEF RegistrySave

\* A binary that is written, and one that the disk refuses, is kept in mind.
LEMMA DiskKeeps ==
  ASSUME BinariesOK, NEW b \in BinaryNames, DiskTakes(b) \/ DiskRefuses(b),
         ram_files' \in SUBSET BinaryNames
  PROVE  BinariesOK' /\ Kept' = Kept \cup {b}
<1>1. BinariesOK'
  BY DEF BinariesOK, DiskTakes, DiskRefuses
<1>2. Kept' = Kept \cup {b}
  BY DEF Kept, DiskTakes, DiskRefuses
<1> QED
  BY <1>1, <1>2

LEMMA SaveBinaryKeeps ==
  ASSUME EntryInv, NEW b \in BinaryNames, NEW ok, NEW f, SaveBinary(b, ok, f)
  PROVE  /\ BinariesOK' /\ Kept' = Kept \cup {b}
         /\ f \in 0 .. MaxFaults /\ f \in {faults, faults + 1}
<1>1. DiskTakes(b) \/ DiskRefuses(b)
  BY DEF SaveBinary
<1>2. BinariesOK /\ faults \in 0 .. MaxFaults
  BY DEF EntryInv
<1>3. ram_files' \in SUBSET BinaryNames
  BY <1>2 DEF SaveBinary, BinariesOK
<1>4. f \in 0 .. MaxFaults /\ f \in {faults, faults + 1}
  BY <1>2 DEF SaveBinary
<1> QED
  BY <1>1, <1>2, <1>3, <1>4, DiskKeeps

\* registry_save keeps the file's part of the invariant.
LEMMA SaveOK ==
  ASSUME EntryInv, Kept \subseteq Kept', NEW r, RegistryOK(r, Kept'),
         NEW c \in Int, NEW f \in 0 .. MaxFaults, RegistrySave(r, c, f)
  PROVE  /\ RegistryOK(flash'.entries, Kept') /\ flash' \in RegistryFiles
         /\ flash_on_disk' \in BOOLEAN /\ faults' \in 0 .. MaxFaults
<1>1. /\ flash' \in {flash, Saved(r, c), NoRegistry}
      /\ flash_on_disk' \in {flash_on_disk, TRUE} /\ faults' \in 0 .. MaxFaults
  BY SaveCases
<1>2. CASE flash' = flash
  BY <1>1, <1>2, MoreFilesOK DEF EntryInv
<1>3. CASE flash' = Saved(r, c)
  BY <1>1, <1>3, SavedOK DEF EntryInv
<1>4. CASE flash' = NoRegistry
  BY <1>1, <1>4, NoRegistryOK DEF EntryInv
<1> QED
  BY <1>1, <1>2, <1>3, <1>4

-----------------------------------------------------------------------------
(* The actions preserve EntryInv.                                          *)

\* An installed app has a slot number as its id.
LEMMA NamedEntry ==
  ASSUME EntryInv, NEW s \in Slots, g_registry[s].name # NoName
  PROVE  /\ g_registry[s].name \in Names
         /\ g_registry[s].id \in 1 .. MaxInstalled
<1>1. BinaryOf(g_registry[s]) \in BinaryNames /\ g_registry[s] \in Entry
  BY DEF EntryInv, RegistryOK, EntryOK, Kept, BinariesOK
<1> QED
  BY <1>1, EntryFields DEF BinaryOf, BinaryNames

\* find_app_by_name returns a correct entry with that name.
LEMMA FoundEntry ==
  ASSUME EntryInv, NEW n \in Names, SlotsOf(g_registry, n) # {}
  PROVE  LET s == FindApp(g_registry, n) IN
         /\ s \in Slots /\ g_registry[s].name = n
         /\ EntryOK(g_registry[s], Kept)
         /\ g_registry[s].id \in 1 .. MaxInstalled
         /\ BinaryOf(g_registry[s]) \in Kept
<1> DEFINE s == FindApp(g_registry, n)
<1>1. s \in Slots /\ g_registry[s].name = n
  BY FindAppFinds
<1>2. EntryOK(g_registry[s], Kept)
  BY <1>1 DEF EntryInv, RegistryOK
<1> HIDE DEF s
<1>3. n # NoName
  BY DEF NamesAssumption
<1> QED
  BY <1>1, <1>2, <1>3, NamedEntry DEF EntryOK, s

\* The entry an install prepares: a new one gets the id and the name of its slot,
\* an old one loses its container.
LEMMA PreparedEntry ==
  ASSUME EntryInv, NEW n \in Names, NEW new \in BOOLEAN,
         new = (SlotsOf(g_registry, n) = {}), new => Named(g_registry) # Slots,
         NEW s, s = IF new THEN FreeSlot(g_registry) ELSE FindApp(g_registry, n)
  PROVE  /\ s \in Slots /\ Prepared(s, n, new) \in Entry
         /\ Prepared(s, n, new).name = n /\ Prepared(s, n, new).id \in 1 .. MaxInstalled
         /\ RetryLeft(Prepared(s, n, new))
<1> DEFINE e == Prepared(s, n, new)
           old == g_registry[s]
<1>1. s \in Slots /\ (~new => old.name = n /\ old.id \in 1 .. MaxInstalled)
  BY FoundEntry, FreeSlotIsFree
<1>2. old \in Entry /\ RetryLeft(old)
  BY <1>1 DEF EntryInv, RegistryOK, EntryOK
<1>3. CASE new
  <2> DEFINE f == [old EXCEPT !.id = s]
             g == [f EXCEPT !.name = n]
  <2>1. e = [old EXCEPT !.id = s, !.name = n]
    BY <1>3 DEF Prepared
  <2> HIDE DEF e, old
  <2>2. s \in 1 .. MaxInstalled /\ s \in 0 .. MaxInstalled
    BY <1>1 DEF Slots
  <2>3. f \in Entry /\ f.id = s
        /\ f.state = old.state /\ f.auto = old.auto /\ f.crash = old.crash /\ f.max = old.max
    BY <1>2, <2>2 DEF Entry
  <2>4. e = g
    BY <1>2, <2>1 DEF Entry
  <2> HIDE DEF f
  <2>5. g \in Entry /\ g.id = f.id /\ g.name = n
        /\ g.state = f.state /\ g.auto = f.auto /\ g.crash = f.crash /\ g.max = f.max
    BY <2>3 DEF Entry
  <2> HIDE DEF g
  <2>6. e \in Entry /\ e.name = n /\ e.id \in 1 .. MaxInstalled /\ RetryLeft(e)
    BY <1>2, <2>2, <2>3, <2>4, <2>5 DEF RetryLeft
  <2> QED
    BY <1>1, <2>6 DEF e
<1>4. CASE ~new
  <2>1. e = [old EXCEPT !.cid = -1]
    BY <1>4 DEF Prepared
  <2> HIDE DEF e, old
  <2>2. -1 \in -1 .. MaxContainers - 1
    BY SizesAssumption
  <2>3. e \in Entry /\ e.id = old.id /\ e.name = old.name
        /\ e.state = old.state /\ e.auto = old.auto /\ e.crash = old.crash /\ e.max = old.max
    BY <1>2, <2>1, <2>2 DEF Entry
  <2>4. e \in Entry /\ e.name = n /\ e.id \in 1 .. MaxInstalled /\ RetryLeft(e)
    BY <1>1, <1>2, <1>4, <2>3 DEF RetryLeft
  <2> QED
    BY <1>1, <2>4 DEF e
<1> QED
  BY <1>3, <1>4

\* The slot an install uses, and what it leaves there.
LEMMA InstallFacts ==
  ASSUME EntryInv, NEW n \in Names, NEW m \in RestartConfigs, NEW p \in Preloads,
         NEW new \in BOOLEAN, new = (SlotsOf(g_registry, n) = {}),
         new => Named(g_registry) # Slots,
         NEW s, s = IF new THEN FreeSlot(g_registry) ELSE FindApp(g_registry, n)
  PROVE  LET e == Prepared(s, n, new)
             F == Kept \cup {SavedBinary(s, n, new)}
         IN  /\ s \in Slots
             /\ SavedBinary(s, n, new) \in BinaryNames
             /\ EntryOK(InstalledEntry(e, n, m, p), F)
             /\ EntryOK(FailedEntry(e), Kept)
<1> DEFINE e == Prepared(s, n, new)
<1>1. -1 \in -1 .. MaxContainers - 1
  BY SizesAssumption
<1>2. /\ s \in Slots /\ e \in Entry /\ e.name = n /\ e.id \in 1 .. MaxInstalled
      /\ RetryLeft(e)
  BY PreparedEntry
<1>3. SavedBinary(s, n, new) = <<e.id, n>>
  BY <1>2 DEF SavedBinary, BinaryOf
<1>4. EntryOK(InstalledEntry(e, n, m, p), Kept \cup {SavedBinary(s, n, new)})
  <2>1. m.auto \in BOOLEAN /\ m.max \in Nat /\ p \in BOOLEAN
    BY DEF RestartAssumption, PreloadsAssumption
  <2> HIDE DEF e
  <2>2. InstalledEntry(e, n, m, p) \in Entry
    BY <1>1, <1>2, <2>1 DEF InstalledEntry, Entry, States
  <2> QED
    BY <1>3, <2>2 DEF InstalledEntry, EntryOK, RetryLeft, BinaryOf
<1>5. EntryOK(FailedEntry(e), Kept)
  <2> HIDE DEF e
  <2> QED
    BY <1>2 DEF FailedEntry, EntryOK, Entry, RetryLeft
<1> HIDE DEF e
<1> QED
  BY <1>2, <1>3, <1>4, <1>5 DEF e, BinaryNames

\* save_app_binary writes a file named after the entry's id and name.
LEMMA SavedBinaryType ==
  ASSUME EntryInv, NEW n \in Names, NEW new \in BOOLEAN,
         new = (SlotsOf(g_registry, n) = {}), new => Named(g_registry) # Slots,
         NEW s, s = IF new THEN FreeSlot(g_registry) ELSE FindApp(g_registry, n)
  PROVE  SavedBinary(s, n, new) \in BinaryNames
<1> DEFINE e == Prepared(s, n, new)
<1>1. e.name = n /\ e.id \in 1 .. MaxInstalled
  BY PreparedEntry
<1>2. SavedBinary(s, n, new) = <<e.id, n>>
  BY <1>1 DEF SavedBinary, BinaryOf
<1> HIDE DEF e
<1> QED
  BY <1>1, <1>2 DEF BinaryNames

\* app_manager_install preserves the invariant.
LEMMA InstallInv ==
  ASSUME EntryInv, NEW t \in Threads, NEW n \in Names,
         NEW m \in RestartConfigs, NEW p \in Preloads, Install(t, n, m, p)
  PROVE  EntryInv'
<1> DEFINE new == SlotsOf(g_registry, n) = {}
           s == IF new THEN FreeSlot(g_registry) ELSE FindApp(g_registry, n)
           e == Prepared(s, n, new)
           c == IF new THEN g_app_count + 1 ELSE g_app_count
           b == SavedBinary(s, n, new)
           k == g_registry[s].cid
           ok == [g_registry EXCEPT ![s] = InstalledEntry(e, n, m, p)]
<1>1. new \in BOOLEAN /\ (new => Named(g_registry) # Slots)
  BY DEF Install
<1>2. /\ s \in Slots /\ EntryOK(FailedEntry(e), Kept)
      /\ b \in BinaryNames
      /\ EntryOK(InstalledEntry(e, n, m, p), Kept \cup {b})
  BY <1>1, InstallFacts
<1>3. c \in Int /\ g_app_count' = c
  BY DEF EntryInv, Install
<1>4. containers' \in ContainerTables
  <2>1. containers' \in
          IF new \/ k < 0 THEN {containers}
          ELSE IF g_registry[s].state = "RUNNING"
                 THEN StopAndDestroy(containers, k)
                 ELSE DestroyOutcomes(containers, k)
    BY DEF Install
  <2>2. k \in -1 .. MaxContainers - 1
    BY <1>2, EntryFields DEF EntryInv, RegistryOK, EntryOK
  <2>3. ~(k < 0) => k \in ContainerIds
    BY <2>2 DEF ContainerIds
  <2> HIDE DEF k
  <2> QED
    BY <2>1, <2>3, ContainerTypes DEF EntryInv
<1>5. ASSUME NEW f \in faults .. faults + 1, SaveBinary(b, TRUE, f),
             g_registry' = ok, RegistrySave(ok, c, f)
      PROVE  EntryInv'
  <2>1. BinariesOK' /\ Kept' = Kept \cup {b} /\ f \in 0 .. MaxFaults
    <3> HIDE DEF b
    <3> QED
      BY <1>2, <1>5, SaveBinaryKeeps
  <2>2. RegistryOK(ok, Kept')
    <3> DEFINE new_e == InstalledEntry(e, n, m, p)
    <3>1. RegistryOK(g_registry, Kept')
      BY <2>1, MoreFilesOK DEF EntryInv
    <3>2. EntryOK(new_e, Kept')
      BY <1>2, <2>1
    <3> HIDE DEF new_e, s
    <3> QED
      BY <1>2, <3>1, <3>2, UpdateOK DEF new_e
  <2> HIDE DEF ok, c, b
  <2>3. /\ RegistryOK(flash'.entries, Kept') /\ flash' \in RegistryFiles
        /\ flash_on_disk' \in BOOLEAN /\ faults' \in 0 .. MaxFaults
    BY <1>3, <1>5, <2>1, <2>2, SaveOK
  <2> QED
    BY <1>3, <1>4, <1>5, <2>1, <2>2, <2>3 DEF EntryInv, Install, restartVars
<1>6. ASSUME NEW f \in faults .. faults + 1, SaveBinary(b, FALSE, f), faults' = f,
             g_registry' = [g_registry EXCEPT ![s] = FailedEntry(e)],
             UNCHANGED flashVars
      PROVE  EntryInv'
  <2>1. BinariesOK' /\ Kept' = Kept \cup {b} /\ f \in 0 .. MaxFaults
    <3> HIDE DEF b
    <3> QED
      BY <1>2, <1>6, SaveBinaryKeeps
  <2>2. RegistryOK(g_registry', Kept') /\ RegistryOK(flash.entries, Kept')
    <3>1. RegistryOK(g_registry', Kept)
      BY <1>2, <1>6, UpdateOK DEF EntryInv
    <3> QED
      BY <2>1, <3>1, MoreFilesOK DEF EntryInv
  <2> HIDE DEF c, b
  <2> QED
    BY <1>3, <1>4, <1>6, <2>1, <2>2 DEF EntryInv, Install, restartVars, flashVars
<1>7. \E f \in faults .. faults + 1 :
        \/ /\ SaveBinary(b, TRUE, f) /\ g_registry' = ok
           /\ RegistrySave(ok, c, f)
        \/ /\ SaveBinary(b, FALSE, f) /\ faults' = f
           /\ g_registry' = [g_registry EXCEPT ![s] = FailedEntry(e)]
           /\ UNCHANGED flashVars
  BY DEF Install
<1> QED
  BY <1>5, <1>6, <1>7

\* app_manager_uninstall preserves the invariant.
LEMMA UninstallInv ==
  ASSUME EntryInv, NEW t \in Threads, NEW n \in Names, Uninstall(t, n)
  PROVE  EntryInv'
<1> DEFINE s == FindApp(g_registry, n)
           k == g_registry[s].cid
           r == [g_registry EXCEPT ![s] = EmptyEntry]
<1>1. s \in Slots /\ EntryOK(g_registry[s], Kept)
  BY FoundEntry DEF Uninstall
<1>2. containers' \in ContainerTables
  <2>1. containers' \in IF k < 0 THEN {containers}
                        ELSE StopAndDestroy(containers, k)
    BY DEF Uninstall
  <2>2. ~(k < 0) => k \in ContainerIds
    BY <1>1, EntryFields DEF EntryOK, ContainerIds
  <2> HIDE DEF k
  <2> QED
    BY <2>1, <2>2, ContainerTypes DEF EntryInv
<1>3. /\ g_registry' = r /\ g_app_count' \in Int
      /\ RegistrySave(r, g_app_count', faults)
      /\ Kept' = Kept /\ BinariesOK' /\ faults \in 0 .. MaxFaults
  BY StorageSame DEF Uninstall, EntryInv
<1>4. RegistryOK(r, Kept')
  BY <1>1, <1>3, UpdateOK, EmptyEntryOK DEF EntryInv
<1>5. /\ RegistryOK(flash'.entries, Kept') /\ flash' \in RegistryFiles
      /\ flash_on_disk' \in BOOLEAN /\ faults' \in 0 .. MaxFaults
  BY <1>3, <1>4, SaveOK
<1> HIDE DEF r
<1> QED
  BY <1>2, <1>3, <1>4, <1>5 DEF EntryInv, Uninstall, restartVars

\* The three ways through app_manager_start's locked part.
LEMMA StartLockedInv ==
  ASSUME EntryInv, NEW p \in Procs, NEW n \in Names, StartLocked(p, n)
  PROVE  /\ RegistryOK(g_registry', Kept') /\ RegistryOK(flash'.entries, Kept')
         /\ flash' \in RegistryFiles /\ flash_on_disk' \in BOOLEAN
         /\ Kept' = Kept /\ BinariesOK'
         /\ todo' \in [Procs -> Todo] /\ containers' \in ContainerTables
         /\ faults' \in 0 .. MaxFaults
<1> DEFINE found == SlotsOf(g_registry, n) # {}
           s == FindApp(g_registry, n)
           e == g_registry[s]
           reset == IF e.state = "FAILED" THEN [e EXCEPT !.crash = 0] ELSE e
<1>1. todo \in [Procs -> Todo] /\ containers \in ContainerTables
      /\ RegistryOK(g_registry, Kept)
  BY DEF EntryInv
<1>2. CASE UNCHANGED <<g_registry, containers, storageVars>>
           /\ todo' = [todo EXCEPT ![p] = Idle]
  BY <1>1, <1>2, TodoTypes, StorageSame DEF EntryInv
<1>3. ASSUME found
      PROVE  s \in Slots /\ EntryOK(e, Kept) /\ EntryOK(reset, Kept)
  <2>1. s \in Slots /\ EntryOK(e, Kept)
    BY <1>3, FoundEntry
  <2> HIDE DEF e
  <2> QED
    BY <2>1, ChangeOK, EntryFields DEF EntryOK
<1>4. CASE /\ found
           /\ g_registry' = [g_registry EXCEPT ![s] = reset]
           /\ todo' = [todo EXCEPT ![p] = Idle]
           /\ UNCHANGED <<containers, storageVars>>
  <2>1. RegistryOK(g_registry', Kept)
    <3> HIDE DEF s, reset
    <3> QED
      BY <1>1, <1>3, <1>4, UpdateOK DEF reset
  <2> QED
    BY <1>1, <1>4, <2>1, TodoTypes, StorageSame DEF EntryInv
<1>5. ASSUME found, NEW k \in ContainerIds
      PROVE  /\ EntryOK([reset EXCEPT !.cid = k], Kept)
             /\ EntryOK([reset EXCEPT !.cid = k, !.state = "RUNNING"], Kept)
  <2>1. EntryOK(reset, Kept) /\ k \in -1 .. MaxContainers - 1
    BY <1>3, <1>5 DEF ContainerIds
  <2> HIDE DEF reset
  <2>2. "RUNNING" \in States
    BY DEF States
  <2> QED
    BY <2>1, <2>2, ChangeOK
<1>6. ASSUME found, NEW k \in ContainerIds,
             g_registry' = [g_registry EXCEPT
                ![s] = [reset EXCEPT !.cid = k, !.state = "RUNNING"]],
             containers' = [containers EXCEPT
                ![k] = [owner |-> n, status |-> "running"]],
             todo' = [todo EXCEPT ![p] = Idle],
             RegistrySave(g_registry', g_app_count, faults),
             UNCHANGED binaryVars
      PROVE  /\ RegistryOK(g_registry', Kept')
             /\ RegistryOK(flash'.entries, Kept')
             /\ flash' \in RegistryFiles /\ flash_on_disk' \in BOOLEAN
             /\ Kept' = Kept /\ BinariesOK'
             /\ todo' \in [Procs -> Todo] /\ containers' \in ContainerTables
             /\ faults' \in 0 .. MaxFaults
  <2> DEFINE e2 == [reset EXCEPT !.cid = k, !.state = "RUNNING"]
  <2>1. EntryOK(e2, Kept) /\ s \in Slots
    BY <1>3, <1>5, <1>6
  <2>2. RegistryOK(g_registry', Kept')
    <3> HIDE DEF s, reset
    <3>1. g_registry' = [g_registry EXCEPT ![s] = e2] /\ Kept' = Kept
      BY <1>6, StorageSame
    <3> HIDE DEF e2
    <3> QED
      BY <1>1, <2>1, <3>1, UpdateOK
  <2>3. g_app_count \in Int /\ faults \in 0 .. MaxFaults
        /\ Kept' = Kept /\ BinariesOK'
    BY <1>6, StorageSame DEF EntryInv
  <2>4. /\ RegistryOK(flash'.entries, Kept') /\ flash' \in RegistryFiles
        /\ flash_on_disk' \in BOOLEAN /\ faults' \in 0 .. MaxFaults
    BY <1>6, <2>2, <2>3, SaveOK
  <2>5. containers' \in ContainerTables
    BY <1>1, <1>6 DEF ContainerTables, Container, Statuses
  <2> QED
    BY <1>1, <1>6, <2>2, <2>3, <2>4, <2>5, TodoTypes
<1>7. ASSUME found, NEW k \in ContainerIds, NEW st \in Statuses,
             g_registry' = [g_registry EXCEPT ![s] = [reset EXCEPT !.cid = k]],
             containers' = [containers EXCEPT
                ![k] = [owner |-> n, status |-> st]],
             todo' = [todo EXCEPT ![p] = MustFail(s)],
             UNCHANGED storageVars
      PROVE  /\ RegistryOK(g_registry', Kept)
             /\ todo' \in [Procs -> Todo] /\ containers' \in ContainerTables
  <2> DEFINE e2 == [reset EXCEPT !.cid = k]
  <2>1. EntryOK(e2, Kept) /\ s \in Slots
    BY <1>3, <1>5, <1>7
  <2>2. RegistryOK(g_registry', Kept)
    <3> HIDE DEF s, reset
    <3>1. g_registry' = [g_registry EXCEPT ![s] = e2]
      BY <1>7
    <3> HIDE DEF e2
    <3> QED
      BY <1>1, <2>1, <3>1, UpdateOK
  <2>3. containers' \in ContainerTables
    BY <1>1, <1>7 DEF ContainerTables, Container
  <2>4. todo' \in [Procs -> Todo]
    <3> HIDE DEF s
    <3> QED
      BY <1>1, <1>7, <2>1, TodoTypes
  <2> QED
    BY <2>2, <2>3, <2>4
<1>8. \A k \in ContainerIds : \A st \in {"halted", containers[k].status} :
        st \in Statuses
  BY <1>1 DEF ContainerTables, Container, Statuses
<1> HIDE DEF found, s, e, reset
<1>9. \/ /\ ~g_initialized \/ ~found \/ (found /\ e.state = "RUNNING")
         /\ todo' = [todo EXCEPT ![p] = Idle]
         /\ UNCHANGED <<g_registry, containers, storageVars>>
      \/ /\ found
         /\ g_registry' = [g_registry EXCEPT ![s] = reset]
         /\ todo' = [todo EXCEPT ![p] = Idle]
         /\ UNCHANGED <<containers, storageVars>>
      \/ /\ found
         /\ \E k \in ContainerIds :
              \/ /\ g_registry' = [g_registry EXCEPT
                       ![s] = [reset EXCEPT !.cid = k, !.state = "RUNNING"]]
                 /\ containers' = [containers EXCEPT
                       ![k] = [owner |-> n, status |-> "running"]]
                 /\ todo' = [todo EXCEPT ![p] = Idle]
                 /\ RegistrySave(g_registry', g_app_count, faults)
                 /\ UNCHANGED binaryVars
              \/ /\ g_registry' = [g_registry EXCEPT
                       ![s] = [reset EXCEPT !.cid = k]]
                 /\ \E st \in {"halted", containers[k].status} \ {"free"} :
                      containers' = [containers EXCEPT
                        ![k] = [owner |-> n, status |-> st]]
                 /\ todo' = [todo EXCEPT ![p] = MustFail(s)]
                 /\ UNCHANGED storageVars
  BY DEF StartLocked, found, s, e, reset
<1>10. /\ RegistryOK(flash.entries, Kept) /\ flash \in RegistryFiles
       /\ flash_on_disk \in BOOLEAN /\ BinariesOK /\ faults \in 0 .. MaxFaults
  BY DEF EntryInv
<1>11. UNCHANGED storageVars =>
         /\ Kept' = Kept /\ BinariesOK' = BinariesOK
         /\ UNCHANGED <<flash, flash_on_disk, faults>>
  BY StorageSame
<1> QED
  BY <1>2, <1>4, <1>6, <1>7, <1>8, <1>9, <1>10, <1>11

\* app_manager_stop preserves the invariant.
LEMMA StopInv ==
  ASSUME EntryInv, NEW t \in Threads, NEW n \in Names, Stop(t, n)
  PROVE  EntryInv'
<1> DEFINE s == FindApp(g_registry, n)
           k == g_registry[s].cid
           r == [g_registry EXCEPT ![s].state = "STOPPED"]
<1>1. s \in Slots /\ EntryOK(g_registry[s], Kept) /\ k >= 0
  BY FoundEntry DEF Stop
<1>2. /\ containers' = [containers EXCEPT ![k].status = "halted"]
      /\ g_registry' = r /\ RegistrySave(r, g_app_count, faults)
      /\ Kept' = Kept /\ BinariesOK' /\ faults \in 0 .. MaxFaults
  BY StorageSame DEF Stop, EntryInv
<1>3. containers' \in ContainerTables
  <2>1. k \in ContainerIds
    BY <1>1, EntryFields DEF EntryOK, ContainerIds
  <2> HIDE DEF k
  <2> QED
    BY <1>2, <2>1 DEF EntryInv, ContainerTables, Container, Statuses
<1>4. RegistryOK(r, Kept')
  <2> DEFINE e == [g_registry[s] EXCEPT !.state = "STOPPED"]
  <2>1. EntryOK(e, Kept)
    <3> DEFINE old == g_registry[s]
    <3> HIDE DEF old
    <3>1. "STOPPED" \in States /\ -1 \in -1 .. MaxContainers - 1
      BY DEF States
    <3>2. EntryOK(old, Kept) => EntryOK([old EXCEPT !.state = "STOPPED"], Kept)
      BY <3>1, ChangeOK
    <3> QED
      BY <1>1, <3>2 DEF old
  <2>2. r = [g_registry EXCEPT ![s] = e]
    OBVIOUS
  <2> HIDE DEF e, s, r
  <2> QED
    BY <1>1, <1>2, <2>1, <2>2, UpdateOK DEF EntryInv
<1>5. /\ RegistryOK(flash'.entries, Kept') /\ flash' \in RegistryFiles
      /\ flash_on_disk' \in BOOLEAN /\ faults' \in 0 .. MaxFaults
  BY <1>2, <1>4, SaveOK DEF EntryInv
<1> HIDE DEF r
<1> QED
  BY <1>2, <1>3, <1>4, <1>5 DEF EntryInv, Stop, restartVars

\* app_manager_restart up to its unlock preserves the invariant.
LEMMA RestartInv ==
  ASSUME EntryInv, NEW t \in Threads, NEW n \in Names, Restart(t, n)
  PROVE  EntryInv'
<1> DEFINE s == FindApp(g_registry, n)
           e == g_registry[s]
           stops == e.state = "RUNNING" /\ e.cid >= 0
           e2 == [e EXCEPT !.crash = 0,
                           !.state = IF stops THEN "STOPPED" ELSE @]
<1>1. s \in Slots /\ EntryOK(e, Kept)
  BY FoundEntry DEF Restart
<1>2. /\ g_registry' = [g_registry EXCEPT ![s] = e2]
      /\ containers' \in IF stops THEN StopOutcomes(containers, e.cid)
                                  ELSE {containers}
      /\ todo' = [todo EXCEPT ![t] = MustStart(n)]
      /\ UNCHANGED <<g_app_count, g_initialized, restartVars, storageVars, boots>>
  BY DEF Restart
<1>3. EntryOK(e2, Kept)
  <2> HIDE DEF e
  <2> DEFINE x == IF stops THEN "STOPPED" ELSE e.state
  <2>1. x \in States /\ (x # "ERROR" \/ x = e.state)
    BY <1>1, EntryFields DEF EntryOK, States
  <2>2. e2 = [e EXCEPT !.crash = 0, !.state = x] /\ -1 \in -1 .. MaxContainers - 1
    OBVIOUS
  <2> HIDE DEF x, e2
  <2> QED
    BY <1>1, <2>1, <2>2, ChangeOK
<1>4. RegistryOK(g_registry', Kept)
  <2> HIDE DEF s, e2
  <2> QED
    BY <1>1, <1>2, <1>3, UpdateOK DEF EntryInv
<1>5. containers' \in ContainerTables
  <2>1. stops => e.cid \in ContainerIds
    BY <1>1, EntryFields DEF EntryOK, ContainerIds
  <2> HIDE DEF e
  <2> QED
    BY <1>2, <2>1, ContainerTypes DEF EntryInv
<1>6. todo' \in [Procs -> Todo]
  BY <1>2, TodoTypes DEF EntryInv, Procs
<1> QED
  BY <1>2, <1>4, <1>5, <1>6, StorageSame DEF EntryInv, restartVars

\* set_app_state(ERROR) after the unlock preserves the invariant: it counts
\* the crash and gives the app up in the same step.
LEMMA StartFailedInv ==
  ASSUME EntryInv, NEW p \in Procs, StartFailed(p)
  PROVE  EntryInv'
<1> DEFINE s == todo[p].slot
           e == g_registry[s]
<1>1. todo' \in [Procs -> Todo]
  BY TodoTypes DEF EntryInv, StartFailed
<1>2. CASE e.state = "ERROR"
  BY <1>1, <1>2, StorageSame DEF EntryInv, StartFailed
<1>3. CASE e.state # "ERROR"
  <2>1. s \in Slots /\ EntryOK(e, Kept)
    BY TodoFields DEF StartFailed, EntryInv, RegistryOK
  <2>2. /\ g_registry' = [g_registry EXCEPT ![s] = ErrorEntry(e)]
        /\ IF WantsRestart(e)
             THEN g_restart_app' = e.name /\ restart_scheduled' = TRUE
             ELSE UNCHANGED <<g_restart_app, restart_scheduled>>
        /\ UNCHANGED <<g_app_count, g_initialized, restart_running, containers,
                       storageVars, boots>>
    BY <1>3 DEF StartFailed
  <2>3. EntryOK(ErrorEntry(e), Kept) /\ e.name \in Names \cup {NoName}
    <3> HIDE DEF e
    <3> DEFINE crash == IF e.auto THEN e.crash + 1 ELSE e.crash
               x == IF e.auto /\ crash >= e.max THEN "FAILED" ELSE "ERROR"
    <3>1. crash \in Nat /\ x \in States /\ e.name \in Names \cup {NoName}
      BY <2>1, EntryFields DEF EntryOK, States
    <3>2. ErrorEntry(e) = [e EXCEPT !.state = x, !.crash = crash]
      BY DEF ErrorEntry
    <3>3. x = "ERROR" /\ e.auto => crash < e.max
      BY <2>1, EntryFields DEF EntryOK
    <3> HIDE DEF crash, x
    <3>4. ErrorEntry(e) \in Entry
      BY <2>1, <3>1, <3>2 DEF EntryOK, Entry
    <3> QED
      BY <2>1, <3>1, <3>2, <3>3, <3>4 DEF EntryOK, Entry, RetryLeft, BinaryOf
  <2>4. RegistryOK(g_registry', Kept)
    <3> HIDE DEF e, s
    <3> QED
      BY <2>1, <2>2, <2>3, UpdateOK DEF EntryInv
  <2> HIDE DEF e
  <2> QED
    BY <1>1, <2>2, <2>3, <2>4, StorageSame DEF EntryInv
<1> QED
  BY <1>2, <1>3

\* The three callers of app_manager_start preserve the invariant.
LEMMA StartingInv ==
  ASSUME EntryInv
  PROVE  /\ \A t \in Threads, n \in Names : Start(t, n) => EntryInv'
         /\ \A t \in Threads : RestartStart(t) => EntryInv'
         /\ RestartWork => EntryInv'
<1>1. ASSUME NEW t \in Threads, NEW n \in Names, Start(t, n) PROVE EntryInv'
  <2>1. t \in Procs /\ StartLocked(t, n)
    BY <1>1 DEF Start, Procs
  <2> QED
    BY <1>1, <2>1, StartLockedInv DEF Start, EntryInv, restartVars
<1>2. ASSUME NEW t \in Threads, RestartStart(t) PROVE EntryInv'
  <2>1. t \in Procs /\ todo[t].name \in Names /\ StartLocked(t, todo[t].name)
    BY <1>2, TodoFields DEF RestartStart, Procs, EntryInv
  <2> QED
    BY <1>2, <2>1, StartLockedInv DEF RestartStart, EntryInv, restartVars
<1>3. ASSUME RestartWork PROVE EntryInv'
  <2>1. CASE g_restart_app = NoName
    BY <1>3, <2>1, StorageSame DEF RestartWork, EntryInv
  <2>2. CASE g_restart_app # NoName
    <3>1. /\ WorkQueue \in Procs /\ g_restart_app \in Names
          /\ StartLocked(WorkQueue, g_restart_app)
      BY <1>3, <2>2 DEF RestartWork, Procs, EntryInv
    <3> QED
      BY <1>3, <2>2, <3>1, StartLockedInv DEF RestartWork, EntryInv
  <2> QED
    BY <2>1, <2>2
<1> QED
  BY <1>1, <1>2, <1>3

\* app_manager_shutdown preserves the invariant.
LEMMA ShutdownInv ==
  ASSUME EntryInv, NEW t \in Threads, Shutdown(t)
  PROVE  EntryInv'
<1> DEFINE r == [s \in Slots |-> StoppedEntry(g_registry[s])]
<1>1. /\ g_registry' = r /\ RegistrySave(r, g_app_count, faults)
      /\ \E stopped \in SUBSET ContainerIds :
           containers' = [k \in ContainerIds |->
                            IF k \in stopped
                              THEN [containers[k] EXCEPT !.status = "halted"]
                              ELSE containers[k]]
  <2>1. \A s \in Slots : g_registry[s].cid >= 0 => g_registry[s].cid \in ContainerIds
    BY EntryFields DEF EntryInv, RegistryOK, EntryOK, ContainerIds
  <2>2. \A s \in Running(g_registry) : s \in Slots
    BY DEF Running
  <2> DEFINE hit == {g_registry[s].cid : s \in {u \in Running(g_registry) :
                                                   g_registry[u].cid >= 0}}
  <2>3. SUBSET hit \subseteq SUBSET ContainerIds
    BY <2>1, <2>2
  <2>4. /\ g_registry' = r /\ RegistrySave(r, g_app_count, faults)
        /\ \E stopped \in SUBSET hit :
             containers' = [k \in ContainerIds |->
                              IF k \in stopped
                                THEN [containers[k] EXCEPT !.status = "halted"]
                                ELSE containers[k]]
    BY DEF Shutdown
  <2> HIDE DEF hit, r
  <2> QED
    BY <2>3, <2>4
<1>2. containers' \in ContainerTables
  BY <1>1 DEF EntryInv, ContainerTables, Container, Statuses
<1>6. Kept' = Kept /\ BinariesOK'
  BY StorageSame DEF Shutdown, EntryInv
<1>3. RegistryOK(r, Kept')
  <2>1. ASSUME NEW s \in Slots PROVE EntryOK(StoppedEntry(g_registry[s]), Kept)
    <3> DEFINE e == g_registry[s]
    <3>1. EntryOK(e, Kept) /\ "STOPPED" \in States
          /\ -1 \in -1 .. MaxContainers - 1
      BY DEF EntryInv, RegistryOK, States
    <3> HIDE DEF e
    <3>2. EntryOK(StoppedEntry(e), Kept)
      BY <3>1, ChangeOK DEF StoppedEntry
    <3> QED
      BY <3>2 DEF e
  <2> QED
    BY <1>6, <2>1 DEF RegistryOK, Registries, EntryOK
<1>4. /\ RegistryOK(flash'.entries, Kept') /\ flash' \in RegistryFiles
      /\ flash_on_disk' \in BOOLEAN /\ faults' \in 0 .. MaxFaults
  BY <1>1, <1>3, <1>6, SaveOK DEF EntryInv
<1>5. boots' \in 0 .. MaxBoots
  BY DEF Shutdown, EntryInv
<1> HIDE DEF r
<1> QED
  BY <1>1, <1>2, <1>3, <1>4, <1>5, <1>6 DEF EntryInv, Shutdown, restartVars

\* app_manager_init preserves the invariant.
LEMMA AppInitInv ==
  ASSUME EntryInv, NEW t \in Threads, AppInit(t)
  PROVE  EntryInv'
<1>1. RegistryOK(LoadedRegistry(flash), Kept) /\ LoadedCount(flash) \in Int
  BY LoadedOK DEF EntryInv
<1> QED
  BY <1>1, StorageSame DEF EntryInv, AppInit

\* A boot preserves the invariant: what is left of the file is correct at every
\* step.
LEMMA PowerInv ==
  ASSUME EntryInv, PowerUp, Kept \subseteq Kept', BinariesOK',
         faults' \in 0 .. MaxFaults
  PROVE  EntryInv'
<1>1. RegistryOK(BootFile.entries, Kept') /\ BootFile \in RegistryFiles
  BY BootFileOK, MoreFilesOK
<1>2. RegistryOK(g_registry', Kept') /\ g_app_count' \in Int
  BY <1>1, LoadedOK DEF PowerUp
<1>3. containers' \in ContainerTables /\ todo' \in [Procs -> Todo]
  BY TodoTypes DEF PowerUp, ContainerTables, Container, Statuses, FreeContainer
<1>4. /\ g_initialized' \in BOOLEAN /\ restart_scheduled' \in BOOLEAN
      /\ restart_running' \in BOOLEAN /\ g_restart_app' \in Names \cup {NoName}
  BY DEF PowerUp
<1>5. flash' = BootFile /\ flash_on_disk' \in BOOLEAN /\ boots' \in 0 .. MaxBoots
  BY DEF EntryInv, PowerUp
<1> QED
  BY <1>1, <1>2, <1>3, <1>4, <1>5 DEF EntryInv

\* A loss of power takes away what was only in RAM, which no entry needs.
LEMMA PowerLossInv ==
  ASSUME EntryInv, PowerLoss
  PROVE  EntryInv'
<1>1. PowerUp /\ UNCHANGED <<files, torn, refused, faults>> /\ ram_files' = {}
  BY DEF PowerLoss, PowerUp
<1>2. BinariesOK' /\ Kept' = Kept /\ faults' \in 0 .. MaxFaults
  BY <1>1 DEF EntryInv, BinariesOK, Kept
<1> QED
  BY <1>1, <1>2, PowerInv

\* A power failure between the two writes of an install preserves the
\* invariant: the binary is written first.
LEMMA PowerLossInInstallInv ==
  ASSUME EntryInv, NEW t \in Threads, NEW n \in Names, PowerLossInInstall(t, n)
  PROVE  EntryInv'
<1> DEFINE new == SlotsOf(g_registry, n) = {}
           s == IF new THEN FreeSlot(g_registry) ELSE FindApp(g_registry, n)
           b == SavedBinary(s, n, new)
<1>1. /\ new \in BOOLEAN /\ (new => Named(g_registry) # Slots) /\ PowerUp
      /\ DiskTakes(b) \/ DiskRefuses(b)
      /\ faults' \in {faults, faults + 1} /\ (faults' # faults => faults < MaxFaults)
  BY DEF PowerLossInInstall
<1>2. b \in BinaryNames
  BY <1>1, SavedBinaryType
<1> HIDE DEF b
<1>3. ram_files' = {} /\ BinariesOK /\ faults' \in 0 .. MaxFaults
  BY <1>1 DEF EntryInv, PowerUp
<1>4. BinariesOK' /\ Kept \subseteq Kept'
  BY <1>1, <1>2, <1>3, DiskKeeps
<1> QED
  BY <1>1, <1>3, <1>4, PowerInv

\* The steps that touch neither registry nor storage preserve the invariant.
LEMMA RemainingInv ==
  ASSUME EntryInv
  PROVE  /\ RestartDone => EntryInv'
         /\ \A k \in ContainerIds : ContainerEnds(k) => EntryInv'
         /\ UNCHANGED vars => EntryInv'
<1>1. RestartDone => EntryInv'
  BY StorageSame DEF RestartDone, EntryInv
<1>2. ASSUME NEW k \in ContainerIds, ContainerEnds(k) PROVE EntryInv'
  <2>1. containers' \in ContainerTables
    BY <1>2 DEF ContainerEnds, EntryInv, ContainerTables, Container, Statuses
  <2> QED
    BY <1>2, <2>1, StorageSame DEF ContainerEnds, EntryInv, restartVars
<1>3. ASSUME UNCHANGED vars PROVE EntryInv'
  <2>1. UNCHANGED binaryVars
    BY <1>3 DEF vars, binaryVars
  <2> QED
    BY <1>3, <2>1, StorageSame DEF vars, EntryInv
<1> QED
  BY <1>1, <1>2, <1>3

-----------------------------------------------------------------------------
\* The initial state satisfies the invariant.
LEMMA InitInv == Init => EntryInv
<1> SUFFICES ASSUME Init PROVE EntryInv
  OBVIOUS
<1>1. /\ g_registry = NoRegistry.entries /\ flash = NoRegistry
      /\ flash_on_disk \in BOOLEAN
  BY DEF Init, NoRegistry
<1>2. containers \in ContainerTables /\ todo \in [Procs -> Todo]
  BY TodoTypes DEF Init, ContainerTables, Container, Statuses, FreeContainer
<1>3. /\ RegistryOK(g_registry, Kept) /\ RegistryOK(flash.entries, Kept)
      /\ flash \in RegistryFiles
  BY <1>1, NoRegistryOK
<1>4. 0 \in Int /\ 0 \in 0 .. MaxFaults /\ 0 \in 0 .. MaxBoots
  OBVIOUS
<1>5. /\ g_initialized \in BOOLEAN /\ restart_scheduled \in BOOLEAN
      /\ restart_running \in BOOLEAN /\ g_restart_app \in Names \cup {NoName}
      /\ BinariesOK
  BY DEF Init, BinariesOK
<1> QED
  BY <1>1, <1>2, <1>3, <1>4, <1>5 DEF Init, EntryInv

\* Every step preserves the invariant.
LEMMA NextInv == EntryInv /\ [Next]_vars => EntryInv'
<1> SUFFICES ASSUME EntryInv, [Next]_vars PROVE EntryInv'
  OBVIOUS
<1>1. ASSUME NEW t \in Threads, NEW n \in Names, Call(t, n) PROVE EntryInv'
  BY <1>1, InstallInv, UninstallInv, StartingInv, StopInv, RestartInv DEF Call
<1>2. ASSUME NEW p \in Procs, StartFailed(p) PROVE EntryInv'
  BY <1>2, StartFailedInv
<1>3. ASSUME NEW t \in Threads, RestartStart(t) \/ Shutdown(t) \/ AppInit(t)
      PROVE  EntryInv'
  BY <1>3, StartingInv, ShutdownInv, AppInitInv
<1>4. RestartWork \/ RestartDone => EntryInv'
  BY StartingInv, RemainingInv
<1>5. PowerLoss => EntryInv'
  BY PowerLossInv
<1>6. ASSUME NEW t \in Threads, NEW n \in Names, PowerLossInInstall(t, n)
      PROVE  EntryInv'
  BY <1>6, PowerLossInInstallInv
<1>7. (\E k \in ContainerIds : ContainerEnds(k)) \/ UNCHANGED vars => EntryInv'
  BY RemainingInv
<1> QED
  BY <1>1, <1>2, <1>3, <1>4, <1>5, <1>6, <1>7 DEF Next

\* Every variable keeps its type, the binary of every app, installed now or
\* after the next boot, is on disk unless its own last write was refused there,
\* and an app in ERROR that restarts automatically has a retry left: whatever
\* app_manager.c's calls, restarts, failures and power losses do, and for every
\* size of the registry.
THEOREM EntriesCorrect == Spec => [](TypeOK /\ BinaryPresent /\ ErrorHasRetryLeft)
<1>1. Spec => []EntryInv
  BY InitInv, NextInv, PTL DEF Spec
<1> QED
  BY <1>1, EntryInvImplies, PTL

\* The variables of the App Manager keep their types: slots, states, container
\* numbers and crash counts stay in range through every call and fault.
THEOREM TypeCorrect == Spec => []TypeOK
BY EntriesCorrect, PTL

\* An app in ERROR that restarts automatically has a retry left: set_app_state
\* makes it FAILED as soon as the crash count reaches max_retries.
THEOREM RetriesLeft == Spec => []ErrorHasRetryLeft
BY EntriesCorrect, PTL

-----------------------------------------------------------------------------
(* The invariant.  The three properties depend on each other: a container   *)
(* that an update destroys belongs to no other entry because no name is     *)
(* installed twice.                                                         *)

Own(r, c) ==
  \A s \in Named(r) : r[s].cid >= 0 => c[r[s].cid].owner = r[s].name

Good(r, c) ==
  /\ UniqueNames(r)
  /\ Own(r, c)
  /\ Cardinality(Running(r)) <= MaxRunning

\* What a boot brings back neither runs nor has a container.
FileOK(f) ==
  /\ UniqueNames(f)
  /\ \A s \in Slots : /\ f[s].state # "RUNNING"
                      /\ f[s].name # NoName => f[s].cid = -1

AppInv == EntryInv /\ Good(g_registry, containers) /\ FileOK(flash.entries)

\* The inductive invariant implies the properties checked.
LEMMA AppInvImplies == AppInv => RegistrySound
BY DEF AppInv, Good, FileOK, Own, RegistrySound, NamesUnique, RunningWithinLimit, ContainerIsOwn

\* Fewer running entries are within the limit, and so is one more when
\* running_count was below it.
LEMMA RunningGrows ==
  ASSUME NEW r, NEW q, NEW s \in Slots,
         Cardinality(Running(r)) <= MaxRunning,
         \/ Running(q) \subseteq Running(r)
         \/ CanRun(r) /\ Running(q) \subseteq Running(r) \cup {s}
  PROVE  Cardinality(Running(q)) <= MaxRunning
<1>1. IsFiniteSet(Running(r)) /\ IsFiniteSet(Running(q))
  <2>1. Running(r) \subseteq Slots /\ Running(q) \subseteq Slots
    BY DEF Running
  <2> QED
    BY <2>1, SlotsFinite, FS_Subset
<1>2. /\ Cardinality(Running(r)) \in Nat /\ Cardinality(Running(q)) \in Nat
      /\ MaxRunning \in Nat
  BY <1>1, FS_CardinalityType, SizesAssumption
<1>3. CASE Running(q) \subseteq Running(r)
  BY <1>1, <1>2, <1>3, FS_Subset
<1>4. CASE CanRun(r) /\ Running(q) \subseteq Running(r) \cup {s}
  <2>1. /\ IsFiniteSet(Running(r) \cup {s})
        /\ Cardinality(Running(r) \cup {s}) <= Cardinality(Running(r)) + 1
        /\ Cardinality(Running(r) \cup {s}) \in Nat
    <3> DEFINE A == Running(r)
    <3>1. IsFiniteSet(A) /\ Cardinality(A) \in Nat
      BY <1>1, <1>2
    <3> HIDE DEF A
    <3>2. /\ IsFiniteSet(A \cup {s})
          /\ Cardinality(A \cup {s}) = IF s \in A THEN Cardinality(A)
                                                 ELSE Cardinality(A) + 1
      BY <3>1, FS_AddElement
    <3>3. Cardinality(A \cup {s}) \in Nat /\ Cardinality(A \cup {s}) <= Cardinality(A) + 1
      BY <3>1, <3>2
    <3> QED
      BY <3>2, <3>3 DEF A
  <2>2. Cardinality(Running(q)) <= Cardinality(Running(r) \cup {s})
    BY <1>4, <2>1, FS_Subset
  <2> QED
    BY <1>2, <1>4, <2>1, <2>2 DEF CanRun
<1> QED
  BY <1>3, <1>4

\* A registry with one entry replaced.
Replaced(r, s, e) == [r EXCEPT ![s] = e]

\* Replacing one entry keeps the registry good: the entry keeps its name,
\* gives it up or takes an unused one, it starts to run only below the limit,
\* its container is its own, and those of the others are left alone.
LEMMA ReplacedGood ==
  ASSUME NEW r \in Registries, NEW c, NEW d, Good(r, c),
         NEW s \in Slots, NEW e \in Entry,
         e.name \in {r[s].name, NoName} \/ SlotsOf(r, e.name) = {},
         e.state # "RUNNING" \/ r[s].state = "RUNNING" \/ CanRun(r),
         e.name # NoName /\ e.cid >= 0 => d[e.cid].owner = e.name,
         \A u \in Named(r) \ {s} :
           r[u].cid >= 0 => d[r[u].cid].owner = c[r[u].cid].owner
  PROVE  Good(Replaced(r, s, e), d)
<1> DEFINE q == Replaced(r, s, e)
<1>1. q[s] = e /\ \A u \in Slots \ {s} : q[u] = r[u]
  BY DEF Registries, Replaced
<1> HIDE DEF q
<1>2. \A u \in Slots \ {s} : u \in Named(q) <=> u \in Named(r)
  BY <1>1 DEF Named
<1>3. UniqueNames(q)
  <2> SUFFICES ASSUME NEW u \in Named(q), NEW v \in Named(q), u # v,
                      q[u].name = q[v].name
               PROVE  FALSE
    BY DEF UniqueNames
  <2>1. u \in Slots /\ v \in Slots /\ q[u].name # NoName
    BY DEF Named
  <2>2. CASE u # s /\ v # s
    BY <1>1, <1>2, <2>1, <2>2 DEF Good, UniqueNames
  <2>3. ASSUME NEW w \in Slots, w # s, q[w].name = e.name, e.name # NoName
        PROVE  FALSE
    <3>1. r[w].name = e.name /\ w \in Named(r)
      BY <1>1, <2>3 DEF Named
    <3>2. CASE e.name = r[s].name
      <4>1. s \in Named(r)
        BY <2>3, <3>2 DEF Named
      <4> QED
        BY <2>3, <3>1, <3>2, <4>1 DEF Good, UniqueNames
    <3>3. CASE SlotsOf(r, e.name) = {}
      BY <3>1, <3>3 DEF SlotsOf
    <3> QED
      BY <2>3, <3>2, <3>3
  <2> QED
    BY <1>1, <2>1, <2>2, <2>3
<1>4. Own(q, d)
  <2> SUFFICES ASSUME NEW u \in Named(q), q[u].cid >= 0
               PROVE  d[q[u].cid].owner = q[u].name
    BY DEF Own
  <2>1. u \in Slots /\ q[u].name # NoName
    BY DEF Named
  <2>2. CASE u = s
    BY <1>1, <2>1, <2>2
  <2>3. CASE u # s
    BY <1>1, <1>2, <2>1, <2>3 DEF Good, Own
  <2> QED
    BY <2>2, <2>3
<1>5. \/ Running(q) \subseteq Running(r)
      \/ CanRun(r) /\ Running(q) \subseteq Running(r) \cup {s}
  BY <1>1 DEF Running
<1>6. Cardinality(Running(q)) <= MaxRunning
  BY <1>5, RunningGrows DEF Good
<1> QED
  BY <1>3, <1>4, <1>6 DEF Good, q

LEMMA ReplaceGood ==
  ASSUME NEW r \in Registries, NEW c, NEW d, Good(r, c),
         NEW s \in Slots, NEW e \in Entry,
         e.name \in {r[s].name, NoName} \/ SlotsOf(r, e.name) = {},
         e.state # "RUNNING" \/ r[s].state = "RUNNING" \/ CanRun(r),
         e.name # NoName /\ e.cid >= 0 => d[e.cid].owner = e.name,
         \A u \in Named(r) \ {s} :
           r[u].cid >= 0 => d[r[u].cid].owner = c[r[u].cid].owner
  PROVE  Good([r EXCEPT ![s] = e], d)
<1>1. Good(Replaced(r, s, e), d)
  BY ReplacedGood, SMTT(30)
<1> QED
  BY <1>1 DEF Replaced

\* Two installed apps never share a container.
LEMMA OthersContainer ==
  ASSUME NEW r, NEW c, Good(r, c), NEW s \in Named(r), NEW u \in Named(r) \ {s},
         r[s].cid >= 0, r[u].cid >= 0
  PROVE  r[u].cid # r[s].cid
BY DEF Good, Own, UniqueNames

\* Stopping a container keeps every owner, destroying it keeps the others'.
LEMMA OwnersKept ==
  ASSUME NEW c \in ContainerTables, NEW k \in ContainerIds, NEW j \in ContainerIds
  PROVE  /\ \A d \in StopOutcomes(c, k) : d[j].owner = c[j].owner
         /\ j # k => \A d \in DestroyOutcomes(c, k) : d[j].owner = c[j].owner
         /\ j # k => \A d \in StopAndDestroy(c, k) : d[j].owner = c[j].owner
<1>1. \A b \in ContainerTables :
        /\ \A d \in StopOutcomes(b, k) : d[j].owner = b[j].owner
        /\ j # k => \A d \in DestroyOutcomes(b, k) : d[j].owner = b[j].owner
  BY DEF StopOutcomes, DestroyOutcomes, ContainerTables, Container
<1>2. StopOutcomes(c, k) \subseteq ContainerTables
  BY ContainerTypes
<1> QED
  BY <1>1, <1>2 DEF StopAndDestroy

-----------------------------------------------------------------------------
(* The registry file.                                                       *)

\* registry_save of a good registry writes a good file.
LEMMA SavedFile ==
  ASSUME NEW r \in Registries, UniqueNames(r), NEW c
  PROVE  FileOK(Saved(r, c).entries)
<1> DEFINE at(i) == CHOOSE s \in Named(r) : Rank(r, s) = i
           f == Packed(r)
<1>1. \A e \in Entry : /\ Persisted(e).name = e.name /\ Persisted(e).cid = -1
                       /\ Persisted(e).state # "RUNNING"
  BY DEF Persisted, Entry
<1>2. ASSUME NEW i \in Slots, \E s \in Named(r) : Rank(r, s) = i
      PROVE  /\ at(i) \in Named(r) /\ Rank(r, at(i)) = i
             /\ f[i].name = r[at(i)].name /\ f[i].cid = -1
             /\ f[i].state # "RUNNING"
  <2>1. at(i) \in Named(r) /\ Rank(r, at(i)) = i
    BY <1>2
  <2>2. f[i] = Persisted(r[at(i)])
    BY <1>2 DEF Packed
  <2>3. r[at(i)] \in Entry
    BY <2>1 DEF Named, Registries
  <2> HIDE DEF at, f
  <2> QED
    BY <1>1, <2>1, <2>2, <2>3
<1>3. ASSUME NEW i \in Slots, ~ \E s \in Named(r) : Rank(r, s) = i
      PROVE  f[i].name = NoName /\ f[i].state # "RUNNING"
  BY <1>3 DEF Packed, EmptyEntry
<1>4. UniqueNames(f)
  <2> SUFFICES ASSUME NEW i \in Named(f), NEW j \in Named(f), f[i].name = f[j].name
               PROVE  i = j
    BY DEF UniqueNames
  <2>1. i \in Slots /\ j \in Slots /\ f[i].name # NoName /\ f[j].name # NoName
    BY DEF Named
  <2> HIDE DEF f, at
  <2>2. /\ at(i) \in Named(r) /\ Rank(r, at(i)) = i /\ f[i].name = r[at(i)].name
        /\ at(j) \in Named(r) /\ Rank(r, at(j)) = j /\ f[j].name = r[at(j)].name
    BY <1>2, <1>3, <2>1
  <2>3. at(i) = at(j)
    BY <2>2 DEF UniqueNames
  <2> QED
    BY <2>2, <2>3
<1>5. Saved(r, c).entries = f
  BY DEF Saved
<1> HIDE DEF f, at
<1> QED
  BY <1>2, <1>3, <1>4, <1>5 DEF FileOK

\* A registry that starts empty is good.
LEMMA NoRegistryFile == FileOK(NoRegistry.entries)
<1>1. \A s \in Slots : /\ NoRegistry.entries[s].state = "NEW"
                       /\ NoRegistry.entries[s].name = NoName
  BY DEF NoRegistry, EmptyRegistry, EmptyEntry
<1>2. UniqueNames(NoRegistry.entries)
  BY <1>1 DEF UniqueNames, Named
<1> QED
  BY <1>1, <1>2 DEF FileOK

\* registry_save, done or refused, leaves a good file.
LEMMA SaveFile ==
  ASSUME FileOK(flash.entries), NEW r \in Registries, UniqueNames(r), NEW c,
         NEW f \in 0 .. MaxFaults, RegistrySave(r, c, f)
  PROVE  FileOK(flash'.entries)
BY SavedFile, SaveCases, NoRegistryFile

\* registry_load of a good file yields a good registry, whatever containers
\* there are.
LEMMA LoadedGood ==
  ASSUME NEW f, FileOK(f.entries), NEW c
  PROVE  Good(LoadedRegistry(f), c)
<1> DEFINE r == LoadedRegistry(f)
<1>1. \A s \in Slots : r[s] = f.entries[s] \/ r[s] = EmptyEntry
  BY DEF LoadedRegistry
<1> HIDE DEF r
<1>2. \A s \in Named(r) : s \in Slots /\ r[s] = f.entries[s]
                          /\ s \in Named(f.entries)
  BY <1>1 DEF Named, EmptyEntry
<1>3. UniqueNames(r)
  BY <1>2 DEF FileOK, UniqueNames
<1>4. Own(r, c)
  <2>1. \A s \in Named(r) : r[s].cid = -1
    BY <1>2 DEF FileOK, Named
  <2> QED
    BY <2>1 DEF Own
<1>5. Running(r) = {}
  BY <1>1 DEF Running, EmptyEntry, FileOK
<1>6. Cardinality(Running(r)) <= MaxRunning
  BY <1>5, FS_EmptySet, SizesAssumption
<1> QED
  BY <1>3, <1>4, <1>6 DEF Good, r

-----------------------------------------------------------------------------
(* The calls and the work queue preserve the invariant.                     *)

\* What the invariant says of every entry's container.
LEMMA EntryContainers ==
  ASSUME EntryInv
  PROVE  /\ g_registry \in Registries /\ flash.entries \in Registries
         /\ faults \in 0 .. MaxFaults
         /\ containers \in ContainerTables
         /\ \A u \in Slots : g_registry[u] \in Entry
         /\ \A u \in Slots : g_registry[u].cid >= 0 => g_registry[u].cid \in ContainerIds
BY EntryFields DEF EntryInv, RegistryOK, EntryOK, ContainerIds

\* app_manager_install.
LEMMA InstallGood ==
  ASSUME AppInv, NEW t \in Threads, NEW n \in Names,
         NEW m \in RestartConfigs, NEW p \in Preloads, Install(t, n, m, p)
  PROVE  Good(g_registry', containers') /\ FileOK(flash'.entries)
<1> DEFINE new == SlotsOf(g_registry, n) = {}
           s == IF new THEN FreeSlot(g_registry) ELSE FindApp(g_registry, n)
           e == Prepared(s, n, new)
           b == SavedBinary(s, n, new)
           k == g_registry[s].cid
           c == IF new THEN g_app_count + 1 ELSE g_app_count
           ok == [g_registry EXCEPT ![s] = InstalledEntry(e, n, m, p)]
           failed == [g_registry EXCEPT ![s] = FailedEntry(e)]
<1>1. EntryInv /\ Good(g_registry, containers) /\ FileOK(flash.entries)
  BY DEF AppInv
<1>2. /\ new \in BOOLEAN /\ (new => Named(g_registry) # Slots)
      /\ containers' \in
           IF new \/ k < 0 THEN {containers}
           ELSE IF g_registry[s].state = "RUNNING"
                  THEN StopAndDestroy(containers, k)
                  ELSE DestroyOutcomes(containers, k)
      /\ \/ g_registry' = ok /\ \E f \in 0 .. MaxFaults : RegistrySave(ok, c, f)
         \/ g_registry' = failed /\ UNCHANGED flash
  <2>1. faults \in 0 .. MaxFaults
    BY <1>1, EntryContainers
  <2>2. \A f : SaveBinary(b, TRUE, f) => f \in 0 .. MaxFaults
    BY <2>1 DEF SaveBinary
  <2>3. \E f \in faults .. faults + 1 :
          \/ SaveBinary(b, TRUE, f) /\ g_registry' = ok /\ RegistrySave(ok, c, f)
          \/ g_registry' = failed /\ UNCHANGED flashVars
    BY DEF Install
  <2>4. \/ g_registry' = ok /\ \E f \in 0 .. MaxFaults : RegistrySave(ok, c, f)
        \/ g_registry' = failed /\ UNCHANGED flash
    <3> HIDE DEF ok, failed, b, c
    <3> QED
      BY <2>2, <2>3 DEF flashVars
  <2>5. /\ new \in BOOLEAN /\ (new => Named(g_registry) # Slots)
        /\ containers' \in
             IF new \/ k < 0 THEN {containers}
             ELSE IF g_registry[s].state = "RUNNING"
                    THEN StopAndDestroy(containers, k)
                    ELSE DestroyOutcomes(containers, k)
    BY DEF Install
  <2> HIDE DEF ok, failed, b, c, k, new, s
  <2> QED
    BY <2>4, <2>5
<1>3. /\ s \in Slots
      /\ EntryOK(InstalledEntry(e, n, m, p), Kept \cup {SavedBinary(s, n, new)})
      /\ EntryOK(FailedEntry(e), Kept)
  BY <1>1, <1>2, InstallFacts
<1>4. ~new => g_registry[s].name = n /\ s \in Named(g_registry)
  BY <1>3, FindAppFinds, NamesAssumption DEF Named
<1>5. /\ InstalledEntry(e, n, m, p) \in Entry /\ FailedEntry(e) \in Entry
      /\ InstalledEntry(e, n, m, p).name = n
      /\ InstalledEntry(e, n, m, p).cid = -1
      /\ InstalledEntry(e, n, m, p).state = "INSTALLED"
  BY <1>3 DEF EntryOK, InstalledEntry
<1>6. FailedEntry(e).name = NoName /\ FailedEntry(e).state = g_registry[s].state
  <2> DEFINE old == g_registry[s]
  <2>1. old \in Entry
    BY <1>1, <1>3, EntryContainers
  <2>2. e = IF new THEN [old EXCEPT !.id = s, !.name = n] ELSE [old EXCEPT !.cid = -1]
    BY DEF Prepared
  <2> HIDE DEF old, new, s, e
  <2> QED
    BY <2>1, <2>2 DEF FailedEntry, Entry, old
<1>7. \A u \in Named(g_registry) \ {s} :
        g_registry[u].cid >= 0 =>
          containers'[g_registry[u].cid].owner = containers[g_registry[u].cid].owner
  <2> SUFFICES ASSUME NEW u \in Named(g_registry) \ {s}, g_registry[u].cid >= 0
               PROVE  containers'[g_registry[u].cid].owner
                        = containers[g_registry[u].cid].owner
    OBVIOUS
  <2>1. u \in Slots /\ g_registry[u].cid \in ContainerIds
    BY <1>1, EntryContainers DEF Named
  <2>2. CASE new \/ k < 0
    BY <1>2, <2>2
  <2>3. CASE ~new /\ ~(k < 0)
    <3>1. k \in -1 .. MaxContainers - 1 /\ k >= 0 /\ k \in ContainerIds
      BY <1>1, <1>3, <2>3, EntryContainers, EntryFields DEF ContainerIds
    <3>2. g_registry[u].cid # k
      BY <1>1, <1>4, <2>3, <3>1, OthersContainer
    <3>3. containers \in ContainerTables
      BY <1>1, EntryContainers
    <3> HIDE DEF k
    <3> QED
      BY <1>2, <2>1, <2>3, <3>1, <3>2, <3>3, OwnersKept
  <2> QED
    BY <2>2, <2>3
<1>8. g_registry \in Registries
  BY <1>1, EntryContainers
<1>9. n \in {g_registry[s].name, NoName} \/ SlotsOf(g_registry, n) = {}
  BY <1>4
<1>13. Good(g_registry, containers) /\ s \in Slots
  BY <1>1, <1>3
<1> HIDE DEF s, e, k, c
<1>10. Good(ok, containers')
  <2> DEFINE x == InstalledEntry(e, n, m, p)
  <2>1. /\ x \in Entry
        /\ x.name \in {g_registry[s].name, NoName} \/ SlotsOf(g_registry, x.name) = {}
        /\ x.state # "RUNNING" \/ g_registry[s].state = "RUNNING" \/ CanRun(g_registry)
        /\ x.name # NoName /\ x.cid >= 0 => containers'[x.cid].owner = x.name
    BY <1>5, <1>9
  <2> HIDE DEF x
  <2>2. Good([g_registry EXCEPT ![s] = x], containers')
    <3>1. Good(Replaced(g_registry, s, x), containers')
      BY <1>7, <1>8, <1>13, <2>1, ReplacedGood
    <3> QED
      BY <3>1 DEF Replaced
  <2> QED
    BY <2>2 DEF x
<1>11. Good(failed, containers')
  <2> DEFINE x == FailedEntry(e)
  <2>1. /\ x \in Entry
        /\ x.name \in {g_registry[s].name, NoName} \/ SlotsOf(g_registry, x.name) = {}
        /\ x.state # "RUNNING" \/ g_registry[s].state = "RUNNING" \/ CanRun(g_registry)
        /\ x.name # NoName /\ x.cid >= 0 => containers'[x.cid].owner = x.name
    BY <1>5, <1>6
  <2> HIDE DEF x
  <2>2. Good([g_registry EXCEPT ![s] = x], containers')
    <3>1. Good(Replaced(g_registry, s, x), containers')
      BY <1>7, <1>8, <1>13, <2>1, ReplacedGood
    <3> QED
      BY <3>1 DEF Replaced
  <2> QED
    BY <2>2 DEF x
<1>12. ok \in Registries
  BY <1>3, <1>5, <1>8 DEF Registries
<1> HIDE DEF ok, failed
<1> QED
  BY <1>1, <1>2, <1>10, <1>11, <1>12, SaveFile, EntryContainers DEF Good

\* app_manager_uninstall.
LEMMA UninstallGood ==
  ASSUME AppInv, NEW t \in Threads, NEW n \in Names, Uninstall(t, n)
  PROVE  Good(g_registry', containers') /\ FileOK(flash'.entries)
<1> DEFINE s == FindApp(g_registry, n)
           k == g_registry[s].cid
           r == [g_registry EXCEPT ![s] = EmptyEntry]
<1>1. EntryInv /\ Good(g_registry, containers) /\ FileOK(flash.entries)
  BY DEF AppInv
<1>2. /\ SlotsOf(g_registry, n) # {}
      /\ containers' \in IF k < 0 THEN {containers}
                           ELSE StopAndDestroy(containers, k)
      /\ g_registry' = r /\ RegistrySave(r, g_app_count', faults)
  BY DEF Uninstall
<1>3. s \in Slots /\ g_registry[s].name = n /\ s \in Named(g_registry)
  BY <1>2, FindAppFinds, NamesAssumption DEF Named
<1>4. g_registry \in Registries /\ containers \in ContainerTables
  BY <1>1, EntryContainers
<1>5. \A u \in Named(g_registry) \ {s} :
        g_registry[u].cid >= 0 =>
          containers'[g_registry[u].cid].owner = containers[g_registry[u].cid].owner
  <2> SUFFICES ASSUME NEW u \in Named(g_registry) \ {s}, g_registry[u].cid >= 0
               PROVE  containers'[g_registry[u].cid].owner
                        = containers[g_registry[u].cid].owner
    OBVIOUS
  <2>1. u \in Slots /\ g_registry[u].cid \in ContainerIds
    BY <1>1, EntryContainers DEF Named
  <2>2. CASE k < 0
    BY <1>2, <2>2
  <2>3. CASE ~(k < 0)
    <3>1. k \in -1 .. MaxContainers - 1 /\ k >= 0 /\ k \in ContainerIds
      BY <1>1, <1>3, <2>3, EntryContainers, EntryFields DEF ContainerIds
    <3>2. g_registry[u].cid # k
      BY <1>1, <1>3, <3>1, OthersContainer
    <3> HIDE DEF k
    <3> QED
      BY <1>2, <1>4, <2>1, <2>3, <3>1, <3>2, OwnersKept
  <2> QED
    BY <2>2, <2>3
<1>6. /\ EmptyEntry \in Entry /\ EmptyEntry.name = NoName
      /\ EmptyEntry.state # "RUNNING"
  BY EmptyEntryType DEF EmptyEntry
<1> HIDE DEF s, k
<1>7. Good(r, containers')
  BY <1>1, <1>3, <1>4, <1>5, <1>6, ReplaceGood
<1>8. r \in Registries
  BY <1>3, <1>4, <1>6 DEF Registries
<1> HIDE DEF r
<1> QED
  BY <1>1, <1>2, <1>7, <1>8, SaveFile, EntryContainers DEF Good

\* The locked part of app_manager_start, for any caller.
LEMMA StartLockedGood ==
  ASSUME AppInv, NEW p \in Procs, NEW n \in Names, StartLocked(p, n)
  PROVE  Good(g_registry', containers') /\ FileOK(flash'.entries)
<1> DEFINE found == SlotsOf(g_registry, n) # {}
           s == FindApp(g_registry, n)
           e == g_registry[s]
           reset == IF e.state = "FAILED" THEN [e EXCEPT !.crash = 0] ELSE e
           halted(k) == [reset EXCEPT !.cid = k]
           running(k) == [reset EXCEPT !.cid = k, !.state = "RUNNING"]
<1>1. EntryInv /\ Good(g_registry, containers) /\ FileOK(flash.entries)
  BY DEF AppInv
<1>2. g_registry \in Registries /\ containers \in ContainerTables
  BY <1>1, EntryContainers
<1>3. \/ UNCHANGED <<g_registry, containers, flash>>
      \/ /\ found /\ e.state # "RUNNING"
         /\ g_registry' = [g_registry EXCEPT ![s] = reset]
         /\ UNCHANGED <<containers, flash>>
      \/ /\ found /\ e.state # "RUNNING" /\ CanRun(g_registry)
         /\ \E k \in ContainerIds :
              /\ IF e.cid >= 0 THEN k = e.cid ELSE containers[k] = FreeContainer
              /\ \/ /\ g_registry' = [g_registry EXCEPT ![s] = running(k)]
                    /\ containers' = [containers EXCEPT
                         ![k] = [owner |-> n, status |-> "running"]]
                    /\ RegistrySave(g_registry', g_app_count, faults)
                 \/ /\ g_registry' = [g_registry EXCEPT ![s] = halted(k)]
                    /\ \E st \in {"halted", containers[k].status} :
                         containers' = [containers EXCEPT
                           ![k] = [owner |-> n, status |-> st]]
                    /\ UNCHANGED flash
  BY DEF StartLocked, storageVars, flashVars
<1>4. ASSUME found
      PROVE  /\ s \in Slots /\ s \in Named(g_registry) /\ e \in Entry /\ e.name = n
             /\ reset \in Entry /\ reset.name = n /\ reset.state = e.state
             /\ reset.cid = e.cid
  <2>1. s \in Slots /\ s \in Named(g_registry) /\ e \in Entry /\ e.name = n
    BY <1>1, <1>4, FindAppFinds, EntryContainers, NamesAssumption DEF Named
  <2> HIDE DEF e
  <2>2. /\ [e EXCEPT !.crash = 0] \in Entry /\ [e EXCEPT !.crash = 0].name = e.name
        /\ [e EXCEPT !.crash = 0].state = e.state
        /\ [e EXCEPT !.crash = 0].cid = e.cid
    BY <2>1 DEF Entry
  <2> QED
    BY <2>1, <2>2
<1>5. ASSUME found, NEW k \in ContainerIds
      PROVE  /\ halted(k) \in Entry /\ halted(k).name = n /\ halted(k).cid = k
             /\ halted(k).state = e.state
             /\ running(k) \in Entry /\ running(k).name = n /\ running(k).cid = k
  <2>1. reset \in Entry /\ reset.name = n /\ reset.state = e.state
        /\ k \in -1 .. MaxContainers - 1 /\ "RUNNING" \in States
    BY <1>4, <1>5 DEF ContainerIds, States
  <2> HIDE DEF reset
  <2> QED
    BY <2>1 DEF Entry
<1>6. ASSUME found, e.state # "RUNNING",
             g_registry' = [g_registry EXCEPT ![s] = reset],
             UNCHANGED <<containers, flash>>
      PROVE  Good(g_registry', containers') /\ FileOK(flash'.entries)
  <2>1. e.cid >= 0 => containers[e.cid].owner = n
    BY <1>1, <1>4, <1>6 DEF Good, Own
  <2> HIDE DEF s, reset
  <2>2. Good([g_registry EXCEPT ![s] = reset], containers)
    BY <1>1, <1>2, <1>4, <1>6, <2>1, ReplaceGood
  <2> QED
    BY <1>1, <1>6, <2>2
<1>7. ASSUME found, NEW k \in ContainerIds, NEW st,
             IF e.cid >= 0 THEN k = e.cid ELSE containers[k] = FreeContainer,
             containers' = [containers EXCEPT ![k] = [owner |-> n, status |-> st]]
      PROVE  /\ containers'[k].owner = n
             /\ \A u \in Named(g_registry) \ {s} :
                  g_registry[u].cid >= 0 =>
                    containers'[g_registry[u].cid].owner
                      = containers[g_registry[u].cid].owner
  <2>1. containers'[k].owner = n
        /\ \A j \in ContainerIds \ {k} : containers'[j] = containers[j]
    BY <1>2, <1>7 DEF ContainerTables
  <2>2. ASSUME NEW u \in Named(g_registry) \ {s}, g_registry[u].cid >= 0
        PROVE  g_registry[u].cid \in ContainerIds \ {k}
    <3>1. u \in Slots /\ g_registry[u].name # NoName
          /\ g_registry[u].cid \in ContainerIds
      BY <1>1, <2>2, EntryContainers DEF Named
    <3>2. containers[g_registry[u].cid].owner = g_registry[u].name
      BY <1>1, <2>2 DEF Good, Own
    <3>3. CASE e.cid >= 0
      BY <1>1, <1>4, <1>7, <2>2, <3>1, <3>3, OthersContainer
    <3>4. CASE ~(e.cid >= 0)
      BY <1>7, <3>1, <3>2, <3>4 DEF FreeContainer
    <3> QED
      BY <3>3, <3>4
  <2> QED
    BY <2>1, <2>2
<1>8. ASSUME found, CanRun(g_registry), NEW k \in ContainerIds,
             IF e.cid >= 0 THEN k = e.cid ELSE containers[k] = FreeContainer,
             g_registry' = [g_registry EXCEPT ![s] = running(k)],
             containers' = [containers EXCEPT
               ![k] = [owner |-> n, status |-> "running"]],
             RegistrySave(g_registry', g_app_count, faults)
      PROVE  Good(g_registry', containers') /\ FileOK(flash'.entries)
  <2> DEFINE e2 == running(k)
  <2>1. Good([g_registry EXCEPT ![s] = e2], containers')
    <3>1. /\ s \in Slots /\ g_registry[s].name = n
          /\ e2 \in Entry /\ e2.name = n /\ e2.cid = k
      BY <1>4, <1>5, <1>8
    <3>2. /\ containers'[k].owner = n
          /\ \A u \in Named(g_registry) \ {s} :
               g_registry[u].cid >= 0 =>
                 containers'[g_registry[u].cid].owner
                   = containers[g_registry[u].cid].owner
      BY <1>7, <1>8
    <3>3. CanRun(g_registry)
      BY <1>8
    <3> HIDE DEF s, e2
    <3> QED
      BY <1>1, <1>2, <3>1, <3>2, <3>3, ReplaceGood
  <2> HIDE DEF s, running
  <2>2. g_registry' \in Registries
    BY <1>2, <1>4, <1>5, <1>8 DEF Registries
  <2> QED
    BY <1>1, <1>8, <2>1, <2>2, SaveFile, EntryContainers DEF Good
<1>9. ASSUME found, e.state # "RUNNING", NEW k \in ContainerIds, NEW st,
             IF e.cid >= 0 THEN k = e.cid ELSE containers[k] = FreeContainer,
             g_registry' = [g_registry EXCEPT ![s] = halted(k)],
             containers' = [containers EXCEPT ![k] = [owner |-> n, status |-> st]],
             UNCHANGED flash
      PROVE  Good(g_registry', containers') /\ FileOK(flash'.entries)
  <2> DEFINE e2 == halted(k)
  <2>1. Good([g_registry EXCEPT ![s] = e2], containers')
    <3>1. /\ s \in Slots /\ g_registry[s].name = n
          /\ e2 \in Entry /\ e2.name = n /\ e2.cid = k /\ e2.state # "RUNNING"
      BY <1>4, <1>5, <1>9
    <3>2. /\ containers'[k].owner = n
          /\ \A u \in Named(g_registry) \ {s} :
               g_registry[u].cid >= 0 =>
                 containers'[g_registry[u].cid].owner
                   = containers[g_registry[u].cid].owner
      BY <1>7, <1>9
    <3> HIDE DEF s, e2
    <3> QED
      BY <1>1, <1>2, <3>1, <3>2, ReplaceGood
  <2> HIDE DEF s, halted
  <2> QED
    BY <1>1, <1>9, <2>1
<1>10. CASE UNCHANGED <<g_registry, containers, flash>>
  BY <1>1, <1>10
<1> HIDE DEF found, s, e, reset, halted, running
<1> QED
  BY <1>3, <1>6, <1>8, <1>9, <1>10

\* app_manager_stop.
LEMMA StopGood ==
  ASSUME AppInv, NEW t \in Threads, NEW n \in Names, Stop(t, n)
  PROVE  Good(g_registry', containers') /\ FileOK(flash'.entries)
<1> DEFINE s == FindApp(g_registry, n)
           old == g_registry[s]
           k == old.cid
           e == [old EXCEPT !.state = "STOPPED"]
           r == [g_registry EXCEPT ![s].state = "STOPPED"]
<1>1. EntryInv /\ Good(g_registry, containers) /\ FileOK(flash.entries)
  BY DEF AppInv
<1>2. g_registry \in Registries /\ containers \in ContainerTables
  BY <1>1, EntryContainers
<1>3. /\ SlotsOf(g_registry, n) # {} /\ k >= 0
      /\ containers' = [containers EXCEPT ![k].status = "halted"]
      /\ g_registry' = r /\ RegistrySave(r, g_app_count, faults)
  BY DEF Stop
<1>4. /\ s \in Slots /\ s \in Named(g_registry) /\ old \in Entry /\ old.name = n
      /\ k \in ContainerIds
  BY <1>1, <1>3, FindAppFinds, EntryContainers, NamesAssumption DEF Named
<1>5. /\ e \in Entry /\ e.name = n /\ e.cid = k /\ e.state # "RUNNING"
  <2> HIDE DEF old
  <2> QED
    BY <1>4 DEF Entry, States
<1>6. \A j \in ContainerIds : containers'[j].owner = containers[j].owner
  <2> HIDE DEF k
  <2> QED
    BY <1>2, <1>3, <1>4 DEF ContainerTables, Container
<1>7. e.cid >= 0 => containers'[e.cid].owner = n
  BY <1>1, <1>3, <1>4, <1>5, <1>6 DEF Good, Own
<1>8. \A u \in Named(g_registry) \ {s} :
        g_registry[u].cid >= 0 =>
          containers'[g_registry[u].cid].owner = containers[g_registry[u].cid].owner
  BY <1>1, <1>6, EntryContainers DEF Named
<1>9. r = [g_registry EXCEPT ![s] = e]
  OBVIOUS
<1>10. g_registry[s].name = n
  BY <1>4
<1> HIDE DEF s, k, e, old
<1>11. Good([g_registry EXCEPT ![s] = e], containers')
  <2> HIDE DEF r
  <2>1. e.name \in {g_registry[s].name, NoName}
    BY <1>5, <1>10
  <2>2. e.name # NoName /\ e.cid >= 0 => containers'[e.cid].owner = e.name
    BY <1>5, <1>7
  <2>3. Good(Replaced(g_registry, s, e), containers')
    BY <1>1, <1>2, <1>4, <1>5, <1>8, <2>1, <2>2, ReplacedGood
  <2> QED
    BY <2>3 DEF Replaced
<1>12. [g_registry EXCEPT ![s] = e] \in Registries
  BY <1>2, <1>4, <1>5 DEF Registries
<1> HIDE DEF r
<1> QED
  BY <1>1, <1>3, <1>9, <1>11, <1>12, SaveFile, EntryContainers DEF Good

\* app_manager_restart up to its unlock.
LEMMA RestartGood ==
  ASSUME AppInv, NEW t \in Threads, NEW n \in Names, Restart(t, n)
  PROVE  Good(g_registry', containers') /\ FileOK(flash'.entries)
<1> DEFINE s == FindApp(g_registry, n)
           old == g_registry[s]
           stops == old.state = "RUNNING" /\ old.cid >= 0
           e == [old EXCEPT !.crash = 0,
                            !.state = IF stops THEN "STOPPED" ELSE @]
<1>1. EntryInv /\ Good(g_registry, containers) /\ FileOK(flash.entries)
  BY DEF AppInv
<1>2. g_registry \in Registries /\ containers \in ContainerTables
  BY <1>1, EntryContainers
<1>3. /\ SlotsOf(g_registry, n) # {}
      /\ containers' \in IF stops THEN StopOutcomes(containers, old.cid)
                                  ELSE {containers}
      /\ g_registry' = [g_registry EXCEPT ![s] = e]
      /\ UNCHANGED flash
  BY DEF Restart, storageVars, flashVars
<1>4. /\ s \in Slots /\ s \in Named(g_registry) /\ old \in Entry /\ old.name = n
      /\ old.cid >= 0 => old.cid \in ContainerIds
  BY <1>1, <1>3, FindAppFinds, EntryContainers, NamesAssumption DEF Named
<1>5. /\ e \in Entry /\ e.name = n /\ e.cid = old.cid
      /\ e.state # "RUNNING" \/ g_registry[s].state = "RUNNING"
  <2>1. old.state = g_registry[s].state
    OBVIOUS
  <2> HIDE DEF old
  <2> QED
    BY <1>4, <2>1 DEF Entry, States
<1>6. \A j \in ContainerIds : containers'[j].owner = containers[j].owner
  BY <1>2, <1>3, <1>4, OwnersKept
<1>7. e.cid >= 0 => containers'[e.cid].owner = n
  BY <1>1, <1>4, <1>5, <1>6 DEF Good, Own
<1>8. \A u \in Named(g_registry) \ {s} :
        g_registry[u].cid >= 0 =>
          containers'[g_registry[u].cid].owner = containers[g_registry[u].cid].owner
  BY <1>1, <1>6, EntryContainers DEF Named
<1>9. g_registry[s].name = n
  BY <1>4
<1>10. e.state # "RUNNING" \/ g_registry[s].state = "RUNNING"
  BY <1>5
<1> HIDE DEF s, e, old, stops
<1>11. Good([g_registry EXCEPT ![s] = e], containers')
  BY <1>1, <1>2, <1>4, <1>5, <1>7, <1>8, <1>9, <1>10, ReplaceGood
<1> QED
  BY <1>1, <1>3, <1>11

\* set_app_state(ERROR) after the unlock, whatever became of the entry.
LEMMA StartFailedGood ==
  ASSUME AppInv, NEW p \in Procs, StartFailed(p)
  PROVE  Good(g_registry', containers') /\ FileOK(flash'.entries)
<1> DEFINE s == todo[p].slot
           old == g_registry[s]
           e == ErrorEntry(old)
<1>1. EntryInv /\ Good(g_registry, containers) /\ FileOK(flash.entries)
  BY DEF AppInv
<1>2. /\ UNCHANGED <<containers, flash>>
      /\ UNCHANGED g_registry \/ g_registry' = [g_registry EXCEPT ![s] = e]
  BY DEF StartFailed, storageVars, flashVars
<1>3. s \in Slots /\ old \in Entry /\ g_registry \in Registries
  BY <1>1, EntryContainers, TodoFields DEF StartFailed, EntryInv
<1>4. /\ e \in Entry /\ e.name = old.name /\ e.cid = old.cid
      /\ e.state # "RUNNING"
  <2> HIDE DEF old
  <2> DEFINE crash == IF old.auto THEN old.crash + 1 ELSE old.crash
             x == IF old.auto /\ crash >= old.max THEN "FAILED" ELSE "ERROR"
  <2>1. crash \in Nat /\ x \in States /\ x # "RUNNING"
    BY <1>3, EntryFields DEF States
  <2>2. e = [old EXCEPT !.state = x, !.crash = crash]
    BY DEF ErrorEntry
  <2> HIDE DEF crash, x, e
  <2> QED
    BY <1>3, <2>1, <2>2 DEF Entry
<1>5. old.name # NoName /\ old.cid >= 0 => containers[old.cid].owner = old.name
  BY <1>1, <1>3 DEF Good, Own, Named
<1> HIDE DEF s, e
<1>6. Good([g_registry EXCEPT ![s] = e], containers)
  BY <1>1, <1>3, <1>4, <1>5, ReplaceGood
<1> QED
  BY <1>1, <1>2, <1>6

\* app_manager_shutdown.
LEMMA ShutdownGood ==
  ASSUME AppInv, NEW t \in Threads, Shutdown(t)
  PROVE  Good(g_registry', containers') /\ FileOK(flash'.entries)
<1> DEFINE r == [s \in Slots |-> StoppedEntry(g_registry[s])]
<1>1. EntryInv /\ Good(g_registry, containers) /\ FileOK(flash.entries)
  BY DEF AppInv
<1>2. /\ g_registry' = r /\ RegistrySave(r, g_app_count, faults)
      /\ \E stopped :
           containers' = [k \in ContainerIds |->
                            IF k \in stopped
                              THEN [containers[k] EXCEPT !.status = "halted"]
                              ELSE containers[k]]
  BY DEF Shutdown
<1>3. g_registry \in Registries /\ containers \in ContainerTables
  BY <1>1, EntryContainers
<1>4. \A k \in ContainerIds : containers'[k].owner = containers[k].owner
  BY <1>2, <1>3 DEF ContainerTables, Container
<1>5. ASSUME NEW s \in Slots
      PROVE  /\ r[s] \in Entry /\ r[s].name = g_registry[s].name
             /\ r[s].cid = g_registry[s].cid
             /\ r[s].state = "RUNNING" => g_registry[s].state = "RUNNING"
  <2> DEFINE old == g_registry[s]
  <2>1. old \in Entry /\ r[s] = StoppedEntry(old)
    BY <1>1, EntryContainers
  <2> HIDE DEF old, r
  <2>2. /\ r[s] \in Entry /\ r[s].name = old.name /\ r[s].cid = old.cid
        /\ r[s].state = "RUNNING" => old.state = "RUNNING"
    BY <2>1 DEF StoppedEntry, Entry, States
  <2> QED
    BY <2>2 DEF old
<1>6. r \in Registries
  BY <1>5 DEF Registries
<1> HIDE DEF r
<1>7. Named(r) = Named(g_registry) /\ Running(r) \subseteq Running(g_registry)
  BY <1>5 DEF Named, Running
<1>8. UniqueNames(r)
  <2>1. \A s \in Named(r) : s \in Named(g_registry) /\ r[s].name = g_registry[s].name
    BY <1>5, <1>7 DEF Named
  <2> QED
    BY <1>1, <2>1 DEF Good, UniqueNames
<1>9. Own(r, containers')
  <2> SUFFICES ASSUME NEW s \in Named(r), r[s].cid >= 0
               PROVE  containers'[r[s].cid].owner = r[s].name
    BY DEF Own
  <2>1. /\ s \in Slots /\ s \in Named(g_registry) /\ r[s].cid \in ContainerIds
        /\ r[s].cid = g_registry[s].cid /\ r[s].name = g_registry[s].name
    BY <1>1, <1>5, <1>7, EntryContainers DEF Named
  <2> QED
    BY <1>1, <1>4, <2>1 DEF Good, Own
<1>10. Cardinality(Running(r)) <= MaxRunning
  <2>1. PICK s \in Slots : TRUE
    BY SizesAssumption DEF Slots
  <2> QED
    BY <1>1, <1>7, RunningGrows DEF Good
<1> QED
  BY <1>1, <1>2, <1>6, <1>8, <1>9, <1>10, SaveFile, EntryContainers DEF Good

\* app_manager_init, called again or after a loss of power.
LEMMA BootGood ==
  ASSUME AppInv, PowerUp \/ \E t \in Threads : AppInit(t)
  PROVE  Good(g_registry', containers') /\ FileOK(flash'.entries)
<1>1. FileOK(flash.entries) /\ FileOK(BootFile.entries)
  BY NoRegistryFile DEF AppInv, BootFile
<1>2. CASE PowerUp
  BY <1>1, <1>2, LoadedGood DEF PowerUp
<1>3. CASE \E t \in Threads : AppInit(t)
  BY <1>1, <1>3, LoadedGood DEF AppInit, storageVars, flashVars
<1> QED
  BY <1>2, <1>3

\* A container that ends keeps its owner.
LEMMA ContainerEndsGood ==
  ASSUME AppInv, NEW k \in ContainerIds, ContainerEnds(k)
  PROVE  Good(g_registry', containers') /\ FileOK(flash'.entries)
<1>1. EntryInv /\ Good(g_registry, containers) /\ FileOK(flash.entries)
  BY DEF AppInv
<1>2. UNCHANGED <<g_registry, flash>>
  BY DEF ContainerEnds, storageVars, flashVars
<1>3. \A j \in ContainerIds : containers'[j].owner = containers[j].owner
  BY <1>1, EntryContainers DEF ContainerEnds, ContainerTables, Container
<1>4. Own(g_registry, containers')
  <2> SUFFICES ASSUME NEW s \in Named(g_registry), g_registry[s].cid >= 0
               PROVE  containers'[g_registry[s].cid].owner = g_registry[s].name
    BY DEF Own
  <2>1. g_registry[s].cid \in ContainerIds
    BY <1>1, EntryContainers DEF Named
  <2> QED
    BY <1>1, <1>3, <2>1 DEF Good, Own
<1> QED
  BY <1>1, <1>2, <1>4 DEF Good

-----------------------------------------------------------------------------
\* The empty registry satisfies the invariant.
LEMMA InitGood == Init => AppInv
<1> SUFFICES ASSUME Init PROVE AppInv
  OBVIOUS
<1>1. EntryInv
  BY InitInv
<1>2. g_registry = EmptyRegistry /\ flash.entries = EmptyRegistry
  BY DEF Init, NoRegistry
<1>3. Named(EmptyRegistry) = {} /\ Running(EmptyRegistry) = {}
  BY DEF Named, Running, EmptyRegistry, EmptyEntry
<1>4. Good(g_registry, containers)
  BY <1>2, <1>3, FS_EmptySet, SizesAssumption DEF Good, UniqueNames, Own
<1>5. FileOK(flash.entries)
  <2>1. \A s \in Slots : EmptyRegistry[s].state = "NEW" /\ EmptyRegistry[s].name = NoName
    BY DEF EmptyRegistry, EmptyEntry
  <2>2. UniqueNames(EmptyRegistry)
    BY <1>3 DEF UniqueNames
  <2> QED
    BY <1>2, <2>1, <2>2 DEF FileOK
<1> QED
  BY <1>1, <1>4, <1>5 DEF AppInv

\* Every step preserves the invariant.
LEMMA NextGood == AppInv /\ [Next]_vars => AppInv'
<1> SUFFICES ASSUME AppInv, [Next]_vars
             PROVE  Good(g_registry', containers') /\ FileOK(flash'.entries)
  BY NextInv DEF AppInv
<1>1. ASSUME NEW t \in Threads, NEW n \in Names, Call(t, n)
      PROVE  Good(g_registry', containers') /\ FileOK(flash'.entries)
  <2>1. Start(t, n) => t \in Procs /\ StartLocked(t, n)
    BY DEF Start, Procs
  <2> QED
    BY <1>1, <2>1, InstallGood, UninstallGood, StartLockedGood, StopGood,
       RestartGood DEF Call
<1>2. ASSUME NEW t \in Threads, RestartStart(t)
      PROVE  Good(g_registry', containers') /\ FileOK(flash'.entries)
  <2>1. t \in Procs /\ todo[t].name \in Names /\ StartLocked(t, todo[t].name)
    BY <1>2, TodoFields DEF RestartStart, Procs, AppInv, EntryInv
  <2> QED
    BY <2>1, StartLockedGood
<1>3. ASSUME RestartWork
      PROVE  Good(g_registry', containers') /\ FileOK(flash'.entries)
  <2>1. CASE g_restart_app = NoName
    BY <1>3, <2>1 DEF RestartWork, AppInv, storageVars, flashVars
  <2>2. CASE g_restart_app # NoName
    <3>1. /\ WorkQueue \in Procs /\ g_restart_app \in Names
          /\ StartLocked(WorkQueue, g_restart_app)
      BY <1>3, <2>2 DEF RestartWork, Procs, AppInv, EntryInv
    <3> QED
      BY <3>1, StartLockedGood
  <2> QED
    BY <2>1, <2>2
<1>4. ASSUME RestartDone \/ UNCHANGED vars
      PROVE  Good(g_registry', containers') /\ FileOK(flash'.entries)
  BY <1>4 DEF RestartDone, vars, AppInv, storageVars, flashVars
<1>5. ASSUME \/ PowerLoss \/ \E t \in Threads : AppInit(t)
             \/ \E t \in Threads, n \in Names : PowerLossInInstall(t, n)
      PROVE  Good(g_registry', containers') /\ FileOK(flash'.entries)
  <2>1. PowerUp \/ \E t \in Threads : AppInit(t)
    BY <1>5 DEF PowerLoss, PowerLossInInstall
  <2> QED
    BY <2>1, BootGood
<1> QED
  BY <1>1, <1>2, <1>3, <1>4, <1>5, StartFailedGood, ShutdownGood,
     ContainerEndsGood DEF Next

\* No name is installed twice, in memory or in the file; at most MaxRunning
\* apps are RUNNING; and no app points at a container made for another one:
\* whatever app_manager.c's calls, automatic restarts, failed starts, refused
\* writes and power losses do, and for every size of registry and OCRE table.
THEOREM RegistryConsistent ==
  Spec => []RegistrySound
<1>1. Spec => []AppInv
  BY InitGood, NextGood, PTL DEF Spec
<1> QED
  BY <1>1, AppInvImplies, PTL
-----------------------------------------------------------------------------
(* What a boot recovers.  Durable and CountBounds depend on each other: the  *)
(* file is read back only if its header counts no more entries than it       *)
(* holds, and the header is g_app_count, which refused writes let run ahead. *)

\* The apps that are in the file come first in it, and the header counts one
\* more than there are for a refused write at most.
FileCounts(f, x) ==
  /\ \A s \in Slots : s \in Named(f.entries) <=> s <= f.num
  /\ f.num <= f.count /\ f.count <= f.num + x

RegistryCounts(r, c, x) ==
  Cardinality(Named(r)) <= c /\ c <= Cardinality(Named(r)) + x

Recovers(r, c, f, x) ==
  /\ RegistryCounts(r, c, x)
  /\ FileCounts(f, x)
  /\ x = 0 => Apps(f.entries) = Apps(r)

\* As long as no write was refused, a registry that is not on disk was never
\* written: a loss of power takes nothing away.
OnDisk == faults = 0 /\ ~flash_on_disk => flash = NoRegistry

RecoverInv ==
  EntryInv /\ Recovers(g_registry, g_app_count, flash, faults) /\ OnDisk

\* Every installed app has a place in the file, no two have the same, and no
\* place up to their number is left empty.
LEMMA RankFacts ==
  ASSUME NEW r
  PROVE  /\ \A s \in Named(r) : Rank(r, s) \in 1 .. Cardinality(Named(r))
         /\ \A s, t \in Named(r) : Rank(r, s) = Rank(r, t) => s = t
         /\ \A i \in 1 .. Cardinality(Named(r)) :
              \E s \in Named(r) : Rank(r, s) = i
<1> DEFINE N == Named(r)
           K == Cardinality(N)
           upto(s) == {u \in N : u <= s}
<1>1. N \subseteq Slots /\ N \subseteq Int /\ IsFiniteSet(N) /\ K \in Nat
  BY NamedFinite DEF Named, Slots
<1>2. \A s : Rank(r, s) = Cardinality(upto(s))
  BY DEF Rank
<1> HIDE DEF N
<1>3. ASSUME NEW s \in N
      PROVE  IsFiniteSet(upto(s)) /\ Cardinality(upto(s)) \in 1 .. K
  <2>1. upto(s) \in SUBSET N /\ s \in upto(s)
    BY <1>1, <1>3
  <2>2. /\ IsFiniteSet(upto(s)) /\ Cardinality(upto(s)) <= K
        /\ Cardinality(upto(s)) \in Nat
    BY <1>1, <2>1, FS_Subset, FS_CardinalityType
  <2>3. Cardinality(upto(s)) # 0
    BY <2>1, <2>2, FS_EmptySet
  <2> HIDE DEF upto, K
  <2> QED
    BY <1>1, <2>2, <2>3
<1>4. ASSUME NEW s \in N, NEW t \in N, s < t
      PROVE  Cardinality(upto(s)) # Cardinality(upto(t))
  <2>1. upto(s) \in SUBSET upto(t) /\ t \in upto(t) /\ t \notin upto(s)
    <3>1. s \in Int /\ t \in Int /\ \A u \in N : u \in Int
      BY <1>1
    <3>2. t <= t /\ ~(t <= s) /\ \A u \in N : u <= s => u <= t
      BY <1>4, <3>1
    <3> QED
      BY <3>2
  <2>2. IsFiniteSet(upto(t))
    BY <1>3
  <2> HIDE DEF upto
  <2> QED
    BY <2>1, <2>2, FS_Subset
<1>5. ASSUME NEW s \in N, NEW t \in N,
             Cardinality(upto(s)) = Cardinality(upto(t))
      PROVE  s = t
  <2>1. s \in Int /\ t \in Int
    BY <1>1
  <2> HIDE DEF upto
  <2> QED
    BY <1>4, <1>5, <2>1
<1>6. \A i \in 1 .. K : \E s \in N : Cardinality(upto(s)) = i
  <2> DEFINE g == [s \in N |-> Cardinality(upto(s))]
  <2>1. g \in [N -> 1 .. K] /\ \A s \in N : g[s] = Cardinality(upto(s))
    BY <1>3
  <2>2. IsFiniteSet(1 .. K) /\ Cardinality(1 .. K) = K
    BY <1>1, FS_Interval
  <2> HIDE DEF g, upto, K
  <2>3. \A s, t \in N : g[s] = g[t] => s = t
    BY <1>5, <2>1
  <2>4. g \in Injection(N, 1 .. K)
    BY <2>1, <2>3 DEF Injection, IsInjective
  <2>5. g \in Surjection(N, 1 .. K)
    <3>1. Cardinality(N) = Cardinality(1 .. K)
      BY <2>2 DEF K
    <3> QED
      BY <2>2, <2>4, <3>1, FS_Injection
  <2> QED
    BY <2>1, <2>5 DEF Surjection
<1> HIDE DEF upto, K
<1>7. /\ \A s \in N : Rank(r, s) \in 1 .. K
      /\ \A s, t \in N : Rank(r, s) = Rank(r, t) => s = t
      /\ \A i \in 1 .. K : \E s \in N : Rank(r, s) = i
  BY <1>2, <1>3, <1>5, <1>6
<1> QED
  BY <1>7 DEF N, K

\* What registry_save writes is what is installed: as many entries as apps,
\* from the first place on, each with its id and settings.
LEMMA PackedFacts ==
  ASSUME NEW r \in Registries
  PROVE  /\ \A i \in Slots : i \in Named(Packed(r)) <=> i <= Cardinality(Named(r))
         /\ Apps(Packed(r)) = Apps(r)
<1> DEFINE N == Named(r)
           K == Cardinality(N)
           f == Packed(r)
<1>1. /\ \A s \in N : Rank(r, s) \in 1 .. K
      /\ \A s, t \in N : Rank(r, s) = Rank(r, t) => s = t
      /\ \A i \in 1 .. K : \E s \in N : Rank(r, s) = i
  BY RankFacts
<1>2. K \in 0 .. MaxInstalled /\ N \subseteq Slots
  BY NamedFinite DEF Named
<1>3. \A e \in Entry : /\ Persisted(e).name = e.name
                       /\ Identity(Persisted(e)) = Identity(e)
  BY DEF Persisted, Entry, Identity
<1> HIDE DEF K
<1>4. ASSUME NEW s \in N
      PROVE  Rank(r, s) \in Slots /\ f[Rank(r, s)] = Persisted(r[s])
  <2> DEFINE i == Rank(r, s)
             c == CHOOSE t \in N : Rank(r, t) = i
  <2>1. i \in 1 .. K /\ i \in Slots
    BY <1>1, <1>2 DEF Slots
  <2>2. c \in N /\ Rank(r, c) = i
    OBVIOUS
  <2>3. c = s
    BY <1>1, <2>2
  <2>4. f[i] = Persisted(r[c])
    BY <2>1 DEF Packed
  <2> QED
    BY <2>1, <2>3, <2>4
<1>5. ASSUME NEW i \in Slots, ~ \E s \in N : Rank(r, s) = i
      PROVE  f[i] = EmptyEntry
  BY <1>5 DEF Packed
<1>6. \A s \in N : r[s] \in Entry /\ r[s].name # NoName
  BY DEF Named, Registries
<1> HIDE DEF f, N
<1>7. ASSUME NEW i \in Slots PROVE i \in Named(f) <=> i <= K
  <2>1. CASE i <= K
    <3>1. i \in 1 .. K
      BY <1>2, <2>1 DEF Slots
    <3>2. PICK s \in N : Rank(r, s) = i
      BY <1>1, <3>1
    <3>3. f[i].name # NoName
      BY <1>3, <1>4, <1>6, <3>2
    <3> QED
      BY <2>1, <3>3 DEF Named
  <2>2. CASE ~(i <= K)
    <3>1. ~ \E s \in N : Rank(r, s) = i
      BY <1>1, <1>2, <2>2 DEF Slots
    <3>2. f[i].name = NoName
      BY <1>5, <3>1 DEF EmptyEntry
    <3> QED
      BY <2>2, <3>2 DEF Named
  <2> QED
    BY <2>1, <2>2
<1>8. ASSUME NEW s \in N
      PROVE  Rank(r, s) \in Named(f) /\ Identity(f[Rank(r, s)]) = Identity(r[s])
  <2>1. f[Rank(r, s)] = Persisted(r[s]) /\ Rank(r, s) \in Slots
    BY <1>4
  <2>2. f[Rank(r, s)].name # NoName /\ Identity(f[Rank(r, s)]) = Identity(r[s])
    BY <1>3, <1>6, <2>1
  <2> QED
    BY <2>1, <2>2 DEF Named
<1>9. ASSUME NEW i \in Named(f)
      PROVE  \E s \in N : Identity(f[i]) = Identity(r[s])
  <2>1. i \in Slots /\ i <= K
    BY <1>7 DEF Named
  <2>2. PICK s \in N : Rank(r, s) = i
    BY <1>1, <1>2, <2>1 DEF Slots
  <2> QED
    BY <1>8, <2>2
<1>10. Apps(f) = Apps(r)
  BY <1>8, <1>9 DEF Apps, N
<1> QED
  BY <1>7, <1>10 DEF f, K, N

\* A registry file that holds nothing counts right, and a file that counts
\* right still does after another refused write.
LEMMA NoRegistryCounts ==
  ASSUME NEW x \in Nat
  PROVE  FileCounts(NoRegistry, x)
<1>1. /\ NoRegistry.entries = EmptyRegistry /\ NoRegistry.num = 0
      /\ NoRegistry.count = 0
  BY DEF NoRegistry
<1>2. Named(EmptyRegistry) = {}
  BY DEF Named, EmptyRegistry, EmptyEntry
<1>3. \A s \in Slots : ~(s <= 0)
  BY DEF Slots
<1> QED
  BY <1>1, <1>2, <1>3 DEF FileCounts

LEMMA CountsGrow ==
  ASSUME NEW r, NEW c \in Int, NEW f \in RegistryFiles, NEW x \in Nat
  PROVE  /\ RegistryCounts(r, c, x) => RegistryCounts(r, c, x + 1)
         /\ FileCounts(f, x) => FileCounts(f, x + 1)
<1>1. f.num \in Int /\ f.count \in Int /\ Cardinality(Named(r)) \in Nat
  BY NamedFinite DEF RegistryFiles
<1> QED
  BY <1>1 DEF RegistryCounts, FileCounts

\* registry_save writes a registry.
LEMMA PackedType ==
  ASSUME NEW r \in Registries
  PROVE  Packed(r) \in Registries
<1>1. ASSUME NEW i \in Slots PROVE Packed(r)[i] \in Entry
  <2>1. CASE \E s \in Named(r) : Rank(r, s) = i
    <3> DEFINE t == CHOOSE s \in Named(r) : Rank(r, s) = i
    <3>1. t \in Slots /\ r[t] \in Entry
      BY <2>1 DEF Named, Registries
    <3>2. Packed(r)[i] = Persisted(r[t])
      BY <2>1 DEF Packed
    <3> HIDE DEF t
    <3> DEFINE e == r[t]
    <3>3. e \in Entry
      BY <3>1
    <3> HIDE DEF e
    <3>4. /\ (IF e.state = "RUNNING" THEN "INSTALLED" ELSE e.state) \in States
          /\ -1 \in -1 .. MaxContainers - 1
      BY <3>3, EntryFields DEF States
    <3>5. Persisted(e) \in Entry
      BY <3>3, <3>4, EntryUpdates DEF Persisted
    <3> QED
      BY <3>2, <3>5 DEF e
  <2>2. CASE ~ \E s \in Named(r) : Rank(r, s) = i
    BY <2>2, EmptyEntryType DEF Packed
  <2> QED
    BY <2>1, <2>2
<1> QED
  BY <1>1 DEF Packed, Registries

\* What registry_save writes counts what the registry it is given does.
LEMMA SavedCounts ==
  ASSUME NEW r \in Registries, NEW c, NEW x, RegistryCounts(r, c, x)
  PROVE  FileCounts(Saved(r, c), x) /\ Apps(Saved(r, c).entries) = Apps(r)
<1>1. /\ Saved(r, c).entries = Packed(r) /\ Saved(r, c).count = c
      /\ Saved(r, c).num = Cardinality(Named(r))
  BY DEF Saved
<1>2. /\ \A i \in Slots : i \in Named(Packed(r)) <=> i <= Cardinality(Named(r))
      /\ Apps(Packed(r)) = Apps(r)
  BY PackedFacts
<1> QED
  BY <1>1, <1>2 DEF FileCounts, RegistryCounts

\* registry_save, done or refused, of a registry counted right.
LEMMA SaveRecovers ==
  ASSUME NEW r \in Registries, NEW c \in Int, NEW f \in 0 .. MaxFaults,
         RegistryCounts(r, c, f), FileCounts(flash, f), flash \in RegistryFiles,
         RegistrySave(r, c, f)
  PROVE  Recovers(r, c, flash', faults') /\ OnDisk'
<1> DEFINE g == Saved(r, c)
<1>1. /\ FileCounts(g, f) /\ Apps(g.entries) = Apps(r) /\ g \in RegistryFiles
      /\ FileCounts(NoRegistry, f) /\ NoRegistry \in RegistryFiles
      /\ flash' \in {flash, g, NoRegistry} /\ f \in Nat
  <2>1. g \in RegistryFiles
    <3>1. Packed(r) \in Registries
      BY PackedType
    <3> QED
      BY <3>1, NamedFinite DEF Saved, RegistryFiles
  <2>2. FileCounts(g, f) /\ Apps(g.entries) = Apps(r)
    BY SavedCounts, Zenon
  <2>3. f \in Nat /\ flash' \in {flash, g, NoRegistry}
    <3>1. f \in Nat
      OBVIOUS
    <3>2. flash' \in {flash, g, NoRegistry}
      BY SaveCases, Zenon
    <3> QED
      BY <3>1, <3>2
  <2>4. FileCounts(NoRegistry, f) /\ NoRegistry \in RegistryFiles
    BY <2>3, NoRegistryCounts, NoRegistryOK
  <2> HIDE DEF g
  <2> QED
    BY <2>1, <2>2, <2>3, <2>4
<1> HIDE DEF g
<1>2. faults' # 0 \/ flash_on_disk'
  BY <1>1 DEF RegistrySave
<1>3. OnDisk'
  BY <1>2 DEF OnDisk
<1>4. CASE flash' = g /\ faults' = f
  BY <1>1, <1>3, <1>4 DEF Recovers
<1>5. CASE faults' = f + 1
  <2>1. RegistryCounts(r, c, f + 1)
    BY <1>1, CountsGrow
  <2>2. f + 1 # 0
    BY <1>1
  <2>3. /\ FileCounts(flash, f + 1) /\ FileCounts(g, f + 1)
        /\ FileCounts(NoRegistry, f + 1)
    BY <1>1, CountsGrow
  <2>4. FileCounts(flash', f + 1)
    BY <1>1, <2>3
  <2> QED
    BY <1>3, <1>5, <2>1, <2>2, <2>4 DEF Recovers
<1>6. faults' = f + 1 \/ (flash' = g /\ faults' = f)
  BY SaveCases DEF g
<1> QED
  BY <1>4, <1>5, <1>3, <1>6

\* A registry in which every app is still what it was.
Same(r, q) == \A s \in Slots : Identity(q[s]) = Identity(r[s])

LEMMA SameFacts ==
  ASSUME NEW r, NEW q, Same(r, q)
  PROVE  Named(q) = Named(r) /\ Apps(q) = Apps(r)
<1>1. \A s \in Slots : q[s].name = r[s].name
  <2>1. \A e : Identity(e).name = e.name
    BY DEF Identity
  <2> QED
    BY <2>1 DEF Same
<1>2. Named(q) = Named(r)
  BY <1>1 DEF Named
<1>3. \A s \in Named(r) : Identity(q[s]) = Identity(r[s])
  BY DEF Same, Named
<1> QED
  BY <1>2, <1>3 DEF Apps

LEMMA ReplaceSame ==
  ASSUME NEW r \in Registries, NEW s \in Slots, NEW e,
         Identity(e) = Identity(r[s])
  PROVE  Same(r, [r EXCEPT ![s] = e])
BY DEF Same, Registries

\* The changes the code makes to an installed entry leave it the same app.
LEMMA ChangeIdentity ==
  ASSUME NEW e \in Entry, NEW x, NEW k, NEW j
  PROVE  /\ Identity([e EXCEPT !.crash = j]) = Identity(e)
         /\ Identity([e EXCEPT !.cid = k]) = Identity(e)
         /\ Identity([e EXCEPT !.cid = k, !.state = x]) = Identity(e)
         /\ Identity([e EXCEPT !.crash = j, !.cid = k]) = Identity(e)
         /\ Identity([e EXCEPT !.state = x]) = Identity(e)
         /\ Identity([e EXCEPT !.crash = j, !.state = x]) = Identity(e)
         /\ Identity([e EXCEPT !.state = x, !.crash = j]) = Identity(e)
BY DEF Identity, Entry

\* A step that changes no app, saved or not, keeps what a boot recovers.
LEMMA SameRecovers ==
  ASSUME RecoverInv, NEW q \in Registries, Same(g_registry, q),
         \/ UNCHANGED <<flash, flash_on_disk, faults>>
         \/ RegistrySave(q, g_app_count, faults)
  PROVE  Recovers(q, g_app_count, flash', faults') /\ OnDisk'
<1>1. Named(q) = Named(g_registry) /\ Apps(q) = Apps(g_registry)
  BY SameFacts
<1>2. /\ faults \in 0 .. MaxFaults /\ flash \in RegistryFiles /\ g_app_count \in Int
      /\ Recovers(g_registry, g_app_count, flash, faults) /\ OnDisk
  BY DEF RecoverInv, EntryInv
<1>3. Recovers(q, g_app_count, flash, faults)
  BY <1>1, <1>2 DEF Recovers, RegistryCounts
<1>4. CASE UNCHANGED <<flash, flash_on_disk, faults>>
  BY <1>2, <1>3, <1>4 DEF OnDisk
<1>5. CASE RegistrySave(q, g_app_count, faults)
  BY <1>2, <1>3, <1>5, SaveRecovers DEF Recovers
<1> QED
  BY <1>4, <1>5

\* registry_load brings back the apps of the file, and counts them right.
LEMMA LoadRecovers ==
  ASSUME NEW f \in RegistryFiles, NEW x \in Nat, FileCounts(f, x)
  PROVE  Recovers(LoadedRegistry(f), LoadedCount(f), f, x)
<1> DEFINE r == LoadedRegistry(f)
<1>1. f.num \in 0 .. MaxInstalled /\ f.count \in Int /\ FileCounts(f, x)
  BY DEF RegistryFiles
<1>2. LoadCount(f) \in Int /\ f.num <= LoadCount(f)
      /\ LoadCount(f) <= f.count
  BY <1>1 DEF LoadCount, FileCounts
<1>3. CASE Loadable(f)
  <2>1. LoadCount(f) = f.num
    BY <1>1, <1>2, <1>3 DEF Loadable
  <2>2. \A s \in Slots :
          r[s] = IF s <= f.num THEN f.entries[s] ELSE EmptyEntry
    BY <1>3, <2>1 DEF LoadedRegistry
  <2> HIDE DEF r
  <2>3. Named(r) = Named(f.entries)
    <3>1. \A s \in Slots : f.entries[s].name # NoName <=> s <= f.num
      BY <1>1 DEF FileCounts, Named
    <3>2. EmptyEntry.name = NoName
      BY DEF EmptyEntry
    <3>3. \A s \in Slots : r[s].name # NoName <=> s <= f.num
      BY <2>2, <3>1, <3>2
    <3> QED
      BY <3>1, <3>3 DEF Named
  <2>4. \A s \in Named(r) : r[s] = f.entries[s]
    BY <1>1, <2>2, <2>3 DEF Named, FileCounts
  <2>5. Apps(r) = Apps(f.entries)
    BY <2>3, <2>4 DEF Apps
  <2>6. Cardinality(Named(r)) = f.num
    <3>1. Named(r) = 1 .. f.num
      BY <1>1, <2>3 DEF FileCounts, Named, Slots
    <3> QED
      BY <1>1, <3>1, FS_Interval
  <2>7. LoadedCount(f) = f.num
    BY <1>3, <2>1 DEF LoadedCount
  <2>8. RegistryCounts(r, LoadedCount(f), x)
    BY <1>1, <2>6, <2>7 DEF RegistryCounts
  <2> QED
    BY <1>1, <2>5, <2>8 DEF Recovers, r
<1>4. CASE ~Loadable(f)
  <2>1. x # 0
    <3>1. ASSUME x = 0 PROVE LoadCount(f) <= f.num
      BY <1>1, <1>2, <3>1 DEF FileCounts
    <3> QED
      BY <1>4, <3>1 DEF Loadable
  <2>2. Named(r) = {} /\ LoadedCount(f) = 0
    BY <1>4 DEF LoadedRegistry, LoadedCount, Named, EmptyEntry
  <2>3. RegistryCounts(r, LoadedCount(f), x)
    BY <1>1, <2>2, FS_EmptySet DEF RegistryCounts
  <2> QED
    BY <1>1, <2>1, <2>3 DEF Recovers
<1> QED
  BY <1>3, <1>4

\* What a step must establish beside EntryInv'.
NewRecovers == Recovers(g_registry', g_app_count', flash', faults') /\ OnDisk'

\* app_manager_install: a new app is counted, whether its binary could be
\* written or not; a failed update frees the entry of an app still counted.
LEMMA InstallRecovers ==
  ASSUME RecoverInv, NEW t \in Threads, NEW n \in Names,
         NEW m \in RestartConfigs, NEW p \in Preloads, Install(t, n, m, p)
  PROVE  NewRecovers
<1> DEFINE new == SlotsOf(g_registry, n) = {}
           s == IF new THEN FreeSlot(g_registry) ELSE FindApp(g_registry, n)
           e == Prepared(s, n, new)
           c == IF new THEN g_app_count + 1 ELSE g_app_count
           x == InstalledEntry(e, n, m, p)
           y == FailedEntry(e)
<1>1. /\ EntryInv /\ g_registry \in Registries /\ faults \in 0 .. MaxFaults
      /\ flash \in RegistryFiles /\ g_app_count \in Int
      /\ Recovers(g_registry, g_app_count, flash, faults)
  BY EntryContainers DEF RecoverInv, EntryInv
<1>2. /\ new \in BOOLEAN /\ (new => Named(g_registry) # Slots)
      /\ g_app_count' = c
      /\ \/ /\ g_registry' = [g_registry EXCEPT ![s] = x]
            /\ \E f \in 0 .. MaxFaults :
                 f \in {faults, faults + 1} /\ RegistrySave(g_registry', c, f)
         \/ /\ g_registry' = [g_registry EXCEPT ![s] = y]
            /\ faults' = faults + 1 /\ UNCHANGED flash
  <2> DEFINE b == SavedBinary(s, n, new)
  <2>1. new \in BOOLEAN /\ (new => Named(g_registry) # Slots) /\ g_app_count' = c
    BY DEF Install
  <2>2. \E f \in faults .. faults + 1 :
          \/ /\ SaveBinary(b, TRUE, f) /\ g_registry' = [g_registry EXCEPT ![s] = x]
             /\ RegistrySave([g_registry EXCEPT ![s] = x], c, f)
          \/ /\ SaveBinary(b, FALSE, f) /\ faults' = f
             /\ g_registry' = [g_registry EXCEPT ![s] = y]
             /\ UNCHANGED flashVars
    BY DEF Install
  <2>3. \A f : /\ SaveBinary(b, TRUE, f) =>
                    f \in 0 .. MaxFaults /\ f \in {faults, faults + 1}
               /\ SaveBinary(b, FALSE, f) => f = faults + 1
    BY <1>1 DEF SaveBinary
  <2> HIDE DEF b, c, s, x, y, new
  <2> QED
    BY <2>1, <2>2, <2>3 DEF flashVars
<1>3. /\ s \in Slots
      /\ EntryOK(x, Kept \cup {SavedBinary(s, n, new)}) /\ EntryOK(y, Kept)
  BY <1>1, <1>2, InstallFacts
<1>4. x \in Entry /\ y \in Entry /\ x.name = n /\ y.name = NoName
  <2>1. x \in Entry /\ y \in Entry /\ x.name = n
    BY <1>3 DEF EntryOK, InstalledEntry
  <2>2. g_registry[s] \in Entry
    BY <1>1, <1>3, EntryContainers
  <2>3. e \in Entry \/ "name" \in DOMAIN e
    BY <2>2 DEF Prepared, Entry
  <2> HIDE DEF e
  <2>4. y.name = NoName
    BY <2>1, <2>3 DEF FailedEntry, Entry
  <2> QED
    BY <2>1, <2>4
<1>5. /\ ~new => s \in Named(g_registry)
      /\ new => s \notin Named(g_registry)
      /\ n # NoName
  BY <1>2, <1>3, FindAppFinds, FreeSlotIsFree, NamesAssumption DEF Named
<1> DEFINE N == Named(g_registry)
           K == Cardinality(N)
<1>6. IsFiniteSet(N) /\ K \in Nat /\ K <= g_app_count /\ g_app_count <= K + faults
  BY <1>1, NamedFinite DEF Recovers, RegistryCounts
<1>7. FileCounts(flash, faults) /\ flash.num \in Int /\ flash.count \in Int
  BY <1>1 DEF Recovers, RegistryFiles
<1> HIDE DEF s, e, x, y, new
<1>8. ASSUME NEW f \in 0 .. MaxFaults, f \in {faults, faults + 1},
             g_registry' = [g_registry EXCEPT ![s] = x], g_app_count' = c,
             RegistrySave(g_registry', c, f)
      PROVE  NewRecovers
  <2>1. Named(g_registry') = N \cup {s} /\ g_registry' \in Registries
    BY <1>1, <1>3, <1>4, <1>5, <1>8 DEF Named, Registries
  <2> HIDE DEF N
  <2>2. Cardinality(N \cup {s}) = IF new THEN K + 1 ELSE K
    BY <1>5, <1>6, FS_AddElement DEF N
  <2>3. c \in Int /\ RegistryCounts(g_registry', c, faults)
    BY <1>1, <1>6, <2>1, <2>2 DEF RegistryCounts
  <2> HIDE DEF c
  <2>4. RegistryCounts(g_registry', c, f) /\ FileCounts(flash, f)
    BY <1>1, <1>7, <1>8, <2>3, CountsGrow
  <2> QED
    BY <1>1, <1>8, <2>1, <2>3, <2>4, SaveRecovers DEF NewRecovers
<1>9. CASE /\ g_registry' = [g_registry EXCEPT ![s] = y]
           /\ g_app_count' = c /\ faults' = faults + 1 /\ UNCHANGED flash
  <2>1. Named(g_registry') = N \ {s}
    BY <1>1, <1>3, <1>4, <1>9 DEF Named, Registries
  <2> HIDE DEF N
  <2>2. Cardinality(N \ {s}) = IF new THEN K ELSE K - 1
    BY <1>5, <1>6, FS_RemoveElement DEF N
  <2>3. RegistryCounts(g_registry', c, faults')
    <3> DEFINE L == Cardinality(N \ {s})
    <3>1. L = (IF new THEN K ELSE K - 1) /\ Cardinality(Named(g_registry')) = L
      BY <2>1, <2>2
    <3> HIDE DEF K, L
    <3>2. L <= c /\ c <= L + (faults + 1)
      BY <1>1, <1>6, <3>1
    <3> QED
      BY <1>9, <3>1, <3>2 DEF RegistryCounts
  <2>4. FileCounts(flash', faults') /\ faults' # 0 /\ OnDisk'
    BY <1>1, <1>7, <1>9 DEF FileCounts, OnDisk
  <2> QED
    BY <1>9, <2>3, <2>4 DEF NewRecovers, Recovers
<1> QED
  BY <1>2, <1>8, <1>9

\* app_manager_uninstall: one app and one count less.
LEMMA UninstallRecovers ==
  ASSUME RecoverInv, NEW t \in Threads, NEW n \in Names, Uninstall(t, n)
  PROVE  NewRecovers
<1> DEFINE s == FindApp(g_registry, n)
           N == Named(g_registry)
           K == Cardinality(N)
<1>1. /\ EntryInv /\ g_registry \in Registries /\ faults \in 0 .. MaxFaults
      /\ flash \in RegistryFiles /\ g_app_count \in Int
      /\ Recovers(g_registry, g_app_count, flash, faults)
  BY EntryContainers DEF RecoverInv, EntryInv
<1>2. /\ g_registry' = [g_registry EXCEPT ![s] = EmptyEntry]
      /\ g_app_count' = g_app_count - 1
      /\ RegistrySave(g_registry', g_app_count - 1, faults)
      /\ SlotsOf(g_registry, n) # {}
  BY DEF Uninstall
<1>3. s \in Slots /\ s \in N /\ EmptyEntry.name = NoName
  BY <1>2, FindAppFinds, NamesAssumption DEF Named, EmptyEntry
<1>4. IsFiniteSet(N) /\ K \in Nat /\ K <= g_app_count /\ g_app_count <= K + faults
  BY <1>1, NamedFinite DEF Recovers, RegistryCounts
<1> HIDE DEF s
<1>5. Named(g_registry') = N \ {s} /\ g_registry' \in Registries
  BY <1>1, <1>2, <1>3, EmptyEntryType DEF Named, Registries
<1> HIDE DEF N
<1>6. Cardinality(N \ {s}) = K - 1
  BY <1>3, <1>4, FS_RemoveElement
<1>7. RegistryCounts(g_registry', g_app_count - 1, faults)
  BY <1>1, <1>4, <1>5, <1>6 DEF RegistryCounts
<1>8. g_app_count - 1 \in Int
  BY <1>1
<1> QED
  BY <1>1, <1>2, <1>5, <1>7, <1>8, SaveRecovers DEF NewRecovers, Recovers

\* app_manager_start under the mutex changes no app.
LEMMA StartLockedRecovers ==
  ASSUME RecoverInv, NEW p \in Procs, NEW n \in Names, StartLocked(p, n),
         UNCHANGED g_app_count
  PROVE  NewRecovers
<1> DEFINE found == SlotsOf(g_registry, n) # {}
           s == FindApp(g_registry, n)
           e == g_registry[s]
           reset == IF e.state = "FAILED" THEN [e EXCEPT !.crash = 0] ELSE e
           next(x) == [g_registry EXCEPT ![s] = x]
<1>1. EntryInv /\ g_registry \in Registries
  BY EntryContainers DEF RecoverInv
<1>2. g_registry' \in Registries
  BY <1>1, StartLockedInv DEF RegistryOK
<1>3. \/ UNCHANGED <<g_registry, flash, flash_on_disk, faults>>
      \/ /\ found
         /\ \/ g_registry' = next(reset)
            \/ \E k \in ContainerIds :
                 \/ g_registry' = next([reset EXCEPT !.cid = k, !.state = "RUNNING"])
                 \/ g_registry' = next([reset EXCEPT !.cid = k])
         /\ \/ UNCHANGED <<flash, flash_on_disk, faults>>
            \/ RegistrySave(g_registry', g_app_count, faults)
  BY DEF StartLocked, storageVars, flashVars
<1>4. ASSUME found
      PROVE  /\ s \in Slots /\ e \in Entry
             /\ reset \in Entry /\ Identity(reset) = Identity(e)
  <2>1. s \in Slots /\ e \in Entry
    BY <1>1, <1>4, FindAppFinds, EntryContainers
  <2> HIDE DEF e
  <2> QED
    BY <2>1, EntryUpdates, ChangeIdentity, EntryFields DEF States
<1>5. ASSUME found, NEW k
      PROVE  /\ Identity([reset EXCEPT !.cid = k]) = Identity(e)
             /\ Identity([reset EXCEPT !.cid = k, !.state = "RUNNING"]) = Identity(e)
  <2>1. reset \in Entry /\ Identity(reset) = Identity(e)
    BY <1>4, <1>5
  <2> HIDE DEF reset, e
  <2> QED
    BY <2>1 DEF Identity, Entry
<1>6. ASSUME found, NEW x, Identity(x) = Identity(e) PROVE Same(g_registry, next(x))
  <2>1. s \in Slots
    BY <1>4, <1>6
  <2> HIDE DEF s
  <2> QED
    BY <1>1, <1>6, <2>1, ReplaceSame
<1>7. CASE UNCHANGED <<g_registry, flash, flash_on_disk, faults>>
  BY <1>7 DEF NewRecovers, RecoverInv, OnDisk
<1>8. CASE /\ found /\ Same(g_registry, g_registry')
           /\ \/ UNCHANGED <<flash, flash_on_disk, faults>>
              \/ RegistrySave(g_registry', g_app_count, faults)
  BY <1>2, <1>8, SameRecovers DEF NewRecovers
<1> HIDE DEF found, s, e, reset, next
<1>9. found => Identity(reset) = Identity(e)
  BY <1>4
<1> QED
  BY <1>3, <1>5, <1>6, <1>7, <1>8, <1>9

\* app_manager_stop changes no app.
LEMMA StopRecovers ==
  ASSUME RecoverInv, NEW t \in Threads, NEW n \in Names, Stop(t, n)
  PROVE  NewRecovers
<1> DEFINE s == FindApp(g_registry, n)
           e == [g_registry[s] EXCEPT !.state = "STOPPED"]
<1>1. EntryInv /\ g_registry \in Registries
  BY EntryContainers DEF RecoverInv
<1>2. EntryInv' /\ g_registry' \in Registries
  BY <1>1, StopInv DEF EntryInv, RegistryOK
<1>3. /\ SlotsOf(g_registry, n) # {} /\ UNCHANGED g_app_count
      /\ g_registry' = [g_registry EXCEPT ![s] = e]
      /\ RegistrySave(g_registry', g_app_count, faults)
  BY DEF Stop
<1>4. s \in Slots /\ g_registry[s] \in Entry
  BY <1>1, <1>3, FindAppFinds, EntryContainers
<1>5. Identity(e) = Identity(g_registry[s])
  BY <1>4, ChangeIdentity
<1> HIDE DEF s, e
<1>6. Same(g_registry, g_registry')
  BY <1>1, <1>3, <1>4, <1>5, ReplaceSame
<1> QED
  BY <1>2, <1>3, <1>6, SameRecovers DEF NewRecovers

\* app_manager_restart before its unlock changes no app.
LEMMA RestartRecovers ==
  ASSUME RecoverInv, NEW t \in Threads, NEW n \in Names, Restart(t, n)
  PROVE  NewRecovers
<1> DEFINE s == FindApp(g_registry, n)
           old == g_registry[s]
           x == IF old.state = "RUNNING" /\ old.cid >= 0 THEN "STOPPED" ELSE old.state
           e == [old EXCEPT !.crash = 0, !.state = x]
<1>1. EntryInv /\ g_registry \in Registries
  BY EntryContainers DEF RecoverInv
<1>2. EntryInv' /\ g_registry' \in Registries
  BY <1>1, RestartInv DEF EntryInv, RegistryOK
<1>3. /\ SlotsOf(g_registry, n) # {} /\ UNCHANGED <<g_app_count, flash, flash_on_disk, faults>>
      /\ g_registry' = [g_registry EXCEPT ![s] = e]
  BY DEF Restart, storageVars, flashVars
<1>4. s \in Slots /\ old \in Entry
  BY <1>1, <1>3, FindAppFinds, EntryContainers
<1>5. Identity(e) = Identity(old)
  <2> HIDE DEF x, old
  <2> QED
    BY <1>4 DEF Identity, Entry
<1> HIDE DEF s, e
<1>6. Same(g_registry, g_registry')
  BY <1>1, <1>3, <1>4, <1>5, ReplaceSame
<1> QED
  BY <1>2, <1>3, <1>6, SameRecovers DEF NewRecovers

\* set_app_state(ERROR) after the unlock changes no app.
LEMMA StartFailedRecovers ==
  ASSUME RecoverInv, NEW p \in Procs, StartFailed(p)
  PROVE  NewRecovers
<1> DEFINE s == todo[p].slot
           old == g_registry[s]
<1>1. EntryInv /\ g_registry \in Registries
  BY EntryContainers DEF RecoverInv
<1>2. EntryInv' /\ g_registry' \in Registries
  BY <1>1, StartFailedInv DEF EntryInv, RegistryOK
<1>3. /\ UNCHANGED <<g_app_count, flash, flash_on_disk, faults>>
      /\ \/ UNCHANGED g_registry
         \/ g_registry' = [g_registry EXCEPT ![s] = ErrorEntry(old)]
  BY DEF StartFailed, storageVars, flashVars
<1>4. s \in Slots /\ old \in Entry
  BY <1>1, TodoFields, EntryContainers DEF StartFailed, EntryInv
<1>5. Identity(ErrorEntry(old)) = Identity(old)
  <2> HIDE DEF old
  <2> DEFINE j == IF old.auto THEN old.crash + 1 ELSE old.crash
             x == IF old.auto /\ j >= old.max THEN "FAILED" ELSE "ERROR"
  <2>1. ErrorEntry(old) = [old EXCEPT !.state = x, !.crash = j]
    BY DEF ErrorEntry
  <2> HIDE DEF x, j
  <2>2. Identity([old EXCEPT !.state = x, !.crash = j]) = Identity(old)
    BY <1>4 DEF Identity, Entry
  <2> QED
    BY <2>1, <2>2
<1>6. Same(g_registry, g_registry')
  <2>1. CASE UNCHANGED g_registry
    BY <2>1 DEF Same
  <2>2. CASE g_registry' = [g_registry EXCEPT ![s] = ErrorEntry(old)]
    <3> HIDE DEF s
    <3> QED
      BY <1>1, <1>4, <1>5, <2>2, ReplaceSame
  <2> QED
    BY <1>3, <2>1, <2>2
<1> QED
  BY <1>2, <1>3, <1>6, SameRecovers DEF NewRecovers

\* app_manager_shutdown changes no app, and saves them once more.
LEMMA ShutdownRecovers ==
  ASSUME RecoverInv, NEW t \in Threads, Shutdown(t)
  PROVE  NewRecovers
<1>1. EntryInv /\ g_registry \in Registries
  BY EntryContainers DEF RecoverInv
<1>2. EntryInv' /\ g_registry' \in Registries
  BY <1>1, ShutdownInv DEF EntryInv, RegistryOK
<1>3. /\ UNCHANGED g_app_count /\ RegistrySave(g_registry', g_app_count, faults)
      /\ g_registry' = [s \in Slots |-> StoppedEntry(g_registry[s])]
  BY DEF Shutdown
<1>4. ASSUME NEW e \in Entry PROVE Identity(StoppedEntry(e)) = Identity(e)
  BY ChangeIdentity DEF StoppedEntry
<1>5. Same(g_registry, g_registry')
  BY <1>1, <1>3, <1>4, EntryContainers DEF Same
<1> QED
  BY <1>2, <1>3, <1>5, SameRecovers DEF NewRecovers

-----------------------------------------------------------------------------
\* The empty registry satisfies the invariant.
LEMMA InitRecovers == Init => RecoverInv
<1> SUFFICES ASSUME Init PROVE RecoverInv
  OBVIOUS
<1>1. EntryInv /\ faults = 0
  BY InitInv DEF Init
<1>2. /\ g_registry = EmptyRegistry /\ g_app_count = 0
      /\ flash = NoRegistry /\ NoRegistry.entries = EmptyRegistry
  BY DEF Init, NoRegistry
<1>3. Named(EmptyRegistry) = {}
  BY DEF Named, EmptyRegistry, EmptyEntry
<1>4. RegistryCounts(g_registry, g_app_count, faults)
  BY <1>1, <1>2, <1>3, FS_EmptySet DEF RegistryCounts
<1>5. FileCounts(flash, faults) /\ OnDisk
  BY <1>1, <1>2, NoRegistryCounts DEF OnDisk
<1> QED
  BY <1>1, <1>2, <1>4, <1>5 DEF RecoverInv, Recovers

\* Every step preserves the invariant.
LEMMA NextRecovers == RecoverInv /\ [Next]_vars => RecoverInv'
<1> SUFFICES ASSUME RecoverInv, [Next]_vars PROVE NewRecovers
  BY NextInv DEF RecoverInv, NewRecovers
<1>1. ASSUME NEW t \in Threads, NEW n \in Names, Call(t, n) PROVE NewRecovers
  <2>1. Start(t, n) => t \in Procs /\ StartLocked(t, n) /\ UNCHANGED g_app_count
    BY DEF Start, Procs
  <2> QED
    BY <1>1, <2>1, InstallRecovers, UninstallRecovers, StartLockedRecovers,
       StopRecovers, RestartRecovers DEF Call
<1>2. ASSUME NEW t \in Threads, RestartStart(t) PROVE NewRecovers
  <2>1. /\ t \in Procs /\ todo[t].name \in Names /\ StartLocked(t, todo[t].name)
        /\ UNCHANGED g_app_count
    BY <1>2, TodoFields DEF RestartStart, Procs, RecoverInv, EntryInv
  <2> QED
    BY <2>1, StartLockedRecovers
<1>3. ASSUME RestartWork PROVE NewRecovers
  <2>1. CASE g_restart_app = NoName
    BY <1>3, <2>1 DEF RestartWork, RecoverInv, NewRecovers,
                     OnDisk, storageVars, flashVars
  <2>2. CASE g_restart_app # NoName
    <3>1. /\ WorkQueue \in Procs /\ g_restart_app \in Names
          /\ StartLocked(WorkQueue, g_restart_app) /\ UNCHANGED g_app_count
      BY <1>3, <2>2 DEF RestartWork, Procs, RecoverInv, EntryInv
    <3> QED
      BY <3>1, StartLockedRecovers
  <2> QED
    BY <2>1, <2>2
<1>4. ASSUME RestartDone \/ UNCHANGED vars \/ \E k \in ContainerIds : ContainerEnds(k)
      PROVE  NewRecovers
  BY <1>4 DEF RestartDone, ContainerEnds, vars, RecoverInv,
         NewRecovers, OnDisk, storageVars, flashVars
<1>5. ASSUME \/ PowerLoss \/ \E t \in Threads : AppInit(t)
             \/ \E t \in Threads, n \in Names : PowerLossInInstall(t, n)
      PROVE  NewRecovers
  <2>1. /\ faults \in 0 .. MaxFaults /\ flash \in RegistryFiles /\ OnDisk
        /\ FileCounts(flash, faults) /\ BootFile \in RegistryFiles
        /\ FileCounts(BootFile, faults)
    BY BootFileOK, NoRegistryCounts DEF RecoverInv, Recovers, EntryInv, BootFile
  <2>2. CASE \E t \in Threads : AppInit(t)
    <3>1. /\ g_registry' = LoadedRegistry(flash) /\ g_app_count' = LoadedCount(flash)
          /\ UNCHANGED <<flash, flash_on_disk, faults>>
      BY <2>2 DEF AppInit, storageVars, flashVars
    <3> QED
      BY <2>1, <3>1, LoadRecovers DEF NewRecovers, OnDisk
  <2>3. CASE \/ PowerLoss
             \/ \E t \in Threads, n \in Names : PowerLossInInstall(t, n)
    <3>1. /\ g_registry' = LoadedRegistry(BootFile)
          /\ g_app_count' = LoadedCount(BootFile)
          /\ flash' = BootFile /\ UNCHANGED flash_on_disk
          /\ faults' \in {faults, faults + 1}
      BY <2>3 DEF PowerLoss, PowerLossInInstall, PowerUp
    <3>2. FileCounts(BootFile, faults') /\ faults' \in Nat
      <4>1. faults \in Nat
        BY <2>1
      <4>2. FileCounts(BootFile, faults + 1)
        BY <2>1, <4>1, CountsGrow
      <4> QED
        BY <2>1, <3>1, <4>1, <4>2
    <3>3. OnDisk'
      BY <3>1 DEF OnDisk, BootFile
    <3> QED
      BY <2>1, <3>1, <3>2, <3>3, LoadRecovers DEF NewRecovers
  <2> QED
    BY <1>5, <2>2, <2>3
<1> QED
  BY <1>1, <1>2, <1>3, <1>4, <1>5, StartFailedRecovers, ShutdownRecovers DEF Next

\* The inductive invariant implies the property checked: what would be loaded
\* now is what is installed.
LEMMA RecoverImplies == RecoverInv => BootRecovers
<1> SUFFICES ASSUME RecoverInv PROVE BootRecovers
  OBVIOUS
<1>1. CountBounds
  BY DEF RecoverInv, Recovers, RegistryCounts, CountBounds
<1>2. ASSUME faults = 0 PROVE Apps(LoadedRegistry(BootFile)) = Apps(g_registry)
  <2>1. /\ flash.num \in 0 .. MaxInstalled /\ flash.num = flash.count
        /\ FileCounts(flash, faults) /\ Apps(flash.entries) = Apps(g_registry)
    BY <1>2 DEF RecoverInv, Recovers, FileCounts, EntryInv, RegistryFiles
  <2>2. LoadCount(flash) = flash.num /\ Loadable(flash)
    BY <2>1 DEF LoadCount, Loadable
  <2>3. \A s \in Slots : LoadedRegistry(flash)[s] =
                           IF s <= flash.num THEN flash.entries[s] ELSE EmptyEntry
    BY <2>2 DEF LoadedRegistry
  <2> DEFINE r == LoadedRegistry(flash)
  <2> HIDE DEF r
  <2>4. Named(r) = Named(flash.entries)
        /\ \A s \in Named(r) : r[s] = flash.entries[s]
    <3>1. \A s \in Slots : flash.entries[s].name # NoName <=> s <= flash.num
      BY <2>1 DEF FileCounts, Named
    <3> QED
      BY <2>3, <3>1 DEF Named, EmptyEntry, r
  <2>5. BootFile = flash
    BY <1>2 DEF RecoverInv, OnDisk, BootFile
  <2> QED
    BY <2>1, <2>4, <2>5 DEF Apps, r
<1> QED
  BY <1>1, <1>2 DEF BootRecovers, Durable

\* A boot, after a shutdown or a loss of power at any step, brings back exactly
\* the installed apps with their ids and settings if no write was refused; and
\* g_app_count is the number of installed apps, or ahead of it by one for each
\* refused write at most: for every size of registry and number of faults.
THEOREM BootsRecover == Spec => []BootRecovers
BY InitRecovers, NextRecovers, RecoverImplies, PTL DEF Spec
=============================================================================
