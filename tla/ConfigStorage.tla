----------------------------- MODULE ConfigStorage -----------------------------
(* How the configuration reaches the SD card and comes back.  A save writes the  *)
(* domain files of /config/ one by one, each through a temporary file, and then  *)
(* rewrites /config.json whole, keeping the previous one as /config.json.bak.    *)
(* The boot prefers the domain files when the files in Gate exist, migrates      *)
(* /config.json otherwise, and repairs or falls back when that one is torn.      *)
(* Power may fail between any two file operations, and an operation may fail.    *)
(*                                                                               *)
(* A file is a set of versions, one per item it holds.  The item of a domain     *)
(* file has the file's name, but for Links: the connections of network.json,     *)
(* which are saved with the Wi-Fi credentials and not healed with them.  Version *)
(* 0 is the default: an empty SSID, no connection.  Instance files are left out, *)
(* and a whole file is one ConfigSanitizer accepts as it stands.                 *)
EXTENDS Naturals, Sequences, FiniteSets

CONSTANTS
    Order,          \* the domains in the order saveDomains() writes their files
    Gate,           \* the domain files whose presence makes the boot modular
    Network,        \* network.json, and the Wi-Fi credentials in it
    Links,          \* mqtt, dataMqtt and showcase in the same file
    Masks,          \* the sets of domains callers save together
    Legacy,         \* /config.json
    Bak, BakBak,    \* /config.json.bak, and the backup of that one
    LastVersion,    \* bound: changes of the live configuration
    MaxCuts,        \* bound: power losses in the middle of a job, if no operation fails
    MaxFaults       \* bound: file operations that fail, if power is never lost

Domains == {Order[k] : k \in DOMAIN Order}
Files == Domains \cup {Legacy, Bak, BakBak}
Items == Domains \cup {Links}
FileOf(x) == IF x = Links THEN Network ELSE x

ASSUME StorageAssumption ==
    /\ Order \in Seq(Domains)
    /\ Gate \subseteq Domains /\ Gate # {} /\ Network \in Domains
    /\ Masks \subseteq (SUBSET Domains) \ {{}}
    /\ {Legacy, Bak, BakBak} \cap Domains = {} /\ Links \notin Domains
    /\ Legacy # Bak /\ Bak # BakBak /\ Legacy # BakBak
    /\ LastVersion \in Nat \ {0} /\ MaxCuts \in Nat /\ MaxFaults \in Nat

VARIABLES
    disk,       \* the files that exist, by name; a temporary file is never read
    text,       \* what is on its way: a temporary file, or the document of a rewrite
    fields,     \* the fields of ConfigLoader
    clock,      \* the last version given to an item
    acked,      \* acked[x]: the last version a save that returned true was asked for
    step,       \* off, idle, or the next file operation of the job
    job,        \* the call in progress
    board,      \* copies: rename() fails and SD_MMC copies; low: the heap may be low;
                \* seeded: the card came with a /config.json
    cuts,       \* power losses so far
    faults      \* failed file operations so far

storageVars == <<disk, text, fields, clock, acked, step, job, board, cuts, faults>>

Boards == [copies : BOOLEAN, low : BOOLEAN, seeded : BOOLEAN]
Defaults == [x \in Items |-> 0]
NoText == [whole |-> FALSE, value |-> [x \in {} |-> 0]]

\* kind: which function runs; todo: the files still to be written atomically; ok: modularOk,
\* or what saveAll() returns; files: the monolithic files still to be saved, each by a call of
\* saveDomainsToSD(); mask, asked: what the caller wants saved, and its versions.
NoJob == [kind |-> "none", todo |-> {}, ok |-> TRUE, files |-> <<>>,
          mask |-> {}, asked |-> Defaults]

\* No file and no field is of a version that was never given.
Holds(f) == IF f \in Domains THEN {x \in Items : FileOf(x) = f} ELSE Items
Content(D, n) == [whole : BOOLEAN, value : [D -> 0 .. n]]
Jobs(n) == [kind : {"none", "save", "repair", "heal", "migrate", "backup"},
            todo : SUBSET (Domains \cup {Bak}), ok : BOOLEAN, files : Seq({Legacy, Bak}),
            mask : SUBSET Domains, asked : [Items -> 0 .. n]]

StorageTypeOK ==
    /\ clock \in 0 .. LastVersion
    /\ DOMAIN disk \subseteq Files
    /\ \A f \in DOMAIN disk : disk[f] \in Content(Holds(f), clock)
    /\ DOMAIN text.value \subseteq Items /\ text \in Content(DOMAIN text.value, clock)
    /\ fields \in [Items -> 0 .. clock] /\ acked \in [Items -> 0 .. clock]
    /\ step \in {"off", "idle", "write", "remove", "rename", "copy",
                 "decide", "unback", "rotate", "rewrite", "finish", "restore"}
    /\ job \in Jobs(clock)
    /\ board \in Boards
    /\ cuts \in 0 .. MaxCuts /\ faults \in 0 .. MaxFaults

\* A card with the /config.json of an earlier firmware, or an empty one; power is off.
StorageInit ==
    /\ board \in Boards
    /\ clock = IF board.seeded THEN 1 ELSE 0
    /\ disk = [f \in IF board.seeded THEN {Legacy} ELSE {} |->
                  [whole |-> TRUE, value |-> [x \in Items |-> 1]]]
    /\ acked = [x \in Items |-> clock]
    /\ fields = Defaults /\ text = NoText /\ step = "off" /\ job = NoJob
    /\ cuts = 0 /\ faults = 0

--------------------------------------------------------------------------------
(* Files *)

Exists(f) == f \in DOMAIN disk
Whole(f) == Exists(f) /\ disk[f].whole
With(f, c) == [g \in DOMAIN disk \cup {f} |-> IF g = f THEN c ELSE disk[g]]
Without(f) == [g \in DOMAIN disk \ {f} |-> disk[g]]
Renamed(f, b) == [g \in (DOMAIN disk \ {f}) \cup {b} |-> IF g = b THEN disk[f] ELSE disk[g]]
Torn(c) == [c EXCEPT !.whole = FALSE]
Backup(f) == IF f = Legacy THEN Bak ELSE BakBak

Fault == cuts = 0 /\ faults < MaxFaults /\ faults' = faults + 1

--------------------------------------------------------------------------------
(* Jobs *)

Run(j) == job' = j /\ step' = IF j.todo # {} THEN "write" ELSE "decide"
Finished == job' = NoJob /\ step' = "idle"

\* saveDomainsToSD(mask, path): the domain files only when path is /config.json.
Call(kind, mask, files) ==
    LET main == Head(files) = Legacy
    IN  [kind |-> kind, todo |-> IF main THEN mask ELSE {},
         ok |-> main, files |-> files, mask |-> mask, asked |-> fields]

\* saveDomainsToSD() returns r.  Saves made by the boot have no caller to tell.
Answer(r) ==
    /\ acked' = [x \in Items |-> IF r /\ job.kind = "save" /\ FileOf(x) \in job.mask
                                 THEN job.asked[x] ELSE acked[x]]
    /\ text' = NoText
    /\ \/ Len(job.files) >= 2 /\ Run(Call(job.kind, Domains, Tail(job.files)))
       \/ Len(job.files) = 1 /\ Finished

\* The next file writeStringAtomic() is called for, in the order of saveDomains().
First(S) == CHOOSE k \in S : \A m \in S : k <= m
Target == IF job.todo = {Bak} THEN Bak
          ELSE Order[First({k \in DOMAIN Order : Order[k] \in job.todo})]

\* writeStringAtomic() returned good: on to the next file, or to what follows the last.
Proceed(good) ==
    LET j == [job EXCEPT !.todo = @ \ {Target}, !.ok = @ /\ good]
    IN  /\ text' = NoText
        /\ \/ j.todo # {} /\ Run(j)
           \/ j.todo = {} /\ j.kind \in {"save", "repair"} /\ Run(j)
           \/ /\ j.todo = {} /\ j.kind = "migrate" /\ j.ok
              /\ Run([j EXCEPT !.kind = "backup", !.todo = {Bak}])
           \/ j.todo = {} /\ j.kind = "migrate" /\ ~j.ok /\ Finished
           \/ j.todo = {} /\ j.kind \in {"heal", "backup"} /\ Finished

--------------------------------------------------------------------------------
(* writeStringAtomic() *)

Text(f) ==
    IF f = Bak THEN disk[Legacy]
    ELSE [whole |-> TRUE, value |-> [x \in Holds(f) |-> fields[x]]]

\* Mutant: a short write goes unnoticed.
WriteTmpUnchecked ==
    /\ step = "write"
    /\ \/ text' = Text(Target) /\ UNCHANGED faults
       \/ text' = Torn(Text(Target)) /\ Fault
    /\ step' = "remove"
    /\ UNCHANGED <<disk, fields, clock, acked, job, board, cuts>>

\* The temporary file is written, or refused, not opened or written short, and removed.
WriteTmp ==
    /\ step = "write"
    /\ \/ text' = Text(Target) /\ step' = "remove" /\ UNCHANGED <<job, faults>>
       \/ Fault /\ Proceed(FALSE)
    /\ UNCHANGED <<disk, fields, clock, acked, board, cuts>>

RemoveOld ==
    /\ step = "remove"
    /\ disk' = Without(Target)
    /\ step' = "rename"
    /\ UNCHANGED <<text, fields, clock, acked, job, board, cuts, faults>>

\* On SPI the temporary file is renamed or, if that fails, removed.  SD_MMC copies instead;
\* one of the two files may not open, and the other has been truncated by then.
Rename ==
    /\ step = "rename"
    /\ \/ ~board.copies /\ disk' = With(Target, text) /\ Proceed(TRUE) /\ UNCHANGED faults
       \/ /\ board.copies /\ disk' = With(Target, Torn(text)) /\ step' = "copy"
          /\ UNCHANGED <<job, text, faults>>
       \/ /\ Fault /\ Proceed(FALSE)
          /\ \/ UNCHANGED disk
             \/ board.copies /\ disk' = With(Target, Torn(text))
    /\ UNCHANGED <<fields, clock, acked, board, cuts>>

\* The copy loop looks at no write: one that fails leaves the file short.
Copy ==
    /\ step = "copy"
    /\ \/ disk' = With(Target, text) /\ UNCHANGED faults
       \/ Fault /\ UNCHANGED disk
    /\ Proceed(TRUE)
    /\ UNCHANGED <<fields, clock, acked, board, cuts>>

--------------------------------------------------------------------------------
(* saveDomainsToSD() after the domain files *)

Path == Head(job.files)

\* A partial save ends here when the heap is low; otherwise the document is built.
Decide ==
    /\ step = "decide"
    /\ \/ /\ job.ok /\ board.low /\ job.mask # Domains /\ Answer(TRUE) /\ UNCHANGED faults
       \/ /\ text' = [whole |-> TRUE, value |-> fields] /\ step' = "unback"
          /\ UNCHANGED <<acked, job, faults>>
       \/ Fault /\ Answer(job.ok)
    /\ UNCHANGED <<disk, fields, clock, board, cuts>>

Unback ==
    /\ step = "unback"
    /\ disk' = Without(Backup(Path))
    /\ step' = "rotate"
    /\ UNCHANGED <<text, fields, clock, acked, job, board, cuts, faults>>

\* Nothing looks at the result of this rename.
Rotate ==
    /\ step = "rotate"
    /\ \/ disk' = (IF Exists(Path) THEN Renamed(Path, Backup(Path)) ELSE disk)
          /\ UNCHANGED faults
       \/ Exists(Path) /\ Fault /\ UNCHANGED disk
    /\ step' = "rewrite"
    /\ UNCHANGED <<text, fields, clock, acked, job, board, cuts>>

\* Opening the file truncates it; if it cannot be opened the backup is put back.
Restored == IF Exists(Backup(Path)) THEN Renamed(Backup(Path), Path) ELSE disk

Rewrite ==
    /\ step = "rewrite"
    /\ \/ disk' = With(Path, Torn(text)) /\ step' = "finish"
          /\ UNCHANGED <<text, acked, job, faults>>
       \/ Fault /\ disk' = Restored /\ Answer(job.ok)
    /\ UNCHANGED <<fields, clock, board, cuts>>

\* A short write is forgiven when the domain files were written, and undone otherwise.
FinishRewrite ==
    /\ step = "finish"
    /\ \/ disk' = With(Path, text) /\ Answer(TRUE) /\ UNCHANGED faults
       \/ Fault /\ job.ok /\ Answer(TRUE) /\ UNCHANGED disk
       \/ /\ Fault /\ ~job.ok /\ disk' = Without(Path) /\ step' = "restore"
          /\ UNCHANGED <<text, acked, job>>
    /\ UNCHANGED <<fields, clock, board, cuts>>

Restore ==
    /\ step = "restore"
    /\ disk' = Restored
    /\ Answer(FALSE)
    /\ UNCHANGED <<fields, clock, board, cuts, faults>>

--------------------------------------------------------------------------------
(* The boot: loadFromSD() *)

\* Mutant: "already migrated" is forgotten.
HasModularForgotten == FALSE

HasModular == \A d \in Gate : Exists(d)
Read(x) == IF Whole(FileOf(x)) THEN disk[FileOf(x)].value[x] ELSE 0
\* Mutant: the backup is asked first.
CandidatesSwapped == <<Bak, Legacy>>
Candidates == <<Legacy, Bak>>
HealSources ==
    {k \in DOMAIN Candidates : Whole(Candidates[k]) /\ disk[Candidates[k]].value[Network] # 0}

\* A connection comes back too if it is off now and was on in the source, which its version
\* does not tell.
Healed(read, source) ==
    {[read EXCEPT ![Network] = source[Network], ![Links] = links] :
        links \in {read[Links]} \cup ({source[Links]} \ {0})}

LoadModular ==
    /\ HasModular
    /\ LET read == [x \in Items |-> Read(x)]
           heal == read[Network] = 0 /\ HealSources # {}
       IN  \/ ~heal /\ fields' = read /\ Finished
           \/ /\ heal
              /\ fields' \in Healed(read, disk[Candidates[First(HealSources)]].value)
              /\ Run([NoJob EXCEPT !.kind = "heal", !.todo = {Network}])

\* checkAndMigrateLegacy().  If it fails, tryLoad() reads the same file once more.
Migrate ==
    /\ ~HasModular /\ Whole(Legacy)
    /\ fields' = disk[Legacy].value
    /\ Run([NoJob EXCEPT !.kind = "migrate", !.todo = Domains])

\* repairTruncatedJson() saves the domains in kept.  What it lost makes parseFromJsonDoc()
\* save /config.json, if the sanitizer misses it; then tryLoad() rewrites the file itself.
LoadRepaired(f) ==
    /\ ~HasModular /\ ~Whole(Legacy) /\ Exists(f) /\ ~Whole(f)
    /\ \E kept \in SUBSET Items, resave \in BOOLEAN :
        /\ fields' = [x \in Items |-> IF x \in kept THEN disk[f].value[x] ELSE 0]
        /\ resave => kept # Items
        /\ Run([Call("repair", Domains, IF resave THEN <<Legacy, f>> ELSE <<f>>)
                EXCEPT !.asked = Defaults])

LoadBackup ==
    /\ ~HasModular /\ ~Whole(Legacy) /\ Whole(Bak)
    /\ fields' = disk[Bak].value
    /\ Finished

LoadDefaults ==
    /\ ~HasModular /\ ~Whole(Legacy) /\ ~Whole(Bak)
    /\ fields' = Defaults
    /\ Finished

PowerOn ==
    /\ step = "off"
    /\ \/ LoadModular \/ Migrate \/ LoadBackup \/ LoadDefaults
       \/ \E f \in {Legacy, Bak} : LoadRepaired(f)
    /\ UNCHANGED <<disk, text, clock, acked, board, cuts, faults>>

--------------------------------------------------------------------------------
(* Callers and the environment *)

\* A handler or a message changes an item; another task may do so during a save, before one
\* of its two reads of the live fields (elsewhere it comes to the same).
Change(x) ==
    /\ \/ step = "idle"
       \/ job.kind = "save" /\ step \in {"write", "decide"}
    /\ clock < LastVersion
    /\ clock' = clock + 1
    /\ fields' = [fields EXCEPT ![x] = clock + 1]
    /\ UNCHANGED <<disk, text, acked, step, job, board, cuts, faults>>

Save(mask) ==
    /\ step = "idle"
    /\ Run(Call("save", mask, <<Legacy>>))
    /\ UNCHANGED <<disk, text, fields, clock, acked, board, cuts, faults>>

SwitchOff == step' = "off" /\ job' = NoJob /\ text' = NoText /\ fields' = Defaults

Restart ==
    /\ step = "idle"
    /\ SwitchOff
    /\ UNCHANGED <<disk, clock, acked, board, cuts, faults>>

PowerLoss ==
    /\ step \notin {"off", "idle"} /\ faults = 0 /\ cuts < MaxCuts
    /\ cuts' = cuts + 1
    /\ SwitchOff
    /\ UNCHANGED <<disk, clock, acked, board, faults>>

StorageNext ==
    \/ PowerOn
    \/ \E x \in Items : Change(x)
    \/ \E mask \in Masks : Save(mask)
    \/ WriteTmp \/ RemoveOld \/ Rename \/ Copy
    \/ Decide \/ Unback \/ Rotate \/ Rewrite \/ FinishRewrite \/ Restore
    \/ Restart \/ PowerLoss

StorageSpec == StorageInit /\ [][StorageNext]_storageVars

--------------------------------------------------------------------------------
(* Properties *)

\* What a caller was told is saved is there after the next boot.
SavedSurvives == step = "idle" => \A x \in Items : fields[x] >= acked[x]

\* With no power loss and no failed operation, what saveDomainsToSD() answers is true.
SurvivesWithoutFailure == cuts = 0 /\ faults = 0 => SavedSurvives

\* The same on a card that came with a /config.json: whatever is then saved in part, with
\* the heap low or by copying, the next boot finds it.
SeededSurvives == board.seeded => SurvivesWithoutFailure

OnePowerLoss == cuts <= 1 /\ faults = 0 /\ board.seeded /\ ~board.copies

\* If /config.json is rewritten by every save, the power loss costs nothing that the boot
\* looks for twice: the domains in Gate, by migrating again, and the Wi-Fi credentials, by
\* healing them.  The connections beside them in network.json may be lost with it.
Twice == {x \in Items : FileOf(x) \in Gate} \cup {Network}

SecondCopySurvives ==
    OnePowerLoss /\ ~board.low /\ step = "idle" => \A x \in Twice : fields[x] >= acked[x]

\* When a save answers true and the next boot will read the domain files, they hold what the
\* caller asked to save.
AnswerIsTrue ==
    [][~board.copies /\ acked' # acked /\ HasModular' =>
            \A x \in Items : FileOf(x) \in job.mask => (Read(x) >= acked[x])']_storageVars

\* Where renames work, the file of a domain is whole or absent, whatever fails and
\* whenever: writeStringAtomic() never lets a torn file under its final name.
NeverTorn == ~board.copies => \A d \in Domains : Exists(d) => Whole(d)
================================================================================
