------------------------------ MODULE SdSettings ------------------------------
(* The settings of .akira_settings/akira_settings.c when they are kept on an SD
   card: one text file of "key-value" lines per namespace and a registry file that
   lists the full names. The work queue thread carries out one work at a time
   (AkiraSettings models the queue). A file is written through fs_manager: opened,
   truncated and written; the card may refuse to open or to write it, and then the
   copy goes to RAM and counts as written, or it may take only the beginning. What
   cannot be opened for reading is looked for in RAM. Power may be lost anywhere.
   A short write leaves the last line without its end, and a line that is added
   later runs into it; the two are taken to spell no other key. Names with a '-' in
   them are left out: a line is found by its beginning. *)
EXTENDS Integers, FiniteSets, Sequences, SequencesExt, Functions

CONSTANTS Names,     \* full names: pairs of a namespace and a key
          Values,    \* per name: what it is set to
          MaxKeys,   \* storage.max_keys
          MaxFaults  \* bound: refusals of the card and losses of power

VARIABLES files,  \* the lines of the files on the card
          ram,    \* the lines of the copies that fs_manager keeps in RAM
          job,    \* the work being carried out
          faults, \* refusals and losses of power so far
          acked   \* per name: what the last answered work promised

vars == <<files, ram, job, faults, acked>>

None == "none"
Unknown == "unknown"
Partial == "partial"
Junk == <<"", "">>
Space(n) == n[1]
Spaces == {Space(n) : n \in Names}
Registry == ".registry"
Paths == Spaces \union {Registry}
NoName == CHOOSE n \in Names : TRUE
Idle == [op |-> "idle", name |-> NoName, at |-> "begin", path |-> Registry, lines |-> <<>>,
         value |-> None, new |-> FALSE, sure |-> TRUE]

(* A line; open: its end is missing. *)
Line(n, v) == [name |-> n, value |-> v, open |-> FALSE]
Drop(f, p) == Restrict(f, DOMAIN f \ {p})
Put(f, p, lines) == [q \in DOMAIN f \union {p} |-> IF q = p THEN lines ELSE f[q]]

(* fs_manager_get_size and fs_manager_read_file *)
File(p) == IF p \in DOMAIN files THEN files[p] ELSE IF p \in DOMAIN ram THEN ram[p] ELSE <<>>

(* What a write of lines that is cut short leaves: the first ones and perhaps the
   beginning of another, which ends in its name or behind it. *)
Beginnings(l) ==
    {[name |-> n, value |-> Partial, open |-> TRUE] : n \in {l.name, Junk}}
Short(lines) ==
    UNION {{SubSeq(lines, 1, k)} \union {Append(SubSeq(lines, 1, k), l) : l \in Beginnings(lines[k + 1])} :
           k \in 0 .. Len(lines) - 1}

(* What is read of a file that is there: its lines, or, when the card refuses,
   nothing or the copy in RAM, as much of it as the file on the card is long. *)
Fault == faults < MaxFaults /\ faults' = faults + 1
Misread(p) == {<<>>} \union IF p \in DOMAIN ram THEN {ram[p]} \union Short(ram[p]) ELSE {}
Reads(p, lines) ==
    \/ lines = File(p) /\ UNCHANGED faults
    \/ lines \in Misread(p) /\ p \in DOMAIN files /\ Fault

(* sd_get_value: the first line that begins with the key *)
LinesOf(lines, n) == SelectSeq(lines, LAMBDA l : l.name = n)
Has(lines, n) == LinesOf(lines, n) # <<>>
Lookup(n) == IF Has(File(Space(n)), n) THEN LinesOf(File(Space(n)), n)[1].value ELSE None

At(op, at) == job.op = op /\ job.at = at
Taken == job.op = "idle"
Goto(at) == job' = [job EXCEPT !.at = at]
Answer == job' = Idle

(* Promises: of one name, and of all names whose file lost lines. A work whose value
   runs into an open line, or whose file the card refused, promises nothing. *)
Promise(n, v) == acked' = [acked EXCEPT ![n] = v]
Forget(p) == acked' = [n \in Names |-> IF Space(n) = p THEN Unknown ELSE acked[n]]

(* ----------------------- fs_manager_write_file ------------------------- *)

(* What the work does once its write has been answered. A save of the registry
   ends it, whatever the answer. *)
Wrote(ok, onCard) ==
    IF job.path = Registry \/ ~ok \/ (job.op = "set" /\ ~job.new) THEN Answer
    ELSE job' = [job EXCEPT !.at = IF job.op = "set" THEN "register" ELSE "unlist",
                            !.sure = @ /\ onCard]

(* fs_open and fs_truncate *)
Open ==
    /\ job.at = "open" /\ Goto("put")
    /\ files' = Put(files, job.path, <<>>)
    /\ UNCHANGED <<ram, faults, acked>>

WriteWhole ==
    /\ job.at = "put" /\ Wrote(TRUE, TRUE)
    /\ files' = Put(files, job.path, job.lines)
    /\ IF job.op = "set" /\ job.path # Registry /\ job.sure
       THEN Promise(job.name, job.value) ELSE UNCHANGED acked
    /\ UNCHANGED <<ram, faults>>

WriteShort ==
    /\ job.at = "put" /\ Fault /\ Wrote(TRUE, TRUE)
    /\ \E lines \in Short(job.lines) : files' = Put(files, job.path, lines)
    /\ Forget(job.path) /\ UNCHANGED ram

(* ram_write_file takes the copy, or has no room and frees the old one. *)
WriteRefused ==
    /\ job.at \in {"open", "put"} /\ Fault
    /\ \/ ram' = Put(ram, job.path, job.lines) /\ Wrote(TRUE, FALSE)
       \/ ram' = Drop(ram, job.path) /\ Wrote(FALSE, FALSE)
    /\ IF job.at = "put" THEN Forget(job.path) ELSE UNCHANGED acked
    /\ UNCHANGED files

(* fs_manager_delete_file; only an unlink on the card is a success. *)
Unlink ==
    /\ job.at = "remove" /\ ram' = Drop(ram, job.path)
    /\ \/ /\ job.path \in DOMAIN files /\ files' = Drop(files, job.path)
          /\ Wrote(TRUE, TRUE) /\ UNCHANGED faults
       \/ /\ job.path \notin DOMAIN files
          /\ Wrote(FALSE, FALSE) /\ UNCHANGED <<files, faults>>
       \/ /\ job.path \in DOMAIN files /\ Fault
          /\ Wrote(FALSE, FALSE) /\ UNCHANGED files
    /\ UNCHANGED acked

(* --------------------------- sd_set_value ------------------------------ *)

(* A line behind the others; it runs into one that has no end. *)
Ragged(lines) == lines # <<>> /\ Last(lines).open
Behind(lines, l) ==
    IF Ragged(lines)
    THEN Append(Front(lines), [Last(lines) EXCEPT !.value = Partial, !.open = FALSE])
    ELSE Append(lines, l)

(* The old lines with the key's first line replaced, or its line behind them. *)
Written(lines, n, v) ==
    IF ~Has(lines, n) THEN Behind(lines, Line(n, v))
    ELSE [lines EXCEPT ![SelectInSeq(lines, LAMBDA l : l.name = n)] = Line(n, v)]

(* setting_work_handler takes the next work: is_new_key is cleared when anything
   was read. What was not read is lost. *)
SetBegin(n, v) ==
    /\ Taken
    /\ \E lines \in {File(Space(n))} \union Misread(Space(n)) :
         /\ Reads(Space(n), lines)
         /\ job' = [Idle EXCEPT !.op = "set", !.name = n, !.at = "open", !.path = Space(n),
                                !.lines = Written(lines, n, v), !.value = v, !.new = lines = <<>>,
                                !.sure = Has(lines, n) \/ ~Ragged(lines)]
         /\ IF lines = File(Space(n)) THEN Promise(n, Unknown) ELSE Forget(Space(n))
    /\ UNCHANGED <<files, ram>>

(* registry_get_all_keys and registry_add_key: a key that is listed, one too many,
   a list that cannot be read and a lack of memory change nothing, unreported. *)
Listed(lines, n) == Has(lines, n)
RegisterNot ==
    /\ At("set", "register")
    /\ \/ Listed(File(Registry), job.name) /\ UNCHANGED faults
       \/ Len(File(Registry)) >= MaxKeys /\ UNCHANGED faults
       \/ Fault
    /\ Answer /\ UNCHANGED <<files, ram, acked>>

(* registry_save_keys_sd: the list is written again, line by line, or deleted. *)
Save(lines) ==
    job' = [job EXCEPT !.path = Registry, !.lines = lines,
                       !.at = IF lines = <<>> THEN "remove" ELSE "open"]
Keys(lines) == [i \in DOMAIN lines |-> Line(lines[i].name, None)]
Register ==
    /\ At("set", "register")
    /\ \E lines \in {File(Registry)} \union Misread(Registry) :
         /\ Reads(Registry, lines)
         /\ ~Listed(lines, job.name) /\ Len(lines) < MaxKeys
         /\ Save(Append(Keys(lines), Line(job.name, None)))
    /\ UNCHANGED <<files, ram, acked>>

(* settings_get, and a work that a file that cannot be read or memory that cannot be
   had ends before it has changed anything. *)
Get == Taken /\ UNCHANGED vars
Refuse == Taken /\ UNCHANGED vars

(* --------------------------- sd_delete_value --------------------------- *)

DeleteMissing(n) == Taken /\ Lookup(n) = None /\ UNCHANGED vars

Rest(lines, n) == SelectSeq(lines, LAMBDA l : l.name # n)
DeleteBegin(n) ==
    /\ Taken
    /\ \E lines \in {File(Space(n))} \union Misread(Space(n)) :
         /\ Has(lines, n) /\ Reads(Space(n), lines)
         /\ job' = [Idle EXCEPT !.op = "delete", !.name = n, !.path = Space(n), !.lines = Rest(lines, n),
                                !.at = IF Rest(lines, n) = <<>> THEN "remove" ELSE "open"]
         /\ IF lines = File(Space(n)) THEN Promise(n, Unknown) ELSE Forget(Space(n))
    /\ UNCHANGED <<files, ram>>

(* registry_delete_key, whose answer is not looked at. *)
Unlist ==
    LET n == job.name IN
    /\ At("delete", "unlist")
    /\ \/ Answer /\ Fault
       \/ \E lines \in {File(Registry)} \union Misread(Registry) :
            /\ Reads(Registry, lines)
            /\ IF Listed(lines, n) THEN Save(Keys(Rest(lines, n))) ELSE Answer
    /\ Promise(n, IF job.sure THEN None ELSE Unknown)
    /\ UNCHANGED <<files, ram>>

(* settings_clear: a directory with a file in it is not removed, so the values
   stay; the registry goes, unless the card refuses. *)
Clear ==
    /\ Taken /\ ram' = Drop(ram, Registry)
    /\ \/ files' = Drop(files, Registry) /\ UNCHANGED faults
       \/ UNCHANGED files /\ Fault
    /\ UNCHANGED <<job, acked>>

(* Power is lost, and with it what is in RAM; a file that was being written again
   is left empty, and nothing is promised of the keys it held. *)
PowerLoss ==
    /\ Fault /\ Answer /\ ram' = [p \in {} |-> <<>>]
    /\ IF job.at = "put" THEN Forget(job.path) ELSE UNCHANGED acked
    /\ UNCHANGED files

Init ==
    /\ files = [p \in {} |-> <<>>] /\ ram = [p \in {} |-> <<>>] /\ job = Idle /\ faults = 0
    /\ acked = [n \in Names |-> None]

Next ==
    \/ \E n \in Names : \/ \E v \in Values[n] : SetBegin(n, v)
                       \/ DeleteMissing(n) \/ DeleteBegin(n)
    \/ Open \/ WriteWhole \/ WriteShort \/ WriteRefused \/ Unlink
    \/ RegisterNot \/ Register \/ Unlist \/ Get \/ Refuse \/ Clear \/ PowerLoss

Spec == Init /\ [][Next]_vars

Lines == [name : Names \union {Junk}, value : UNION Range(Values) \union {None, Partial}, open : BOOLEAN]
TypeOK ==
    /\ DOMAIN files \union DOMAIN ram \subseteq Paths /\ faults \in 0 .. MaxFaults
    /\ \A f \in {files, ram} : \A p \in DOMAIN f : f[p] \in Seq(Lines)

(* What a set or delete answered is what a get finds, through the rewriting of the
   file for other keys, deletes, a clear and losses of power, unless the file of the
   name was being rewritten when power went, was read or written in part, or the
   card refused the write: then a set answers 0 though its value is in RAM alone,
   and the other keys of the file may be gone. *)
SdKept ==
    job.at # "put" =>
        \A n \in Names : acked[n] # Unknown => Lookup(n) = acked[n]

(* A file has one line per key, and the registry no more than it may. *)
OneLineEach ==
    \A f \in {files, ram} : \A p \in DOMAIN f :
        /\ \A i, j \in 1 .. Len(f[p]) : f[p][i].name = f[p][j].name /\ i # j => f[p][i].name = Junk
        /\ p = Registry => Len(f[p]) <= MaxKeys

(* As long as the card refuses nothing and power stays on, a listed name has a
   value. *)
ListedIsSet ==
    faults = 0 /\ job.op = "idle" =>
        \A i \in DOMAIN File(Registry) : Lookup(File(Registry)[i].name) # None

(* The settings on a card as a whole. *)
CardSound == SdKept /\ OneLineEach /\ ListedIsSet
=============================================================================
