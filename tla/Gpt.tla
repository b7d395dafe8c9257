-------------------------------- MODULE Gpt --------------------------------
(***************************************************************************)
(* The GPT of the system disk (libkernelflinger/gpt.c) as fastboot uses   *)
(* it: a primary and a backup copy, each a header and an entries array,   *)
(* the read path with its fallback to the backup copy, the cached table   *)
(* in the global sdisk, and gpt_write_partition_tables split into the     *)
(* WriteDisk calls it makes.  flash_partition and erase_by_label          *)
(* (unnamed/part_000) are the commands that address partitions through    *)
(* the cached table.                                                      *)
(*                                                                         *)
(* A table is a version number: every gpt_create or gpt_swap_partition    *)
(* produces a new one.  A header records the version whose entries CRC it *)
(* carries; an entries array holds a version or is Torn, a partial write  *)
(* whose CRC matches no header.  Header writes are single-block writes    *)
(* and are taken as atomic.                                               *)
(***************************************************************************)
EXTENDS Integers, SequencesExt

CONSTANTS
    MaxVersion,     \* number of tables the run may create (version 1 is on disk)
    MaxFaults,      \* bound on crashes and failed writes in a run
    Faults,         \* the kinds of fault the run admits
    USER,           \* a user build
    \* the gpt_bin inputs (see "The layout of a gpt_bin table")
    BlockSizes,     \* Media->BlockSize of the disk, in bytes
    DiskKiB,        \* disk sizes, in KiB
    StartLbas,      \* start_lba of the gpt_bin header
    PartLengths,    \* lengths of a gpt_bin_part, in MiB (-1: the rest)
    MaxParts        \* npart of the gpt_bin header, at most

ASSUME MaxVersion \in Nat \ {0}
ASSUME MaxFaults \in Nat
ASSUME Faults \subseteq {"crash", "ioerror"}
ASSUME USER \in BOOLEAN
ASSUME BlockSizes \subseteq {512, 4096} /\ DiskKiB \subseteq Nat
ASSUME StartLbas \subseteq Nat /\ PartLengths \subseteq Int /\ MaxParts \in Nat

Versions == 1 .. MaxVersion
Torn == -2          \* an entries array whose CRC matches no header
Blank == 0          \* a header block without the "EFI PART" signature
NoTable == 0        \* gpt_cache_partition found no table: gpt_hd zeroed
Uncached == -1      \* sdisk zeroed by gpt_free_cache, or a new boot
Copies == {"primary", "backup"}
Labels == {"userdata", "esp", "other"}  \* labels every table has
\* the copy and the part each WriteDisk step of a table write writes
WriteTarget ==
    [w_primary_hdr |-> <<"primary", "hdr">>, w_primary_ent |-> <<"primary", "ent">>,
     w_backup_hdr |-> <<"backup", "hdr">>, w_backup_ent |-> <<"backup", "ent">>]
Steps == {"idle", "w_primary_hdr", "w_primary_ent", "w_backup_hdr",
          "w_backup_ent", "w_mbr", "refresh"}

VARIABLES
    \* implementation state
    disk,       \* disk[c] = [hdr, ent] for each copy
    cache,      \* the table held in sdisk / pdisk
    pc,         \* idle between fastboot commands, else the next write
    \* bounds and observation
    next,       \* the version the next new table gets
    faults,     \* faults so far
    misplaced,  \* a flash or erase addressed a layout not on disk
    binLayoutOk, \* the last gpt_bin table gpt_create built met the reference
    \* flash.c
    userdata_erased,    \* the static flag of erase_by_label
    new_install_device, \* set by the fastboot front end for the boot
    erasedLayout        \* the table whose userdata the flag stands for

eraseVars == <<userdata_erased, new_install_device, erasedLayout>>
vars == <<disk, cache, pc, next, faults, misplaced, binLayoutOk, eraseVars>>

(***************************************************************************)
(* Reading the table.                                                      *)
(***************************************************************************)

\* read_gpt_partitions: the entries array read at the header's entries_lba
\* passes when its CRC is the header's entries_crc32.
EntriesMatch(c) == disk[c].ent = disk[c].hdr

\* Mutants of the read path: entries used without their CRC check, and no
\* fallback to the backup copy.
ReadTable_unchecked ==
    IF disk["primary"].hdr # Blank THEN disk["primary"].ent ELSE NoTable
ReadTable_no_fallback ==
    IF EntriesMatch("primary") THEN disk["primary"].hdr ELSE NoTable

\* read_gpt_header: the header block passes its CRC check; a blank block
\* fails it (EFI_COMPROMISED_DATA).
read_gpt_header(c) == disk[c].hdr # Blank

\* gpt_prepare_disk: the master header, or the backup header when the
\* master one is compromised.  A compromised backup is kept as well:
\* gpt_cache_partition accepts EFI_COMPROMISED_DATA.
gpt_prepare_disk == IF read_gpt_header("primary") THEN "primary" ELSE "backup"

\* gpt_list_partition_on_disk: a header without the signature is no GPT
\* (is_gpt_device); entries failing their CRC send it to the backup header
\* and its entries.  On any failure gpt_cache_partition zeroes gpt_hd: no
\* partition is found.
ReadTable ==
    LET c == gpt_prepare_disk IN
    CASE ~read_gpt_header(c) -> NoTable
      [] EntriesMatch(c) -> disk[c].hdr
      [] c = "primary" /\ read_gpt_header("backup") /\ EntriesMatch("backup") ->
            disk["backup"].hdr
      [] OTHER -> NoTable

\* gpt_cache_partition: the cached table if there is one, else a read.
LoadCache == IF cache = Uncached THEN ReadTable ELSE cache

(***************************************************************************)
(* Commands that change the table.  Both modify the cached table in place *)
(* and then call gpt_write_partition_tables.                              *)
(***************************************************************************)

(***************************************************************************)
(* The layout of a gpt_bin table.  gpt_create builds the header with      *)
(* gpt_new, has gpt_check_partition_list size the "-1" partition, and     *)
(* lays the list out with gpt_fill_entries.  These are functions of the   *)
(* block size, the last block, start_lba and the lengths; the labels and  *)
(* GUIDs they copy are left out.  Indices are 1-based: part_data = 0       *)
(* stands for the code's -1.                                               *)
(***************************************************************************)

MiB == 1048576
GPT_ENTRIES == 128          \* gpt.h
GPT_ENTRY_SIZE == 128       \* gpt.h
ALIGN_DOWN(x, a) == (x \div a) * a
Invalid == "INVALID_PARAMETER"

\* gpt_new: the header block and the entries array come before
\* first_usable_lba (a forced start_lba must leave room for them, else the
\* table starts at 1 MiB); last_usable_lba is aligned down to a MiB below
\* the backup copy.
gpt_new(start_lba, blocksize, lastblock) ==
    LET gpt_size == 1 + (GPT_ENTRIES * GPT_ENTRY_SIZE) \div blocksize IN
    [first_usable_lba |->
        IF start_lba # 0 /\ start_lba > 2 + gpt_size THEN start_lba ELSE MiB \div blocksize,
     last_usable_lba |-> ALIGN_DOWN(lastblock - gpt_size, MiB \div blocksize) - 1]

\* Mutant: the lengths are checked but their total is not compared with
\* the disk.
gpt_check_partition_list_no_size_check(gbp, gpt_hd, blocksize) ==
    LET step(acc, i) ==
            CASE acc.ret = Invalid -> acc
              [] gbp[i] = 0 \/ gbp[i] < -1 -> [acc EXCEPT !.ret = Invalid]
              [] gbp[i] = -1 /\ acc.part_data > 0 -> [acc EXCEPT !.ret = Invalid]
              [] gbp[i] = -1 -> [acc EXCEPT !.part_data = i]
              [] OTHER -> [acc EXCEPT !.totsize = @ + gbp[i]]
        loop == FoldLeftDomain(step, [ret |-> "SUCCESS", totsize |-> 0, part_data |-> 0], gbp)
        disksize == ((gpt_hd.last_usable_lba + 1 - gpt_hd.first_usable_lba) * blocksize) \div MiB
    IN CASE loop.ret = Invalid -> [ret |-> Invalid, gbp |-> gbp]
         [] loop.part_data = 0 -> [ret |-> "SUCCESS", gbp |-> gbp]
         [] OTHER -> [ret |-> "SUCCESS",
                      gbp |-> [gbp EXCEPT ![loop.part_data] = disksize - loop.totsize]]

\* gpt_check_partition_list: the loop returns at the first length that is 0
\* or below -1, or at a second -1; the others are summed into totsize.  The
\* list must fit in the usable range, in whole MiB; the -1 partition gets
\* what is left.  With no -1 partition the code writes gbp[-1], outside the
\* list: the list itself is unchanged.
gpt_check_partition_list(gbp, gpt_hd, blocksize) ==
    LET step(acc, i) ==
            CASE acc.ret = Invalid -> acc
              [] gbp[i] = 0 \/ gbp[i] < -1 -> [acc EXCEPT !.ret = Invalid]
              [] gbp[i] = -1 /\ acc.part_data > 0 -> [acc EXCEPT !.ret = Invalid]
              [] gbp[i] = -1 -> [acc EXCEPT !.part_data = i]
              [] OTHER -> [acc EXCEPT !.totsize = @ + gbp[i]]
        loop == FoldLeftDomain(step, [ret |-> "SUCCESS", totsize |-> 0, part_data |-> 0], gbp)
        disksize == ((gpt_hd.last_usable_lba + 1 - gpt_hd.first_usable_lba) * blocksize) \div MiB
    IN CASE loop.ret = Invalid \/ loop.totsize > disksize -> [ret |-> Invalid, gbp |-> gbp]
         [] loop.part_data = 0 -> [ret |-> "SUCCESS", gbp |-> gbp]
         [] OTHER -> [ret |-> "SUCCESS",
                      gbp |-> [gbp EXCEPT ![loop.part_data] = disksize - loop.totsize]]

\* gpt_fill_entries: back to back from first_usable_lba, each partition
\* length MiB long.
gpt_fill_entries(gbp, gpt_hd, blocksize) ==
    LET fill(gp, length) ==
            LET start_lba == IF gp = <<>> THEN gpt_hd.first_usable_lba
                                          ELSE Last(gp).ending_lba + 1
            IN Append(gp, [starting_lba |-> start_lba,
                           ending_lba |-> start_lba - 1 + length * (MiB \div blocksize)])
    IN FoldLeft(fill, <<>>, gbp)

\* gpt_create with a gpt_bin list: the header is built, the list checked,
\* then its length; the entries are filled when all three passed.
gpt_create_bin(in) ==
    LET gpt_hd == gpt_new(in.start_lba, in.blocksize, in.lastblock)
        chk == gpt_check_partition_list(in.gbp, gpt_hd, in.blocksize)
    IN IF chk.ret = Invalid \/ Len(in.gbp) > GPT_ENTRIES
          THEN [ret |-> Invalid]
          ELSE [ret |-> "SUCCESS", gpt_hd |-> gpt_hd,
                partitions |-> gpt_fill_entries(chk.gbp, gpt_hd, in.blocksize)]

\* gpt_write_partition_tables: the primary header at LBA 1 and its entries
\* from entries_lba = 2; the backup header at LastBlock and its entries
\* right below it.
EntriesBlocks(blocksize) == (GPT_ENTRIES * GPT_ENTRY_SIZE) \div blocksize
TableBlocks(blocksize, lastblock) ==
    {1, lastblock} \cup (2 .. 1 + EntriesBlocks(blocksize))
                   \cup (lastblock - EntriesBlocks(blocksize) .. lastblock - 1)

\* The gpt_bin files of the run: npart lengths from PartLengths, on every
\* disk and block size.  A start_lba past the end of the disk makes the
\* UINT64 size of the usable range wrap; those inputs are left out.
GptBinInputs ==
    LET all == [blocksize : BlockSizes, kib : DiskKiB, start_lba : StartLbas,
                gbp : BoundedSeq(PartLengths, MaxParts)]
        input(a) == [blocksize |-> a.blocksize, lastblock |-> (a.kib * 1024) \div a.blocksize - 1,
                     start_lba |-> a.start_lba, gbp |-> a.gbp]
        noWrap(in) == LET hd == gpt_new(in.start_lba, in.blocksize, in.lastblock) IN
                      hd.last_usable_lba >= 0 /\ hd.first_usable_lba <= hd.last_usable_lba + 1
    IN {in \in {input(a) : a \in all} : noWrap(in)}

\* A reference for the tables gpt_create builds from a gpt_bin list
\* that counts blocks rather than MiB: a list is accepted exactly when
\* every length is positive or -1, at most one is -1, and the fixed ones
\* fit in the usable range; then the partitions follow one another from
\* first_usable_lba, each fixed one its length in MiB, the -1 one up to
\* less than a MiB before last_usable_lba, and no partition reaches the
\* MBR, a header or an entries array of either copy.
GptBinMatchesReference(in) ==
    LET hd == gpt_new(in.start_lba, in.blocksize, in.lastblock)
        perMiB == MiB \div in.blocksize
        fixed == {i \in DOMAIN in.gbp : in.gbp[i] # -1}
        rest == {i \in DOMAIN in.gbp : in.gbp[i] = -1}
        want == MapThenSumSet(LAMBDA i : in.gbp[i], fixed) * perMiB
        r == gpt_create_bin(in)
        p == r.partitions
    IN /\ (r.ret = "SUCCESS") <=>
             /\ \A i \in fixed : in.gbp[i] >= 1
             /\ Cardinality(rest) <= 1
             /\ want <= hd.last_usable_lba + 1 - hd.first_usable_lba
       /\ r.ret = "SUCCESS" =>
             /\ Len(p) = Len(in.gbp)
             /\ \A i \in DOMAIN p :
                  /\ p[i].starting_lba = IF i = 1 THEN hd.first_usable_lba
                                                 ELSE p[i - 1].ending_lba + 1
                  /\ i \in fixed => p[i].ending_lba + 1 - p[i].starting_lba = in.gbp[i] * perMiB
                  /\ p[i].ending_lba <= hd.last_usable_lba
             /\ rest # {} => hd.last_usable_lba - Last(p).ending_lba < perMiB
             /\ \A b \in TableBlocks(in.blocksize, in.lastblock) \cup {0} :
                  b < hd.first_usable_lba \/ b > hd.last_usable_lba

\* What gpt_create can return for these lists, and whether the result met
\* the reference.
GptBinOutcomes ==
    {[ret |-> gpt_create_bin(in).ret, sound |-> GptBinMatchesReference(in)] :
        in \in GptBinInputs}

StartWrite ==
    /\ cache' = next
    /\ next' = next + 1
    /\ pc' = "w_primary_hdr"

\* gpt_create: a bpttool header always passes its signature and size
\* check (get_full_gpt_header made the same ones); a gpt_bin list is
\* written when gpt_create_bin accepts it.  Either way the cache is loaded
\* first.  (On a refused list gpt_new has already replaced the cached
\* header; tables here are whole versions, so that is not represented.)
gpt_create(payload) ==
    IF payload = "bpttool" THEN StartWrite /\ UNCHANGED binLayoutOk
    ELSE \E o \in GptBinOutcomes :
            /\ binLayoutOk' = o.sound
            /\ IF o.ret = Invalid THEN cache' = LoadCache /\ UNCHANGED <<next, pc>>
                                 ELSE StartWrite

\* _flash_gpt, from flash_gpt: get_full_gpt_header recognises a bpttool
\* image (MBR, header, entries), else the payload must be a gpt_bin list;
\* any other payload is refused before the disk is looked at.
\* payload: "bpttool", "gpt_bin" or "other".
_flash_gpt(payload) ==
    /\ next <= MaxVersion
    /\ IF payload = "other" THEN UNCHANGED <<cache, next, pc, binLayoutOk>> ELSE gpt_create(payload)
    /\ UNCHANGED <<eraseVars, disk, faults, misplaced>>

\* gpt_swap_partition: both labels must be in the cached table.
gpt_swap_partition ==
    /\ pc = "idle"
    /\ next <= MaxVersion
    /\ \/ /\ LoadCache = NoTable
          /\ cache' = NoTable
          /\ UNCHANGED <<next, pc>>
       \/ /\ LoadCache # NoTable
          /\ StartWrite
    /\ UNCHANGED <<eraseVars, disk, faults, misplaced, binLayoutOk>>

(***************************************************************************)
(* gpt_write_partition_tables: gpt_write_table_to_disk for the primary    *)
(* copy (header, then entries), then for the backup copy, then            *)
(* gpt_write_mbr, then gpt_refresh.  Any failed call returns at once.     *)
(***************************************************************************)

CanFail(kind) == kind \in Faults /\ faults < MaxFaults

\* What a failed or interrupted WriteDisk leaves: a header block is old or
\* new, an entries array may also be left partly written.
Leftover(c, part) ==
    IF part = "ent" THEN {disk[c][part], Torn} ELSE {disk[c][part]}

WriteStep(c, part, to) ==
    /\ \/ /\ disk' = [disk EXCEPT ![c][part] = cache]
          /\ pc' = to
          /\ UNCHANGED faults
       \/ /\ CanFail("ioerror")
          /\ \E v \in Leftover(c, part) : disk' = [disk EXCEPT ![c][part] = v]
          /\ pc' = "idle"
          /\ faults' = faults + 1
    /\ UNCHANGED <<eraseVars, cache, next, misplaced, binLayoutOk>>

write_primary_header == pc = "w_primary_hdr" /\ WriteStep("primary", "hdr", "w_primary_ent")
write_primary_entries == pc = "w_primary_ent" /\ WriteStep("primary", "ent", "w_backup_hdr")
write_backup_header == pc = "w_backup_hdr" /\ WriteStep("backup", "hdr", "w_backup_ent")
write_backup_entries == pc = "w_backup_ent" /\ WriteStep("backup", "ent", "w_mbr")

\* gpt_write_mbr: the protective MBR carries no table state.
gpt_write_mbr ==
    /\ pc = "w_mbr"
    /\ \/ /\ pc' = "refresh"
          /\ UNCHANGED faults
       \/ /\ CanFail("ioerror")
          /\ pc' = "idle"
          /\ faults' = faults + 1
    /\ UNCHANGED <<eraseVars, disk, cache, next, misplaced, binLayoutOk>>

\* gpt_refresh: gpt_sync, ReinstallProtocolInterface, gpt_free_cache.  A
\* failed flush or reinstall returns before the cache is freed.
gpt_refresh ==
    /\ pc = "refresh"
    /\ pc' = "idle"
    /\ \/ /\ cache' = Uncached
          /\ UNCHANGED faults
       \/ /\ CanFail("ioerror")
          /\ faults' = faults + 1
          /\ UNCHANGED cache
    /\ UNCHANGED <<eraseVars, disk, next, misplaced, binLayoutOk>>

(***************************************************************************)
(* Commands that use the table.                                            *)
(***************************************************************************)

\* gpt_get_partition_by_label, then a write of the blocks between the
\* partition's starting_lba and ending_lba as the cached table gives them.
\* A failed data write returns at once; after a write to the ESP the
\* caller calls gpt_refresh.  ok: the write succeeded.
WriteData(ok, esp) ==
    \/ /\ LoadCache = NoTable
       /\ cache' = NoTable
       /\ UNCHANGED misplaced
    \/ /\ LoadCache # NoTable
       /\ misplaced' = (misplaced \/ LoadCache # ReadTable)
       /\ cache' = IF ok /\ esp THEN Uncached ELSE LoadCache

\* flash_partition: a label of the table, the ESP included.
flash_partition(label) ==
    /\ \E ok \in BOOLEAN : WriteData(ok, label = "esp")
    /\ UNCHANGED <<eraseVars, disk, pc, next, faults, binLayoutOk>>

\* flash: "gpt" is one of the LABEL_EXCEPTIONS and goes to flash_gpt; any
\* other label of the table goes to flash_partition.  (The other special
\* labels write payloads that hold no table state.)
flash ==
    /\ pc = "idle"
    /\ \/ \E payload \in {"bpttool", "gpt_bin", "other"} : _flash_gpt(payload)
       \/ \E label \in Labels : flash_partition(label)

\* erase_by_label: userdata is erased once per boot; on a new install
\* device, or a non-USER build, by fast_erase_part, which does not record
\* it; otherwise by erase_blocks, after which a USER build records it.
erase_by_label ==
    /\ pc = "idle"
    /\ \E label \in Labels, ok \in BOOLEAN :
        \/ /\ label = "userdata"
           /\ userdata_erased
           /\ UNCHANGED <<cache, misplaced, userdata_erased, erasedLayout>>
        \/ /\ label = "userdata"
           /\ ~userdata_erased
           /\ new_install_device \/ ~USER
           /\ WriteData(ok, FALSE)
           /\ UNCHANGED <<userdata_erased, erasedLayout>>
        \/ /\ label = "userdata" => ~userdata_erased /\ USER /\ ~new_install_device
           /\ WriteData(ok, label = "esp")
           /\ IF label = "userdata" /\ ok /\ LoadCache # NoTable
                 THEN /\ userdata_erased' = TRUE
                      /\ erasedLayout' = LoadCache
                 ELSE UNCHANGED <<userdata_erased, erasedLayout>>
    /\ UNCHANGED <<disk, pc, next, faults, new_install_device, binLayoutOk>>

\* Every boot starts with the statics of flash.c cleared.
NewBoot ==
    /\ userdata_erased' = FALSE
    /\ erasedLayout' = NoTable
    /\ new_install_device' \in BOOLEAN

(***************************************************************************)
(* The environment.                                                        *)
(***************************************************************************)

\* A reset or power loss in the middle of a command: the WriteDisk in
\* progress is left old, or partly written; the new boot starts uncached.
Crash ==
    /\ pc # "idle"
    /\ CanFail("crash")
    /\ \/ /\ pc \in DOMAIN WriteTarget
          /\ \E v \in Leftover(WriteTarget[pc][1], WriteTarget[pc][2]) :
                disk' = [disk EXCEPT ![WriteTarget[pc][1]][WriteTarget[pc][2]] = v]
       \/ /\ pc \in {"w_mbr", "refresh"}
          /\ UNCHANGED disk
    /\ cache' = Uncached
    /\ pc' = "idle"
    /\ faults' = faults + 1
    /\ NewBoot
    /\ UNCHANGED <<next, misplaced, binLayoutOk>>

\* A reboot between fastboot commands.
Reboot ==
    /\ pc = "idle"
    /\ cache' = Uncached
    /\ NewBoot
    /\ UNCHANGED <<disk, pc, next, faults, misplaced, binLayoutOk>>

(***************************************************************************)
(* The specification.  The disk starts with table 1 in both copies, or    *)
(* blank, as a new device before its first "fastboot flash gpt".           *)
(***************************************************************************)

Init ==
    /\ \E t \in {1, Blank} : disk = [c \in Copies |-> [hdr |-> t, ent |-> t]]
    /\ cache = Uncached
    /\ pc = "idle"
    /\ next = 2
    /\ faults = 0
    /\ misplaced = FALSE
    /\ binLayoutOk = TRUE
    /\ userdata_erased = FALSE
    /\ new_install_device \in BOOLEAN
    /\ erasedLayout = NoTable

Next ==
    \/ flash
    \/ gpt_swap_partition
    \/ write_primary_header
    \/ write_primary_entries
    \/ write_backup_header
    \/ write_backup_entries
    \/ gpt_write_mbr
    \/ gpt_refresh
    \/ erase_by_label
    \/ Crash
    \/ Reboot

Spec == Init /\ [][Next]_vars

(***************************************************************************)
(* Properties.                                                             *)
(***************************************************************************)

\* Every variable has its type; in particular the cached table is a table
\* some command created, never a torn entries array.
TypeOK ==
    /\ disk \in [Copies -> [hdr : Versions \cup {Blank}, ent : Versions \cup {Torn, Blank}]]
    /\ cache \in Versions \cup {NoTable, Uncached}
    /\ pc \in Steps
    /\ next \in 2 .. MaxVersion + 1
    /\ faults \in 0 .. MaxFaults
    /\ misplaced \in BOOLEAN
    /\ binLayoutOk \in BOOLEAN
    /\ userdata_erased \in BOOLEAN
    /\ new_install_device \in BOOLEAN
    /\ erasedLayout \in Versions \cup {NoTable}

\* The redundancy of gpt_write_partition_tables and the fallback of
\* gpt_list_partition_on_disk: once a command has left a readable table on
\* disk, whenever a later command has ended, returned an error or been cut
\* short by a reset, the next gpt_cache_partition finds a partition table.
\* (Between the WriteDisk calls of one command no read happens.)
TableReadableAtRest == pc = "idle" => ReadTable # NoTable
TableNeverLost == [](pc = "idle" /\ ReadTable # NoTable => []TableReadableAtRest)

\* flash_partition and erase_by_label only write through the layout that
\* is on disk: the table cached in sdisk is the one a fresh read returns.
LayoutUsedIsOnDisk == ~misplaced

\* erase_by_label skips userdata when userdata_erased says it was erased in
\* this boot; the flag may only be set while the userdata it erased is the
\* userdata partition of the table on disk.
ErasedFlagCurrent ==
    (pc = "idle" /\ userdata_erased) => erasedLayout = ReadTable

\* The gpt_bin lists gpt_create accepts and the tables it builds from them
\* met the reference of GptBinMatchesReference.
GptBinLayoutSound == binLayoutOk

\* gpt_check_partition_list refuses a fixed length of 0; the partition
\* with length -1 should not be left empty either: every partition of an
\* accepted list ends at or after its first block.
GptBinRestNonEmpty ==
    \A in \in GptBinInputs :
        LET r == gpt_create_bin(in) IN
        r.ret = "SUCCESS" =>
            \A i \in DOMAIN r.partitions :
                r.partitions[i].ending_lba >= r.partitions[i].starting_lba

=============================================================================
