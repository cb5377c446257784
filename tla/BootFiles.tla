------------------------------ MODULE BootFiles ------------------------------
(***************************************************************************)
(* What a scan of one mounted boot partition finds (src/bootflow.rs):      *)
(* GRUB's variables, the boot loader entries of its BLS directory and the  *)
(* labels of its extlinux configurations.                                  *)
(*                                                                         *)
(* A text file is the sequence of its meaningful lines, a line a record of *)
(* a key and a value, a value the sequence of its words; a word is a       *)
(* literal, the name or the stem of a BLS file, a device tree file, or a   *)
(* reference to a GRUB variable. Empty lines, comments and lines without a *)
(* value are what the parsers skip first, and are left out. A file name is *)
(* a number, in the order of the names.                                    *)
(***************************************************************************)
EXTENDS Integers, Sequences, SequencesExt, FiniteSets

Lit(x)  == [lit |-> x]
Name(n) == [name |-> n]
Stem(n) == [stem |-> n]
Var(k)  == [var |-> k]
IsVar(w) == "var" \in DOMAIN w

Empty == <<>>
NoDtb == Empty
Unsafe == Lit("..")

\* a finite set of numbers, the least first
Ascending(set) ==
    [i \in 1..Cardinality(set) |-> CHOOSE n \in set : Cardinality({m \in set : m < n}) = i - 1]

GRUB_VARIABLE_KEYS == {"blsdir", "kernelopts", "next_entry", "saved_entry", "tuned_initrd",
                       "tuned_params"}
GRUB_OPTIONAL_EMPTY_VARIABLES == {"grub_users", "tuned_initrd", "tuned_params"}
DEFAULT_BLS_DIR == <<Lit("loader/entries")>>

-----------------------------------------------------------------------------
(* GRUB variables *)

push_grub_variable(w, variables) ==
    IF w.var \in DOMAIN variables THEN variables[w.var]
    ELSE IF w.var \in GRUB_OPTIONAL_EMPTY_VARIABLES THEN Empty
    ELSE <<w>>

expand_grub_vars(value, variables) ==
    FlattenSeq([i \in DOMAIN value |->
        IF IsVar(value[i]) THEN push_grub_variable(value[i], variables) ELSE <<value[i]>>])

\* `set key=value`: an unquoted value ends at the first blank
parse_grub_set_assignments(lines) ==
    LET sets == SelectSeq(lines, LAMBDA l : l.set)
        Parsed(l) == IF l.quoted \/ l.value = Empty THEN l.value ELSE <<Head(l.value)>>
    IN [i \in DOMAIN sets |-> [key |-> sets[i].key, value |-> Parsed(sets[i])]]

\* every `key=value` line of the environment block
parse_grubenv_assignments(lines) ==
    [i \in DOMAIN lines |-> [key |-> lines[i].key, value |-> lines[i].value]]

load_assignments(variables, assignments) ==
    LET Assign(v, a) ==
          IF a.key \notin GRUB_VARIABLE_KEYS THEN v
          ELSE (a.key :> expand_grub_vars(a.value, v)) @@ v
    IN FoldLeft(Assign, variables, assignments)

\* the configurations first, the environment blocks over them
BlsContext(fs) ==
    LET fromCfg == FoldLeft(LAMBDA v, f : load_assignments(v, parse_grub_set_assignments(f)),
                            <<>>, fs.cfg)
    IN FoldLeft(LAMBDA v, f : load_assignments(v, parse_grubenv_assignments(f)), fromCfg, fs.env)

Lookup(variables, k) == IF k \in DOMAIN variables THEN variables[k] ELSE Empty

entries_dir(variables) ==
    LET blsdir == Lookup(variables, "blsdir")
    IN expand_grub_vars(IF blsdir = Empty THEN DEFAULT_BLS_DIR ELSE blsdir, variables)

preferred_entry(variables) ==
    LET next == Lookup(variables, "next_entry")
    IN IF next # Empty THEN next ELSE Lookup(variables, "saved_entry")

-----------------------------------------------------------------------------
(* paths *)

\* resolve_boot_path fails for an empty path and for one with a `..`
Resolves(value) == value # Empty /\ Unsafe \notin Range(value)

IsFile(fs, value) == Resolves(value) /\ value \in fs.files

-----------------------------------------------------------------------------
(* the device tree of an entry *)

\* The packaged list wins; without it the live tree's compatible is used.
read_fdt_compatibles(dt) == IF dt.identity = "absent" THEN dt.live ELSE dt.packaged

CompatiblesReadable(dt) ==
    IF dt.identity = "absent" THEN dt.live # <<>> ELSE dt.identity = "valid"

Dtb(parts) == [dtb |-> parts]

push_dtb_candidate_paths(c) ==
    <<Dtb(<<c.vendor, "/", c.name>>), Dtb(<<c.name>>), Dtb(<<c.vendor, ",", c.name>>)>>

\* boards in the order of the list, each alone and below every later soc
fdtdir_candidate_paths(compatibles) ==
    LET names == SelectSeq(compatibles, LAMBDA c : c.safe)
        BelowSoc(board, soc) ==
          <<Dtb(<<soc.vendor, "/", soc.name, "-", board.vendor, "-", board.name>>),
            Dtb(<<soc.vendor, "/", soc.name, "-", board.name>>)>>
        ForBoard(i) == push_dtb_candidate_paths(names[i])
            \o FlattenSeq([j \in 1..(Len(names) - i) |-> BelowSoc(names[i], names[i + j])])
    IN FlattenSeq([i \in DOMAIN names |-> ForBoard(i)])

select_fdtdir_dtb(fs, dir, compatibles) ==
    LET paths == fdtdir_candidate_paths(compatibles)
        hits == {i \in 1..Len(paths) : Append(dir, paths[i]) \in fs.files}
    IN IF hits = {} THEN NoDtb
       ELSE Append(dir, paths[CHOOSE i \in hits : \A j \in hits : i <= j])

-----------------------------------------------------------------------------
(* BLS entries: for one key the last line counts, for the others every line *)

LastValue(lines, keys) ==
    LET at == {i \in DOMAIN lines : lines[i].key \in keys}
    IN IF at = {} THEN Empty ELSE lines[CHOOSE i \in at : \A j \in at : j <= i].value

AllValues(lines, key) ==
    LET at == Ascending({i \in DOMAIN lines : lines[i].key = key})
    IN [i \in DOMAIN at |-> lines[at[i]].value]

\* Other keys are passed over, `devicetree-overlay` among them.
BlsSnippet(lines) ==
    [architecture |-> LastValue(lines, {"architecture"}),
     linux        |-> LastValue(lines, {"linux"}),
     initrds      |-> AllValues(lines, "initrd"),
     devicetree   |-> LastValue(lines, {"devicetree", "fdt", "fdtfile"}),
     fdtdirs      |-> AllValues(lines, "fdtdir"),
     options      |-> AllValues(lines, "options")]

\* Fault: a directory of device trees is taken for a hint.
requires_dtb_not_for_fdtdir(bls) == bls.devicetree # Empty

\* Overlays are no device tree of an entry's own: BlsSnippet does not keep them.
requires_dtb(bls) == bls.devicetree # Empty \/ bls.fdtdirs # <<>>

architecture_matches(value) == value = Empty \/ value \in {<<Lit(a)>> : a \in {"aa64", "aarch64", "arm64"}}

boot_entry_id_matches(file, preferred) == preferred \in {<<Name(file)>>, <<Stem(file)>>}

\* An unsafe fdtdir fails the whole entry, a missing one is passed over.
bls_dtb_path(fs, dt, bls, variables) ==
    LET tree   == expand_grub_vars(bls.devicetree, variables)
        Dir(i) == expand_grub_vars(bls.fdtdirs[i], variables)
        dirs   == {i \in DOMAIN bls.fdtdirs : Dir(i) # Empty}
        Pick(i) == IF Dir(i) \in fs.dirs
                   THEN select_fdtdir_dtb(fs, Dir(i), read_fdt_compatibles(dt)) ELSE NoDtb
        hits == {i \in dirs : Pick(i) # NoDtb}
        first == CHOOSE i \in hits : \A j \in hits : i <= j
    IN IF bls.devicetree # Empty
       THEN IF IsFile(fs, tree) THEN tree ELSE NoDtb
       ELSE IF \/ ~CompatiblesReadable(dt) \/ hits = {}
               \/ \E i \in dirs : i <= first /\ ~Resolves(Dir(i))
            THEN NoDtb
            ELSE Pick(first)

NonEmpty(values) == SelectSeq(values, LAMBDA v : v # Empty)

\* The entry a BLS file makes, as a set of at most one.
parse_bls_file(fs, dt, file, variables) ==
    LET bls     == BlsSnippet(file.lines)
        linux   == expand_grub_vars(bls.linux, variables)
        words   == FlattenSeq([i \in DOMAIN bls.initrds |-> expand_grub_vars(bls.initrds[i], variables)])
        initrds == [i \in DOMAIN words |-> <<words[i]>>]
        dtb     == bls_dtb_path(fs, dt, bls, variables)
        wanted  == preferred_entry(variables)
        preferred == wanted # Empty /\ boot_entry_id_matches(file.name, wanted)
        options == [i \in DOMAIN bls.options |-> expand_grub_vars(bls.options[i], variables)]
    IN IF \/ ~architecture_matches(bls.architecture)
          \/ ~IsFile(fs, linux)
          \/ \E i \in DOMAIN initrds : ~IsFile(fs, initrds[i])
          \/ dtb = NoDtb /\ requires_dtb(bls)
       THEN {}
       ELSE {[id |-> file.name, source |-> 0, preferred |-> preferred,
              boot_order |-> IF wanted # Empty /\ ~preferred THEN 1 ELSE 0,
              linux |-> linux, initrds |-> initrds, dtb |-> dtb,
              options |-> NonEmpty(options)]}

scan_bls_entries(fs, dt, variables) ==
    LET dir == entries_dir(variables)
    IN IF ~Resolves(dir) \/ dir # fs.blsdir THEN {}
       ELSE UNION {parse_bls_file(fs, dt, f, variables) : f \in fs.bls}

-----------------------------------------------------------------------------
(* extlinux *)

\* A label line closes the entry before it; an empty label opens none. Keys
\* that no operator below asks for are passed over, `fdtdir` and `fdtoverlays`
\* among them.
ExtlinuxEntries(lines) ==
    LET labels == {i \in DOMAIN lines : lines[i].key = "label"}
        Block(i) == SubSeq(lines, i + 1,
                      IF \E j \in labels : j > i
                      THEN (CHOOSE j \in labels : j > i /\ \A k \in labels : k > i => j <= k) - 1
                      ELSE Len(lines))
    IN {[label |-> lines[i].value, lines |-> Block(i)] : i \in {i \in labels : lines[i].value # Empty}}

ExtlinuxDefault(lines) ==
    LastValue(SelectSeq(lines, LAMBDA l : l.value # Empty), {"default"})

append(lines) == SelectSeq(AllValues(lines, "append"), LAMBDA v : v \notin {Empty, <<Lit("-")>>})

extlinux_boot_entry(fs, source, default, entry) ==
    LET kernel  == LastValue(entry.lines, {"kernel", "linux"})
        words   == FlattenSeq(AllValues(entry.lines, "initrd"))
        initrds == [i \in DOMAIN words |-> <<words[i]>>]
        trees   == {i \in DOMAIN entry.lines : entry.lines[i].key \in {"fdt", "devicetree"}}
        dtb     == LastValue(entry.lines, {"fdt", "devicetree"})
        isDefault == default = entry.label
    IN IF \/ ~IsFile(fs, kernel)
          \/ \E i \in DOMAIN initrds : ~IsFile(fs, initrds[i])
          \/ trees # {} /\ ~IsFile(fs, dtb)
       THEN {}
       ELSE {[id |-> Head(entry.label).name, source |-> source, preferred |-> isDefault,
              boot_order |-> IF isDefault THEN 0 ELSE 1,
              linux |-> kernel, initrds |-> initrds, dtb |-> dtb, options |-> append(entry.lines)]}

scan_extlinux_entries(fs) ==
    UNION {UNION {extlinux_boot_entry(fs, i, ExtlinuxDefault(fs.extlinux[i]), e) :
                    e \in ExtlinuxEntries(fs.extlinux[i])} : i \in DOMAIN fs.extlinux}

-----------------------------------------------------------------------------
ScanMounted(fs, dt) == scan_bls_entries(fs, dt, BlsContext(fs)) \union scan_extlinux_entries(fs)
=============================================================================
