---------------------------- MODULE KernelPayload ----------------------------
(***************************************************************************)
(* From the kernel file of a boot entry to the arm64 Image that is loaded  *)
(* (src/kexec.rs, prepare_kernel_payload, with src/pe.rs and src/zboot.rs).*)
(* A file is described by the marks the code looks for: the magic of an    *)
(* arm64 Image and the magic of a gzip stream, each with what is behind it.*)
(***************************************************************************)
EXTENDS Integers, Sequences

CONSTANTS
    MaxSections,    \* bound: sections of a PE file
    MaxMarks        \* bound: marks in a section

VARIABLES
    payload,        \* the file
    pc,             \* "prepare", "raw", "gzip" (the two scans) or "done"
    section,        \* the section being scanned
    search_offset,  \* the marks of it that were tried
    result

vars == <<payload, pc, section, search_offset, result>>

\* What a compressed stream holds: an arm64 Image, something else, or an error.
Contents == {"image", "other", "bad"}

\* "image": the magic of a proper arm64 Image; "stray": the same bytes with no
\* room for a header before them or with a misaligned text offset; "gz_*":
\* the magic of gzip and what decompressing from there gives.
Marks == {"image", "stray", "gz_image", "gz_other", "gz_bad"}

Sections == UNION {[1 .. n -> Marks] : n \in 0 .. MaxMarks}

\* The Linux EFI zboot header at the start of a PE file, "none" without one.
Zboot == [compression : {"gzip", "zstd", "unsupported"}, content : Contents]

Pe(machine, zboot, sections) ==
    [form |-> "pe", machine |-> machine, zboot |-> zboot, sections |-> sections]

\* "mz" starts like a PE file and a table of it does not fit the file.
Payloads ==
    [form : {"image", "other", "mz"}]
    \cup [form : {"gzip"}, content : Contents]
    \cup {Pe("x86_64", [compression |-> "none"], <<>>)}
    \cup {Pe("arm64", zboot, <<<<"image">>>>) : zboot \in Zboot \cup [compression : {"bad"}]}
    \cup {Pe("arm64", [compression |-> "none"], s) :
              s \in UNION {[1 .. n -> Sections] : n \in 0 .. MaxSections}}

Kept      == [kind |-> "kept"]
Error     == [kind |-> "error"]
Bytes(c)  == IF c = "bad" THEN Error ELSE [kind |-> "bytes", content |-> c]
Embedded(s, i) == [kind |-> "embedded", section |-> s, mark |-> i]

Init ==
    /\ payload \in Payloads
    /\ pc = "prepare" /\ section = 1 /\ search_offset = 0
    /\ result = Kept

Done(r) == pc' = "done" /\ result' = r /\ UNCHANGED <<payload, section, search_offset>>

\* A zboot header decides alone: its payload is an arm64 Image or the file is
\* refused.
decompress_zboot_payload(zboot) ==
    IF zboot.compression \in {"gzip", "zstd"} /\ zboot.content = "image"
    THEN Bytes("image") ELSE Error

Extract ==
    IF payload.zboot.compression # "none" THEN Done(decompress_zboot_payload(payload.zboot))
    ELSE pc' = "raw" /\ UNCHANGED <<payload, section, search_offset, result>>

\* A raw Image and a file of an unknown form are kept, and what a top-level
\* gzip stream holds is not looked at: load_arm64 does that later.
Prepare ==
    /\ pc = "prepare"
    /\ \/ payload.form \in {"image", "other"} /\ Done(Kept)
       \/ payload.form = "gzip" /\ Done(Bytes(payload.content))
       \/ payload.form = "mz" /\ Done(Error)
       \/ /\ payload.form = "pe"
          /\ IF payload.machine = "arm64" THEN Extract ELSE Done(Error)

Data == payload.sections[section]

InSection == section <= Len(payload.sections)

FirstMagic(data) ==
    LET at == {i \in 1 .. Len(data) : data[i] \in {"image", "stray"}}
    IN IF at = {} THEN 0 ELSE CHOOSE i \in at : \A j \in at : i <= j

\* Only the first magic of a section is looked at.
ScanRaw ==
    /\ pc = "raw" /\ InSection
    /\ LET at == FirstMagic(Data)
       IN IF at # 0 /\ Data[at] = "image" THEN Done(Embedded(section, at))
          ELSE section' = section + 1 /\ UNCHANGED <<payload, pc, search_offset, result>>

NoRawImage ==
    /\ pc = "raw" /\ ~InSection
    /\ pc' = "gzip" /\ section' = 1
    /\ UNCHANGED <<payload, search_offset, result>>

\* Fault: a candidate that does not decompress ends the scan of the section.
Candidate_bad_ends_section(next) ==
    /\ pc = "gzip" /\ InSection
    /\ next <= Len(Data)
    /\ IF Data[next] = "gz_image" THEN Done(Embedded(section, next))
       ELSE /\ search_offset' = IF Data[next] = "gz_bad" THEN Len(Data) ELSE next
            /\ UNCHANGED <<payload, pc, section, result>>

\* A candidate that is not an Image, or does not decompress, is stepped over.
Candidate(next) ==
    /\ pc = "gzip" /\ InSection
    /\ next <= Len(Data)
    /\ IF Data[next] = "gz_image" THEN Done(Embedded(section, next))
       ELSE search_offset' = next /\ UNCHANGED <<payload, pc, section, result>>

SectionScanned ==
    /\ pc = "gzip" /\ InSection /\ search_offset = Len(Data)
    /\ section' = section + 1 /\ search_offset' = 0
    /\ UNCHANGED <<payload, pc, result>>

NoImage == pc = "gzip" /\ ~InSection /\ Done(Error)

Next == \/ Prepare \/ ScanRaw \/ NoRawImage
        \/ Candidate(search_offset + 1)
        \/ SectionScanned \/ NoImage

-----------------------------------------------------------------------------
\* What a PE file is turned into is an arm64 Image; and it is refused only if
\* no gzip stream in any of its sections, before or behind damaged and foreign
\* ones, holds an Image, and no section starts its magics with one
\* (extract_pe_arm64_kernel, find_gzipped_arm64_image).
KernelIsExtracted ==
    (pc = "done" /\ payload.form = "pe") =>
        \/ result = Bytes("image") /\ payload.zboot.content = "image"
        \/ /\ result.kind = "embedded"
           /\ payload.sections[result.section][result.mark] \in {"image", "gz_image"}
        \/ /\ result = Error
           /\ payload.machine = "arm64" /\ payload.zboot.compression = "none" =>
                  \A s \in 1 .. Len(payload.sections) :
                      LET data == payload.sections[s]
                      IN /\ \A i \in 1 .. Len(data) : data[i] # "gz_image"
                         /\ FirstMagic(data) # 0 => data[FirstMagic(data)] = "stray"
=============================================================================
