--------------------------- MODULE Streams_proofs ----------------------------
(***************************************************************************)
(* Theorems about four of the loops that MCStreams runs: the wait for the *)
(* local flash, for any quiet time, deadline and number of changes; the    *)
(* search for a kernel in a PE file, for any number of sections and marks; *)
(* the expansion of a sparse image, for any partition and any number of    *)
(* chunks; and the kernel log forwarder, for any ring, limit and records.  *)
(***************************************************************************)
EXTENDS MCStreams, FiniteSetTheorems, SequenceTheorems, TLAPS

-----------------------------------------------------------------------------
(* The wait for the local flash (StorageSettle).                            *)

\* As long as the socket is open, a change that last_change does not count is
\* announced by a uevent that waits to be drained; so whatever happened before
\* the last drain is counted.
SettleInv ==
    /\ now \in Nat /\ last_change \in Nat /\ changed \in Nat /\ calm \in Nat
    /\ uevents \in Nat
    /\ last_change <= now /\ changed <= now
    /\ socket => /\ uevents > 0 \/ changed <= last_change
                 /\ calm <= last_change
    /\ SettledIsQuiet

\* The wait begins with nothing counted and nothing announced.
LEMMA SettleInit == Init => SettleInv
  BY SettleAssumption DEF Init, T!Init, SettleInv, SettledIsQuiet, T!SettledIsQuiet

\* A change of the storage is announced and not counted, or counted by the
\* drain that hears of it.
LEMMA SettleNext == SettleInv /\ [T!Next]_settleVars => SettleInv'
<1> SUFFICES ASSUME SettleInv, [T!Next]_settleVars PROVE SettleInv'
  OBVIOUS
<1> USE SettleAssumption DEF SettleInv, SettledIsQuiet, T!SettledIsQuiet
<1>1. CASE ~T!Reported /\ T!StorageChanges
  BY <1>1 DEF T!StorageChanges, T!Reported
<1>2. CASE T!SocketFails
  BY <1>2 DEF T!SocketFails
<1>3. CASE T!Drain
  BY <1>3 DEF T!Drain, T!Heard
<1>4. ASSUME NEW disks \in T!Captures, T!Poll(disks) PROVE SettleInv'
  BY <1>4 DEF T!Poll
<1>5. CASE UNCHANGED settleVars
  BY <1>5 DEF settleVars
<1> QED
  BY <1>1, <1>2, <1>3, <1>4, <1>5 DEF T!Next

\* The flash is reported settled only when it is there and, uevents being
\* heard, was left alone for the quiet time; and the wait ends by its deadline.
THEOREM SettledQuiet == Spec => []SettledIsQuiet
<1>1. SettleInv /\ [Next]_<<loop, sparseVars, walkVars, kmsgVars, settleVars, payloadVars>>
        => SettleInv'
  <2>1. [Next]_<<loop, sparseVars, walkVars, kmsgVars, settleVars, payloadVars>>
          => [T!Next]_settleVars
    BY DEF Next
  <2> QED
    BY <2>1, SettleNext
<1>2. SettleInv => SettledIsQuiet
  BY DEF SettleInv
<1> QED
  BY SettleInit, <1>1, <1>2, PTL DEF Spec

-----------------------------------------------------------------------------
(* The search for a kernel (KernelPayload).                                 *)

\* A scanned section: no magic of an Image came first in it, no gzip stream in
\* it holds one.
NoRaw(data)  == P!FirstMagic(data) # 0 => data[P!FirstMagic(data)] = "stray"
NoGzip(data, to) == \A i \in 1 .. to : data[i] # "gz_image"

\* While a PE file is scanned, everything behind the two scans is known not to
\* be an Image.
RawScan ==
    \A s \in 1 .. Len(payload.sections) :
        s < section => NoRaw(payload.sections[s])

GzipScan ==
    \A s \in 1 .. Len(payload.sections) :
        LET data == payload.sections[s]
        IN /\ NoRaw(data)
           /\ s < section => NoGzip(data, Len(data))
           /\ s = section => search_offset <= Len(data) /\ NoGzip(data, search_offset)

\* The files that are scanned.
Scanned == /\ payload.form = "pe" /\ payload.machine = "arm64"
           /\ payload.zboot.compression = "none"

PayloadInv ==
    /\ payload \in P!Payloads
    /\ pPc \in {"prepare", "raw", "gzip", "done"}
    /\ section \in Nat \ {0} /\ search_offset \in Nat
    /\ pPc = "prepare" => section = 1
    /\ pPc \in {"prepare", "raw"} => search_offset = 0
    /\ pPc = "raw" => Scanned /\ RawScan
    /\ pPc = "gzip" => Scanned /\ GzipScan
    /\ KernelIsExtracted

\* A PE file that is scanned has sections of marks.
LEMMA SectionsAreMarks ==
  ASSUME payload \in P!Payloads, Scanned
  PROVE  payload.sections \in Seq(Seq(P!Marks))
<1> USE PayloadAssumption
<1>1. PICK sec : /\ sec \in UNION {[1 .. n -> P!Sections] : n \in 0 .. MaxSections}
                 /\ payload = P!Pe("arm64", [compression |-> "none"], sec)
  <2>1. payload \notin [form : {"image", "other", "mz"}]
    BY DEF Scanned
  <2>2. payload \notin [form : {"gzip"}, content : P!Contents]
    BY DEF Scanned
  <2>3. payload # P!Pe("x86_64", [compression |-> "none"], <<>>)
    BY DEF Scanned, P!Pe
  <2>4. ASSUME NEW zboot \in P!Zboot \cup [compression : {"bad"}]
        PROVE  payload # P!Pe("arm64", zboot, <<<<"image">>>>)
    BY DEF Scanned, P!Pe, P!Zboot
  <2> QED
    BY <2>1, <2>2, <2>3, <2>4 DEF P!Payloads
<1>2. PICK n \in 0 .. MaxSections : sec \in [1 .. n -> P!Sections]
  BY <1>1
<1>3. P!Sections \subseteq Seq(P!Marks)
  <2> SUFFICES ASSUME NEW d \in P!Sections PROVE d \in Seq(P!Marks)
    OBVIOUS
  <2>1. PICK m \in 0 .. MaxMarks : d \in [1 .. m -> P!Marks]
    BY DEF P!Sections
  <2> QED
    BY <2>1
<1>4. sec \in Seq(Seq(P!Marks))
  BY <1>2, <1>3
<1> QED
  BY <1>1, <1>4 DEF P!Pe

\* FirstMagic names a position that holds a magic of an Image.
LEMMA FirstMagicFacts ==
  ASSUME NEW data \in Seq(P!Marks), P!FirstMagic(data) # 0
  PROVE  /\ P!FirstMagic(data) \in 1 .. Len(data)
         /\ data[P!FirstMagic(data)] \in {"image", "stray"}
<1> DEFINE at == {i \in 1 .. Len(data) : data[i] \in {"image", "stray"}}
<1>1. at # {} /\ P!FirstMagic(data) = CHOOSE i \in at : \A j \in at : i <= j
  BY DEF P!FirstMagic
<1>2. at \subseteq Nat
  OBVIOUS
<1>3. \E i \in at : \A j \in at : i <= j
  <2>1. \E i \in at : \A j \in at : ~(<<j, i>> \in OpToRel(<, Nat))
    <3> HIDE DEF at
    <3> QED
      BY <1>1, <1>2, NatLessThanWellFounded, WFMin
  <2>2. PICK i \in at : \A j \in at : ~(<<j, i>> \in OpToRel(<, Nat))
    BY <2>1
  <2>3. \A j \in at : ~(j < i)
    BY <1>2, <2>2 DEF OpToRel
  <2> QED
    BY <1>2, <2>3
<1> HIDE DEF at
<1>4. P!FirstMagic(data) \in at
  BY <1>1, <1>3
<1> QED
  BY <1>4 DEF at

\* The first section is the next to be scanned.
LEMMA PayloadInit == Init => PayloadInv
  BY DEF Init, P!Init, PayloadInv, KernelIsExtracted, P!KernelIsExtracted

\* A scan steps over a section or a stream only when it is no Image, and gives
\* up only at the end of the last section.
LEMMA PayloadNext == PayloadInv /\ [P!Next]_payloadVars => PayloadInv'
<1> SUFFICES ASSUME PayloadInv, [P!Next]_payloadVars PROVE PayloadInv'
  OBVIOUS
<1> DEFINE sections == payload.sections
<1>0. /\ payload \in P!Payloads /\ section \in Nat \ {0} /\ search_offset \in Nat
      /\ pPc = "prepare" => section = 1
      /\ pPc \in {"prepare", "raw"} => search_offset = 0
      /\ pPc = "raw" => Scanned /\ RawScan
      /\ pPc = "gzip" => Scanned /\ GzipScan
  BY DEF PayloadInv
<1>1. Scanned => /\ sections \in Seq(Seq(P!Marks)) /\ Len(sections) \in Nat
                 /\ \A s \in 1 .. Len(sections) : /\ sections[s] \in Seq(P!Marks)
                                                  /\ Len(sections[s]) \in Nat
  <2>1. ASSUME Scanned PROVE sections \in Seq(Seq(P!Marks))
    BY <1>0, <2>1, SectionsAreMarks
  <2> QED
    BY <2>1
\* The verdict: whoever is done has an answer that holds.
<1>2. ASSUME NEW v, P!Done(v), (KernelIsExtracted)' PROVE PayloadInv'
  BY <1>0, <1>2 DEF P!Done, PayloadInv
<1>3. CASE P!Prepare
  <2>1. CASE payload.form # "pe"
    <3>1. PICK v : P!Done(v)
      BY <1>3, <2>1 DEF P!Prepare
    <3>2. (KernelIsExtracted)'
      BY <2>1, <3>1 DEF P!Done, KernelIsExtracted, P!KernelIsExtracted
    <3> QED
      BY <1>2, <3>1, <3>2
  <2>2. CASE payload.form = "pe" /\ payload.machine # "arm64"
    <3>1. P!Done(P!Error)
      BY <1>3, <2>2 DEF P!Prepare
    <3>2. (KernelIsExtracted)'
      BY <2>2, <3>1 DEF P!Done, KernelIsExtracted, P!KernelIsExtracted
    <3> QED
      BY <1>2, <3>1, <3>2
  <2>3. CASE /\ payload.form = "pe" /\ payload.machine = "arm64"
             /\ payload.zboot.compression # "none"
    <3>1. P!Done(P!decompress_zboot_payload(payload.zboot))
      BY <1>3, <2>3 DEF P!Prepare, P!Extract
    <3>2. (KernelIsExtracted)'
      BY <2>3, <3>1
         DEF P!Done, KernelIsExtracted, P!KernelIsExtracted,
             P!decompress_zboot_payload, P!Bytes, P!Error
    <3> QED
      BY <1>2, <3>1, <3>2
  <2>4. CASE Scanned
    <3>1. pPc = "prepare" /\ pPc' = "raw" /\ UNCHANGED <<payload, section, search_offset, result>>
      BY <1>3, <2>4 DEF P!Prepare, P!Extract, Scanned
    <3>2. Scanned' /\ RawScan'
      BY <1>0, <2>4, <3>1 DEF Scanned, RawScan
    <3> QED
      BY <1>0, <3>1, <3>2 DEF PayloadInv, KernelIsExtracted, P!KernelIsExtracted
  <2> QED
    BY <2>1, <2>2, <2>3, <2>4 DEF Scanned
<1>4. CASE P!ScanRaw
  <2> DEFINE data == sections[section]
             at == P!FirstMagic(data)
  <2>0. pPc = "raw" /\ section <= Len(sections) /\ Scanned /\ RawScan
    BY <1>0, <1>4 DEF P!ScanRaw, P!InSection
  <2>1. data \in Seq(P!Marks)
    BY <1>0, <1>1, <2>0
  <2>2. CASE at # 0 /\ data[at] = "image"
    <3>1. P!Done(P!Embedded(section, at))
      BY <1>4, <2>2 DEF P!ScanRaw, P!Data
    <3> HIDE DEF at
    <3>2. (KernelIsExtracted)'
      BY <2>2, <3>1
         DEF P!Done, KernelIsExtracted, P!KernelIsExtracted, P!Embedded
    <3> QED
      BY <1>2, <3>1, <3>2
  <2>3. CASE ~(at # 0 /\ data[at] = "image")
    <3>1. section' = section + 1 /\ UNCHANGED <<payload, pPc, search_offset, result>>
      BY <1>4, <2>3 DEF P!ScanRaw, P!Data
    <3>2. NoRaw(data)
      BY <2>1, <2>3, FirstMagicFacts DEF NoRaw
    <3>3. \A s \in 1 .. Len(sections) : s < section + 1 => NoRaw(sections[s])
      BY <1>0, <1>1, <2>0, <3>2 DEF RawScan
    <3>4. RawScan' /\ Scanned'
      BY <2>0, <3>1, <3>3 DEF RawScan, Scanned
    <3> QED
      BY <1>0, <2>0, <3>1, <3>4
         DEF PayloadInv, KernelIsExtracted, P!KernelIsExtracted
  <2> QED
    BY <2>2, <2>3
<1>5. CASE P!NoRawImage
  <2>1. /\ pPc = "raw" /\ Scanned /\ RawScan /\ ~(section <= Len(sections))
        /\ pPc' = "gzip" /\ section' = 1 /\ search_offset = 0
        /\ UNCHANGED <<payload, search_offset, result>>
    BY <1>0, <1>5 DEF P!NoRawImage, P!InSection
  <2>2. \A s \in 1 .. Len(sections) : NoRaw(sections[s])
    BY <1>0, <1>1, <2>1 DEF RawScan
  <2>3. GzipScan' /\ Scanned'
    BY <1>1, <2>1, <2>2 DEF GzipScan, NoGzip, Scanned
  <2> QED
    BY <1>0, <2>1, <2>3 DEF PayloadInv, KernelIsExtracted, P!KernelIsExtracted
<1>6. CASE P!Candidate(search_offset + 1)
  <2> DEFINE data == sections[section]
             n == search_offset + 1
  <2>0. pPc = "gzip" /\ section <= Len(sections) /\ Scanned /\ GzipScan /\ n <= Len(data)
    BY <1>0, <1>6 DEF P!Candidate, P!InSection, P!Data
  <2>1. CASE data[n] = "gz_image"
    <3>1. P!Done(P!Embedded(section, n))
      BY <1>6, <2>1 DEF P!Candidate, P!Data
    <3>2. (KernelIsExtracted)'
      BY <2>1, <3>1
         DEF P!Done, KernelIsExtracted, P!KernelIsExtracted, P!Embedded
    <3> QED
      BY <1>2, <3>1, <3>2
  <2>2. CASE data[n] # "gz_image"
    <3>1. search_offset' = n /\ UNCHANGED <<payload, pPc, section, result>>
      BY <1>6, <2>2 DEF P!Candidate, P!Data
    <3>2. NoGzip(data, n)
      BY <1>0, <1>1, <2>0, <2>2 DEF GzipScan, NoGzip
    <3>3. GzipScan' /\ Scanned'
      BY <1>0, <1>1, <2>0, <3>1, <3>2 DEF GzipScan, Scanned
    <3> QED
      BY <1>0, <2>0, <3>1, <3>3
         DEF PayloadInv, KernelIsExtracted, P!KernelIsExtracted
  <2> QED
    BY <2>1, <2>2
<1>7. CASE P!SectionScanned
  <2> DEFINE data == sections[section]
  <2>1. /\ pPc = "gzip" /\ section <= Len(sections) /\ Scanned /\ GzipScan
        /\ search_offset = Len(data) /\ section' = section + 1 /\ search_offset' = 0
        /\ UNCHANGED <<payload, pPc, result>>
    BY <1>0, <1>7 DEF P!SectionScanned, P!InSection, P!Data
  <2>2. NoGzip(data, Len(data))
    BY <1>0, <1>1, <2>1 DEF GzipScan
  <2>3. GzipScan' /\ Scanned'
    BY <1>0, <1>1, <2>1, <2>2 DEF GzipScan, NoGzip, Scanned
  <2> QED
    BY <1>0, <2>1, <2>3 DEF PayloadInv, KernelIsExtracted, P!KernelIsExtracted
<1>8. CASE P!NoImage
  <2>1. /\ pPc = "gzip" /\ ~(section <= Len(sections)) /\ Scanned /\ GzipScan
        /\ P!Done(P!Error)
    BY <1>0, <1>8 DEF P!NoImage, P!InSection
  <2>2. \A s \in 1 .. Len(sections) :
          /\ \A i \in 1 .. Len(sections[s]) : sections[s][i] # "gz_image"
          /\ P!FirstMagic(sections[s]) # 0 => sections[s][P!FirstMagic(sections[s])] = "stray"
    BY <1>0, <1>1, <2>1 DEF GzipScan, NoRaw, NoGzip
  <2>3. (KernelIsExtracted)'
    BY <2>1, <2>2 DEF P!Done, KernelIsExtracted, P!KernelIsExtracted
  <2> QED
    BY <1>2, <2>1, <2>3
<1>9. CASE UNCHANGED payloadVars
  BY <1>9 DEF payloadVars, PayloadInv, RawScan, GzipScan, Scanned,
              KernelIsExtracted, P!KernelIsExtracted
<1> QED
  BY <1>3, <1>4, <1>5, <1>6, <1>7, <1>8, <1>9 DEF P!Next

\* Whatever a PE file is turned into is an arm64 Image, and it is refused only
\* when there is none in it.
THEOREM KernelExtracted == Spec => []KernelIsExtracted
<1>1. PayloadInv /\ [Next]_<<loop, sparseVars, walkVars, kmsgVars, settleVars, payloadVars>>
        => PayloadInv'
  <2>1. [Next]_<<loop, sparseVars, walkVars, kmsgVars, settleVars, payloadVars>>
          => [P!Next]_payloadVars
    BY DEF Next
  <2> QED
    BY <2>1, PayloadNext
<1>2. PayloadInv => KernelIsExtracted
  BY DEF PayloadInv
<1> QED
  BY PayloadInit, <1>1, <1>2, PTL DEF Spec

-----------------------------------------------------------------------------
(* The expansion of a sparse image (SparseFlash).                           *)

Chunk == [type : {"raw", "fill", "dont_care", "crc32", "unknown"}, blocks : Nat]

\* The image read so far is in the partition up to the file position, and
\* nothing is behind it; the position is where the next chunk belongs.
SparseInv ==
    /\ image \in Seq(Chunk) /\ position \in Nat /\ sCursor \in Nat /\ remaining \in Nat
    /\ total \in Nat
    /\ target \in [1 .. (PartBlocks + MaxTotal) -> Nat]
    /\ sPc \in {"header", "chunk", "copy", "ok", "error"}
    /\ sPc = "header" => /\ image = <<>> /\ position = 0 /\ sCursor = 0
    /\ sPc \in {"header", "chunk"} =>
         position = S!Starts(image)[Len(image) + 1] /\ sCursor = position
    /\ sPc = "chunk" => position <= total
    /\ sPc = "copy" =>
         /\ image # <<>> /\ image[Len(image)].type \in {"raw", "fill"}
         /\ position = S!Starts(image)[Len(image)]
         /\ position <= sCursor
         /\ sCursor + remaining = S!Starts(image)[Len(image) + 1]
         /\ sCursor + remaining <= total
    /\ sPc \in {"header", "chunk", "copy"} =>
         \A b \in DOMAIN target :
           /\ b <= sCursor => target[b] = S!Expanded(image, b)
           /\ b > sCursor => target[b] = 0
    /\ SparseExact

\* A nonempty set of natural numbers has a least element.
LEMMA LeastNat ==
  ASSUME NEW M, M \subseteq Nat, M # {}
  PROVE  \E x \in M : \A y \in M : x <= y
<1>1. PICK x \in M : \A y \in M : ~(<<y, x>> \in OpToRel(<, Nat))
  BY NatLessThanWellFounded, WFMin
<1>2. \A y \in M : ~(y < x)
  BY <1>1 DEF OpToRel
<1> QED
  BY <1>2

\* The numbers of a list can be added up from its front. By the shortest
\* prefix for which they could not.
LEMMA SumsExist ==
  ASSUME NEW len \in Nat, NEW d
  PROVE  \E f : f = [k \in 1 .. len + 1 |-> IF k = 1 THEN 0 ELSE f[k - 1] + d[k - 1]]
<1> DEFINE Counts(f, n) == f = [k \in 1 .. n |-> IF k = 1 THEN 0 ELSE f[k - 1] + d[k - 1]]
           Bad == {n \in Nat : n >= 1 /\ ~\E f : Counts(f, n)}
<1>1. Bad = {}
  <2> SUFFICES ASSUME Bad # {} PROVE FALSE
    OBVIOUS
  <2>1. PICK n \in Bad : \A m \in Bad : n <= m
    <3>1. Bad \subseteq Nat
      OBVIOUS
    <3> HIDE DEF Bad
    <3> QED
      BY <3>1, LeastNat
  <2>2. n \in Nat /\ n >= 1
    OBVIOUS
  <2>3. CASE n = 1
    <3> DEFINE g == [k \in 1 .. 1 |-> 0]
    <3>1. Counts(g, 1)
      OBVIOUS
    <3> QED
      BY <2>3, <3>1
  <2>4. CASE n # 1
    <3>1. n - 1 \in Nat /\ n - 1 >= 1 /\ ~(n <= n - 1)
      BY <2>2, <2>4
    <3>2. PICK f : Counts(f, n - 1)
      <4> HIDE DEF Counts
      <4> QED
        BY <2>1, <3>1
    <3> DEFINE g == [k \in 1 .. n |-> IF k = 1 THEN 0 ELSE f[k - 1] + d[k - 1]]
    <3>3. \A k \in 1 .. n - 1 : g[k] = f[k]
      BY <2>2, <3>1, <3>2
    <3>4. \A k \in 1 .. n : k # 1 => k - 1 \in 1 .. n - 1
      BY <2>2
    <3>5. g = [k \in 1 .. n |-> IF k = 1 THEN 0 ELSE g[k - 1] + d[k - 1]]
      BY <3>3, <3>4
    <3>6. Counts(g, n)
      BY <3>5
    <3> QED
      BY <3>6
  <2> QED
    BY <2>3, <2>4
<1>2. len + 1 \in Nat /\ len + 1 >= 1
  OBVIOUS
<1>3. \E f : Counts(f, len + 1)
  <2> HIDE DEF Counts
  <2> QED
    BY <1>1, <1>2
<1> QED
  BY <1>3

\* The defining equations of Starts.
LEMMA StartsEquations ==
  ASSUME NEW img \in Seq(Chunk)
  PROVE  /\ S!Starts(img)[1] = 0
         /\ \A k \in 1 .. Len(img) :
              S!Starts(img)[k + 1] = S!Starts(img)[k] + img[k].blocks
<1> DEFINE st == S!Starts(img)
<1>0. Len(img) \in Nat
  OBVIOUS
<1>1. st = [k \in 1 .. Len(img) + 1 |->
              IF k = 1 THEN 0 ELSE st[k - 1] + img[k - 1].blocks]
  <2> DEFINE d == [k \in 1 .. Len(img) |-> img[k].blocks]
  <2>1. PICK f : f = [k \in 1 .. Len(img) + 1 |-> IF k = 1 THEN 0 ELSE f[k - 1] + d[k - 1]]
    BY <1>0, SumsExist
  <2>2. \A k \in 1 .. Len(img) + 1 : k # 1 => k - 1 \in 1 .. Len(img)
    BY <1>0
  <2>3. f = [k \in 1 .. Len(img) + 1 |-> IF k = 1 THEN 0 ELSE f[k - 1] + img[k - 1].blocks]
    BY <2>1, <2>2
  <2> QED
    BY <2>3 DEF S!Starts
<1> HIDE DEF st
<1>2. st[1] = 0
  BY <1>0, <1>1
<1>3. ASSUME NEW k \in 1 .. Len(img) PROVE st[k + 1] = st[k] + img[k].blocks
  <2>1. k + 1 \in 1 .. Len(img) + 1 /\ k + 1 # 1 /\ (k + 1) - 1 = k
    BY <1>0
  <2> QED
    BY <1>1, <2>1
<1> QED
  BY <1>2, <1>3 DEF st

\* A chunk has a number of blocks.
LEMMA BlocksNat ==
  ASSUME NEW img \in Seq(Chunk)
  PROVE  Len(img) \in Nat /\ \A k \in 1 .. Len(img) : img[k].blocks \in Nat
<1>1. \A c \in Chunk : c.blocks \in Nat
  BY DEF Chunk
<1>2. Len(img) \in Nat /\ \A k \in 1 .. Len(img) : img[k] \in Chunk
  OBVIOUS
<1> QED
  BY <1>1, <1>2

\* Starts are numbers.
LEMMA StartsNat ==
  ASSUME NEW img \in Seq(Chunk)
  PROVE  \A k \in 1 .. Len(img) + 1 : S!Starts(img)[k] \in Nat
<1> DEFINE st == S!Starts(img)
           Bad == {k \in 1 .. Len(img) + 1 : st[k] \notin Nat}
<1>7. Len(img) \in Nat /\ \A k \in 1 .. Len(img) : img[k].blocks \in Nat
  BY BlocksNat
<1>8. st[1] = 0 /\ \A k \in 1 .. Len(img) : st[k + 1] = st[k] + img[k].blocks
  BY StartsEquations
<1>0. /\ Len(img) \in Nat /\ st[1] = 0
      /\ \A k \in 1 .. Len(img) : st[k + 1] = st[k] + img[k].blocks /\ img[k].blocks \in Nat
  BY <1>7, <1>8
<1> HIDE DEF st
<1> SUFFICES ASSUME Bad # {} PROVE FALSE
  BY DEF st
<1>1. PICK k \in Bad : \A m \in Bad : k <= m
  <2>1. Bad \subseteq Nat
    BY <1>0
  <2> HIDE DEF Bad
  <2> QED
    BY <2>1, LeastNat
<1>2. k # 1
  BY <1>0
<1>3. k - 1 \in 1 .. Len(img) /\ ~(k <= k - 1)
  BY <1>0, <1>2
<1>4. st[k - 1] \in Nat
  BY <1>0, <1>1, <1>3
<1>5. st[(k - 1) + 1] = st[k - 1] + img[k - 1].blocks /\ img[k - 1].blocks \in Nat
  BY <1>0, <1>3
<1>6. (k - 1) + 1 = k
  BY <1>0
<1> QED
  BY <1>4, <1>5, <1>6

\* A later chunk starts no earlier.
LEMMA StartsMonotone ==
  ASSUME NEW img \in Seq(Chunk)
  PROVE  \A i, j \in 1 .. Len(img) + 1 : i <= j => S!Starts(img)[i] <= S!Starts(img)[j]
<1> DEFINE st == S!Starts(img)
<1> SUFFICES ASSUME NEW i \in 1 .. Len(img) + 1
             PROVE  \A j \in 1 .. Len(img) + 1 : i <= j => st[i] <= st[j]
  OBVIOUS
<1> DEFINE Bad == {j \in 1 .. Len(img) + 1 : i <= j /\ ~(st[i] <= st[j])}
<1>0. /\ Len(img) \in Nat
      /\ \A k \in 1 .. Len(img) : st[k + 1] = st[k] + img[k].blocks /\ img[k].blocks \in Nat
      /\ \A k \in 1 .. Len(img) + 1 : st[k] \in Nat
  <2>1. Len(img) \in Nat /\ \A k \in 1 .. Len(img) : img[k].blocks \in Nat
    BY BlocksNat
  <2>2. \A k \in 1 .. Len(img) : st[k + 1] = st[k] + img[k].blocks
    BY StartsEquations
  <2>3. \A k \in 1 .. Len(img) + 1 : st[k] \in Nat
    BY StartsNat
  <2> QED
    BY <2>1, <2>2, <2>3
<1> HIDE DEF st
<1> SUFFICES ASSUME Bad # {} PROVE FALSE
  OBVIOUS
<1>1. PICK j \in Bad : \A m \in Bad : j <= m
  <2>1. Bad \subseteq Nat
    BY <1>0
  <2> HIDE DEF Bad
  <2> QED
    BY <2>1, LeastNat
<1>2. j # i
  BY <1>0, <1>1
<1>3. j - 1 \in 1 .. Len(img) /\ ~(j <= j - 1) /\ i <= j - 1
  BY <1>0, <1>1, <1>2
<1>4. st[i] <= st[j - 1]
  BY <1>0, <1>1, <1>3
<1>5. st[(j - 1) + 1] = st[j - 1] + img[j - 1].blocks /\ img[j - 1].blocks \in Nat
  BY <1>0, <1>3
<1>6. (j - 1) + 1 = j /\ st[j] \in Nat /\ st[i] \in Nat /\ st[j - 1] \in Nat
  BY <1>0, <1>3
<1> QED
  BY <1>1, <1>4, <1>5, <1>6

\* Reading a chunk header moves no chunk before it.
LEMMA StartsAppend ==
  ASSUME NEW img \in Seq(Chunk), NEW c \in Chunk
  PROVE  /\ \A k \in 1 .. Len(img) + 1 : S!Starts(Append(img, c))[k] = S!Starts(img)[k]
         /\ S!Starts(Append(img, c))[Len(img) + 2] = S!Starts(img)[Len(img) + 1] + c.blocks
<1> DEFINE new == Append(img, c)
           st == S!Starts(img)
           su == S!Starts(new)
           Bad == {k \in 1 .. Len(img) + 1 : su[k] # st[k]}
<1>0. /\ new \in Seq(Chunk) /\ Len(new) = Len(img) + 1 /\ Len(img) \in Nat
      /\ new[Len(img) + 1] = c /\ \A k \in 1 .. Len(img) : new[k] = img[k]
  OBVIOUS
<1> HIDE DEF new
<1>1. /\ st[1] = 0 /\ su[1] = 0
      /\ \A k \in 1 .. Len(img) : st[k + 1] = st[k] + img[k].blocks
      /\ \A k \in 1 .. Len(img) + 1 : su[k + 1] = su[k] + new[k].blocks
  BY <1>0, StartsEquations
<1> HIDE DEF st, su
<1>2. Bad = {}
  <2> SUFFICES ASSUME Bad # {} PROVE FALSE
    OBVIOUS
  <2>1. PICK k \in Bad : \A m \in Bad : k <= m
    <3>1. Bad \subseteq Nat
      BY <1>0
    <3> HIDE DEF Bad
    <3> QED
      BY <3>1, LeastNat
  <2>2. k # 1
    BY <1>1
  <2>3. k - 1 \in 1 .. Len(img) /\ ~(k <= k - 1) /\ (k - 1) + 1 = k
    BY <1>0, <2>2
  <2>4. su[k - 1] = st[k - 1]
    BY <1>0, <2>1, <2>3
  <2>5. st[(k - 1) + 1] = st[k - 1] + img[k - 1].blocks
    BY <1>1, <2>3
  <2>6. su[(k - 1) + 1] = su[k - 1] + new[k - 1].blocks /\ new[k - 1] = img[k - 1]
    <3>1. k - 1 \in 1 .. Len(img) + 1
      BY <1>0, <2>3
    <3> HIDE DEF Bad
    <3>2. su[(k - 1) + 1] = su[k - 1] + new[k - 1].blocks
      BY <1>1, <3>1
    <3> QED
      BY <1>0, <2>3, <3>2
  <2> QED
    BY <2>3, <2>4, <2>5, <2>6
<1>3. \A k \in 1 .. Len(img) + 1 : su[k] = st[k]
  BY <1>2
<1>4. su[Len(img) + 2] = st[Len(img) + 1] + c.blocks
  <2>1. su[(Len(img) + 1) + 1] = su[Len(img) + 1] + c.blocks
    BY <1>0, <1>1
  <2>2. (Len(img) + 1) + 1 = Len(img) + 2 /\ su[Len(img) + 1] = st[Len(img) + 1]
    BY <1>0, <1>3
  <2> QED
    BY <2>1, <2>2
<1> QED
  BY <1>3, <1>4 DEF st, su, new

\* A block in the range of a chunk holds the chunk's data, or is left alone.
LEMMA ExpandedWithin ==
  ASSUME NEW img \in Seq(Chunk), NEW k \in 1 .. Len(img), NEW b \in Nat,
         S!Starts(img)[k] < b, b <= S!Starts(img)[k + 1]
  PROVE  S!Expanded(img, b) = IF img[k].type \in {"raw", "fill"} THEN k ELSE 0
<1> DEFINE st == S!Starts(img)
           of == {i \in DOMAIN img : /\ img[i].type \in {"raw", "fill"}
                                     /\ st[i] < b /\ b <= st[i + 1]}
<1>1. Len(img) \in Nat /\ DOMAIN img = 1 .. Len(img)
  OBVIOUS
<1>2. /\ \A i \in 1 .. Len(img) + 1 : st[i] \in Nat
      /\ \A i, j \in 1 .. Len(img) + 1 : i <= j => st[i] <= st[j]
  BY StartsNat, StartsMonotone
<1>3. S!Expanded(img, b) = IF of = {} THEN 0 ELSE CHOOSE i \in of : TRUE
  BY DEF S!Expanded
<1>4. st[k] < b /\ b <= st[k + 1]
  OBVIOUS
<1> HIDE DEF st
<1>5. ASSUME NEW i \in of PROVE i = k
  <2>1. i \in 1 .. Len(img) /\ st[i] < b /\ b <= st[i + 1]
    BY <1>1
  <2>2. /\ i \in 1 .. Len(img) + 1 /\ i + 1 \in 1 .. Len(img) + 1
        /\ k \in 1 .. Len(img) + 1 /\ k + 1 \in 1 .. Len(img) + 1
    BY <1>1, <2>1
  <2>3. CASE i < k
    <3>1. st[i + 1] <= st[k] /\ st[i + 1] \in Nat /\ st[k] \in Nat
      BY <1>1, <1>2, <2>1, <2>2, <2>3
    <3> QED
      BY <1>4, <2>1, <3>1
  <2>4. CASE k < i
    <3>1. st[k + 1] <= st[i] /\ st[k + 1] \in Nat /\ st[i] \in Nat
      BY <1>1, <1>2, <2>1, <2>2, <2>4
    <3> QED
      BY <1>4, <2>1, <3>1
  <2> QED
    BY <1>1, <2>1, <2>3, <2>4
<1>6. CASE img[k].type \in {"raw", "fill"}
  <2>1. k \in of
    BY <1>1, <1>4, <1>6
  <2> HIDE DEF of
  <2>2. (CHOOSE i \in of : TRUE) \in of /\ of # {}
    BY <2>1
  <2> QED
    BY <1>3, <1>5, <1>6, <2>2
<1>7. CASE img[k].type \notin {"raw", "fill"}
  <2>1. of = {}
    BY <1>5, <1>7
  <2> QED
    BY <1>3, <1>7, <2>1
<1> QED
  BY <1>6, <1>7

\* A block behind the last chunk is left alone.
LEMMA ExpandedBeyond ==
  ASSUME NEW img \in Seq(Chunk), NEW b \in Nat, S!Starts(img)[Len(img) + 1] < b
  PROVE  S!Expanded(img, b) = 0
<1> DEFINE st == S!Starts(img)
           of == {i \in DOMAIN img : /\ img[i].type \in {"raw", "fill"}
                                     /\ st[i] < b /\ b <= st[i + 1]}
<1>1. Len(img) \in Nat /\ DOMAIN img = 1 .. Len(img)
  OBVIOUS
<1>2. /\ \A i \in 1 .. Len(img) + 1 : st[i] \in Nat
      /\ \A i, j \in 1 .. Len(img) + 1 : i <= j => st[i] <= st[j]
  BY StartsNat, StartsMonotone
<1>3. S!Expanded(img, b) = IF of = {} THEN 0 ELSE CHOOSE i \in of : TRUE
  BY DEF S!Expanded
<1>4. st[Len(img) + 1] < b
  OBVIOUS
<1> HIDE DEF st
<1>5. ASSUME NEW i \in of PROVE FALSE
  <2>1. i \in 1 .. Len(img) /\ b <= st[i + 1]
    BY <1>1
  <2>2. i + 1 \in 1 .. Len(img) + 1 /\ Len(img) + 1 \in 1 .. Len(img) + 1 /\ i + 1 <= Len(img) + 1
    BY <1>1, <2>1
  <2>3. st[i + 1] <= st[Len(img) + 1] /\ st[i + 1] \in Nat /\ st[Len(img) + 1] \in Nat
    BY <1>2, <2>2
  <2> QED
    BY <1>4, <2>1, <2>3
<1>6. of = {}
  BY <1>5
<1> QED
  BY <1>3, <1>6

\* A chunk header changes what the blocks behind the chunks before it hold,
\* and no others.
LEMMA ExpandedAppend ==
  ASSUME NEW img \in Seq(Chunk), NEW c \in Chunk, NEW b \in Nat,
         b <= S!Starts(img)[Len(img) + 1]
  PROVE  S!Expanded(Append(img, c), b) = S!Expanded(img, b)
<1> DEFINE new == Append(img, c)
           st == S!Starts(img)
           su == S!Starts(new)
           of == {i \in DOMAIN img : /\ img[i].type \in {"raw", "fill"}
                                     /\ st[i] < b /\ b <= st[i + 1]}
           on == {i \in DOMAIN new : /\ new[i].type \in {"raw", "fill"}
                                     /\ su[i] < b /\ b <= su[i + 1]}
<1>1. /\ Len(img) \in Nat /\ DOMAIN img = 1 .. Len(img) /\ DOMAIN new = 1 .. Len(img) + 1
      /\ \A k \in 1 .. Len(img) : new[k] = img[k]
  OBVIOUS
<1>2. \A k \in 1 .. Len(img) + 1 : su[k] = st[k] /\ st[k] \in Nat
  BY StartsAppend, StartsNat
<1>3. /\ S!Expanded(img, b) = IF of = {} THEN 0 ELSE CHOOSE i \in of : TRUE
      /\ S!Expanded(new, b) = IF on = {} THEN 0 ELSE CHOOSE i \in on : TRUE
  BY DEF S!Expanded
<1>4. b <= st[Len(img) + 1]
  OBVIOUS
<1> HIDE DEF st, su, new
<1>5. ASSUME NEW i \in on PROVE i \in 1 .. Len(img)
  <2>1. i \in 1 .. Len(img) + 1 /\ su[i] < b
    BY <1>1
  <2>2. i # Len(img) + 1
    BY <1>1, <1>2, <1>4, <2>1
  <2> QED
    BY <1>1, <2>1, <2>2
<1>6. \A i \in 1 .. Len(img) :
        /\ i \in 1 .. Len(img) + 1 /\ i + 1 \in 1 .. Len(img) + 1
        /\ new[i] = img[i] /\ su[i] = st[i] /\ su[i + 1] = st[i + 1]
  BY <1>1, <1>2
<1>7. on = of
  <2>1. ASSUME NEW i \in on PROVE i \in of
    BY <1>1, <1>5, <1>6, <2>1
  <2>2. ASSUME NEW i \in of PROVE i \in on
    BY <1>1, <1>6, <2>2
  <2> QED
    BY <2>1, <2>2
<1> HIDE DEF of, on
<1> QED
  BY <1>3, <1>7 DEF new

\* The flash begins with an empty image and an untouched partition.
LEMMA SparseInit == Init => SparseInv
<1> SUFFICES ASSUME Init PROVE SparseInv
  OBVIOUS
<1>1. /\ sPc = "header" /\ total = 0 /\ image = <<>> /\ position = 0 /\ sCursor = 0
      /\ remaining = 0 /\ target = [b \in 1 .. (PartBlocks + MaxTotal) |-> 0]
  BY DEF Init, S!Init
<1>2. image \in Seq(Chunk) /\ Len(image) + 1 = 1
  BY <1>1
<1>3. S!Starts(image)[Len(image) + 1] = 0
  <2>1. S!Starts(image)[1] = 0
    BY <1>2, StartsEquations
  <2> QED
    BY <1>2, <2>1
<1>4. target \in [1 .. (PartBlocks + MaxTotal) -> Nat] /\ \A b \in DOMAIN target : target[b] = 0 /\ b > 0
  BY <1>1, SparseAssumption
<1>5. SparseExact
  BY <1>1, <1>4 DEF SparseExact, S!SparseExact
<1> QED
  BY <1>1, <1>2, <1>3, <1>4, <1>5 DEF SparseInv

\* What the invariant says once a chunk header is read: the blocks up to the
\* file position keep what they should hold.
LEMMA PrefixKept ==
  ASSUME SparseInv, sPc = "chunk", NEW c \in Chunk
  PROVE  \A b \in DOMAIN target :
           /\ b \in Nat
           /\ b <= sCursor => target[b] = S!Expanded(Append(image, c), b)
           /\ b > sCursor => target[b] = 0
<1>1. /\ image \in Seq(Chunk) /\ target \in [1 .. (PartBlocks + MaxTotal) -> Nat]
      /\ sCursor = S!Starts(image)[Len(image) + 1]
      /\ \A b \in DOMAIN target :
           /\ b <= sCursor => target[b] = S!Expanded(image, b)
           /\ b > sCursor => target[b] = 0
  BY DEF SparseInv
<1>2. DOMAIN target = 1 .. (PartBlocks + MaxTotal)
  BY <1>1
<1>3. \A b \in DOMAIN target : b \in Nat
  BY <1>2, SparseAssumption
<1> QED
  BY <1>1, <1>3, ExpandedAppend

\* Each step of the flash keeps the image in the partition up to the file
\* position, and nothing behind it.
LEMMA SparseNext == SparseInv /\ [S!Next]_sparseVars => SparseInv'
<1> SUFFICES ASSUME SparseInv, [S!Next]_sparseVars PROVE SparseInv'
  OBVIOUS
<1>0. /\ image \in Seq(Chunk) /\ position \in Nat /\ sCursor \in Nat /\ remaining \in Nat
      /\ total \in Nat /\ target \in [1 .. (PartBlocks + MaxTotal) -> Nat]
      /\ DOMAIN target = 1 .. (PartBlocks + MaxTotal)
      /\ \A b \in DOMAIN target : b \in Nat
      /\ SparseExact
  BY SparseAssumption DEF SparseInv
<1>1. CASE S!ReadHeader
  <2>1. /\ sPc = "header" /\ total' \in Nat /\ sPc' \in {"chunk", "error"}
        /\ UNCHANGED <<image, position, sCursor, remaining, target>>
    BY <1>1, SparseAssumption DEF S!ReadHeader, S!Reject
  <2>2. /\ position = 0 /\ sCursor = 0 /\ position = S!Starts(image)[Len(image) + 1]
        /\ \A b \in DOMAIN target : (b <= sCursor => target[b] = S!Expanded(image, b)) /\ target[b] = 0
    BY <1>0, <2>1 DEF SparseInv
  <2>3. SparseExact'
    BY <2>1, <2>2 DEF SparseExact, S!SparseExact
  <2> QED
    BY <1>0, <2>1, <2>2, <2>3 DEF SparseInv
<1>2. CASE S!ReadChunk
  <2>1. PICK type \in {"raw", "fill", "dont_care", "crc32", "unknown"}, blocks \in 0 .. MaxTotal, sized \in BOOLEAN :
          /\ image' = Append(image, [type |-> type, blocks |-> blocks])
          /\ IF \/ position + blocks > total \/ ~sized
                \/ type = "unknown" \/ (type = "crc32" /\ blocks # 0)
             THEN S!Reject /\ UNCHANGED <<position, sCursor, remaining>>
             ELSE /\ sPc' = IF type \in {"raw", "fill"} THEN "copy" ELSE "chunk"
                  /\ remaining' = IF type \in {"raw", "fill"} THEN blocks ELSE 0
                  /\ position' = IF type \in {"raw", "fill"} THEN position ELSE position + blocks
                  /\ sCursor' = IF type = "dont_care" THEN S!Seek(position + blocks) ELSE sCursor
    BY <1>2 DEF S!ReadChunk
  <2>2. sPc = "chunk" /\ UNCHANGED <<total, target>>
    BY <1>2 DEF S!ReadChunk
  <2>3. /\ sCursor = position /\ position = S!Starts(image)[Len(image) + 1] /\ position <= total
    BY <2>2 DEF SparseInv
  <2> DEFINE c == [type |-> type, blocks |-> blocks]
  <2>4. c \in Chunk /\ c.type = type /\ c.blocks = blocks /\ blocks \in Nat
    BY SparseAssumption DEF Chunk
  <2>5. image' = Append(image, c)
    BY <2>1
  <2> HIDE DEF c
  <2>6. /\ image' \in Seq(Chunk) /\ Len(image') = Len(image) + 1 /\ Len(image) \in Nat
        /\ image'[Len(image')] = c /\ image' # <<>>
    BY <1>0, <2>4, <2>5
  <2>7. /\ S!Starts(image')[Len(image')] = position
        /\ S!Starts(image')[Len(image') + 1] = position + blocks
    <3>1. /\ S!Starts(image')[Len(image) + 1] = S!Starts(image)[Len(image) + 1]
          /\ S!Starts(image')[Len(image) + 2] = S!Starts(image)[Len(image) + 1] + c.blocks
      <4>1. Len(image) + 1 \in 1 .. Len(image) + 1
        BY <2>6
      <4> QED
        BY <1>0, <2>4, <2>5, <4>1, StartsAppend
    <3>2. Len(image') + 1 = Len(image) + 2
      BY <2>6
    <3> QED
      BY <2>3, <2>4, <2>6, <3>1, <3>2
  <2>8. \A b \in DOMAIN target : /\ b \in Nat
                                 /\ b <= sCursor => target[b] = S!Expanded(image', b)
                                 /\ b > sCursor => target[b] = 0
    BY <2>2, <2>4, <2>5, PrefixKept
  <2>9. sPc' # "ok"
    BY <2>1 DEF S!Reject
  <2>10. SparseExact'
    <3>1. \A b \in DOMAIN target : /\ target[b] \in {0, S!Expanded(image', b)}
                                   /\ b > total => target[b] = 0
      BY <1>0, <2>3, <2>8
    <3> QED
      BY <2>2, <2>9, <3>1 DEF SparseExact, S!SparseExact
  <2>11. CASE sPc' = "error"
    <3>1. UNCHANGED <<position, sCursor, remaining>>
      BY <2>1, <2>11
    <3> QED
      BY <1>0, <2>2, <2>6, <2>10, <2>11, <3>1 DEF SparseInv
  <2>12. CASE sPc' # "error"
    <3>1. /\ sPc' = IF type \in {"raw", "fill"} THEN "copy" ELSE "chunk"
          /\ remaining' = IF type \in {"raw", "fill"} THEN blocks ELSE 0
          /\ position' = IF type \in {"raw", "fill"} THEN position ELSE position + blocks
          /\ sCursor' = IF type = "dont_care" THEN position + blocks ELSE sCursor
          /\ position + blocks <= total
          /\ type # "unknown" /\ (type = "crc32" => blocks = 0)
      BY <1>0, <2>1, <2>4, <2>12 DEF S!Reject, S!Seek
    <3>2. CASE type \in {"raw", "fill"}
      <4>1. /\ sPc' = "copy" /\ remaining' = blocks /\ position' = position /\ sCursor' = sCursor
        BY <3>1, <3>2
      <4> QED
        <5>1. /\ image' # <<>> /\ image'[Len(image')].type \in {"raw", "fill"}
              /\ position' = S!Starts(image')[Len(image')]
              /\ position' <= sCursor'
              /\ sCursor' + remaining' = S!Starts(image')[Len(image') + 1]
              /\ sCursor' + remaining' <= total'
          BY <1>0, <2>2, <2>3, <2>4, <2>6, <2>7, <3>1, <3>2, <4>1
        <5>2. \A b \in DOMAIN target' : /\ b <= sCursor' => target'[b] = S!Expanded(image', b)
                                        /\ b > sCursor' => target'[b] = 0
          BY <2>2, <2>8, <4>1
        <5> QED
          BY <1>0, <2>2, <2>4, <2>6, <2>10, <4>1, <5>1, <5>2 DEF SparseInv
    <3>3. CASE type \in {"dont_care", "crc32"}
      <4>1. /\ sPc' = "chunk" /\ remaining' = 0 /\ position' = position + blocks
            /\ sCursor' = position + blocks
        BY <1>0, <2>3, <2>4, <3>1, <3>3
      <4>2. ASSUME NEW b \in DOMAIN target, b > sCursor, b <= position + blocks
            PROVE  target[b] = S!Expanded(image', b)
        <5>1. S!Expanded(image', b) = IF image'[Len(image')].type \in {"raw", "fill"} THEN Len(image') ELSE 0
          <6>1. Len(image') \in 1 .. Len(image')
            BY <2>6
          <6> QED
            BY <2>3, <2>6, <2>7, <2>8, <4>2, <6>1, ExpandedWithin
        <5> QED
          BY <2>4, <2>6, <2>8, <3>3, <4>2, <5>1
      <4>3. \A b \in DOMAIN target : /\ b <= sCursor' => target[b] = S!Expanded(image', b)
                                     /\ b > sCursor' => target[b] = 0
        BY <1>0, <2>3, <2>4, <2>8, <4>1, <4>2
      <4> QED
        BY <1>0, <2>2, <2>3, <2>4, <2>6, <2>7, <2>10, <3>1, <4>1, <4>3 DEF SparseInv
    <3> QED
      BY <3>1, <3>2, <3>3
  <2> QED
    BY <2>11, <2>12
<1>3. CASE S!CopyBlock
  <2>1. /\ sPc = "copy" /\ remaining > 0
        /\ target' = [target EXCEPT ![sCursor + 1] = Len(image)]
        /\ sCursor' = sCursor + 1 /\ remaining' = remaining - 1
        /\ UNCHANGED <<sPc, total, image, position>>
    BY <1>3 DEF S!CopyBlock
  <2>2. /\ image # <<>> /\ image[Len(image)].type \in {"raw", "fill"}
        /\ position = S!Starts(image)[Len(image)]
        /\ position <= sCursor
        /\ sCursor + remaining = S!Starts(image)[Len(image) + 1]
        /\ sCursor + remaining <= total
        /\ \A b \in DOMAIN target : /\ b <= sCursor => target[b] = S!Expanded(image, b)
                                    /\ b > sCursor => target[b] = 0
    BY <2>1 DEF SparseInv
  <2>3. Len(image) \in Nat /\ Len(image) \in 1 .. Len(image)
    BY <1>0, <2>2
  <2>4. S!Expanded(image, sCursor + 1) = Len(image)
    <3>1. /\ sCursor + 1 \in Nat /\ S!Starts(image)[Len(image)] < sCursor + 1
          /\ sCursor + 1 <= S!Starts(image)[Len(image) + 1]
      BY <1>0, <2>1, <2>2
    <3> QED
      BY <1>0, <2>2, <2>3, <3>1, ExpandedWithin
  <2>5. /\ target' \in [1 .. (PartBlocks + MaxTotal) -> Nat]
        /\ DOMAIN target' = DOMAIN target
        /\ \A b \in DOMAIN target : target'[b] = IF b = sCursor + 1 THEN Len(image) ELSE target[b]
    BY <1>0, <2>1, <2>3
  <2>6. \A b \in DOMAIN target' : /\ b <= sCursor' => target'[b] = S!Expanded(image, b)
                                  /\ b > sCursor' => target'[b] = 0
    BY <1>0, <2>1, <2>2, <2>4, <2>5
  <2>7. sCursor' \in Nat /\ remaining' \in Nat /\ sCursor' + remaining' = sCursor + remaining
        /\ sCursor' <= total
    BY <1>0, <2>1, <2>2
  <2>8. SparseExact'
    <3>1. \A b \in DOMAIN target' : /\ target'[b] \in {0, S!Expanded(image, b)}
                                    /\ b > total => target'[b] = 0
      BY <1>0, <2>5, <2>6, <2>7
    <3> QED
      BY <2>1, <3>1 DEF SparseExact, S!SparseExact
  <2> QED
    BY <1>0, <2>1, <2>2, <2>5, <2>6, <2>7, <2>8 DEF SparseInv
<1>4. CASE S!ChunkWritten
  <2>1. /\ sPc = "copy" /\ remaining = 0 /\ position' = position + image[Len(image)].blocks
        /\ sPc' = "chunk" /\ UNCHANGED <<total, image, sCursor, remaining, target>>
    BY <1>4 DEF S!ChunkWritten, S!Last
  <2>2. /\ image # <<>> /\ position = S!Starts(image)[Len(image)]
        /\ sCursor + remaining = S!Starts(image)[Len(image) + 1]
        /\ sCursor + remaining <= total
        /\ \A b \in DOMAIN target : /\ b <= sCursor => target[b] = S!Expanded(image, b)
                                    /\ b > sCursor => target[b] = 0
    BY <2>1 DEF SparseInv
  <2>3. Len(image) \in 1 .. Len(image)
    BY <1>0, <2>2
  <2>4. S!Starts(image)[Len(image) + 1] = position + image[Len(image)].blocks
    BY <1>0, <2>2, <2>3, StartsEquations
  <2>5. position' = sCursor /\ sCursor = S!Starts(image)[Len(image) + 1] /\ sCursor <= total
    BY <1>0, <2>1, <2>2, <2>4
  <2>6. SparseExact'
    BY <1>0, <2>1 DEF SparseExact, S!SparseExact
  <2> QED
    BY <1>0, <2>1, <2>2, <2>5, <2>6 DEF SparseInv
<1>5. CASE S!CopyFails
  <2>1. sPc' = "error" /\ UNCHANGED <<total, image, position, sCursor, remaining, target>>
    BY <1>5 DEF S!CopyFails, S!Reject
  <2>2. SparseExact'
    BY <1>0, <2>1 DEF SparseExact, S!SparseExact
  <2> QED
    BY <1>0, <2>1, <2>2 DEF SparseInv
<1>6. CASE S!Finish
  <2>1. /\ sPc = "chunk" /\ sPc' \in {"ok", "error"}
        /\ UNCHANGED <<total, image, position, sCursor, remaining, target>>
    BY <1>6 DEF S!Finish
  <2>2. /\ sCursor = S!Starts(image)[Len(image) + 1]
        /\ \A b \in DOMAIN target : /\ b <= sCursor => target[b] = S!Expanded(image, b)
                                    /\ b > sCursor => target[b] = 0
    BY <2>1 DEF SparseInv
  <2>3. \A b \in DOMAIN target : target[b] = S!Expanded(image, b)
    BY <1>0, <2>2, ExpandedBeyond
  <2>4. SparseExact'
    BY <1>0, <2>1, <2>3 DEF SparseExact, S!SparseExact
  <2> QED
    BY <1>0, <2>1, <2>4 DEF SparseInv
<1>7. CASE UNCHANGED sparseVars
  BY <1>7 DEF sparseVars, SparseInv, SparseExact, S!SparseExact
<1> QED
  BY <1>1, <1>2, <1>3, <1>4, <1>5, <1>6, <1>7 DEF S!Next

\* An OKAY means that each block of the partition holds what the sparse image
\* says; however the flash ends, no block outside the declared size and none
\* the image left alone was written.
THEOREM SparseIsExact == Spec => []SparseExact
<1>1. SparseInv /\ [Next]_<<loop, sparseVars, walkVars, kmsgVars, settleVars, payloadVars>>
        => SparseInv'
  <2>1. [Next]_<<loop, sparseVars, walkVars, kmsgVars, settleVars, payloadVars>>
          => [S!Next]_sparseVars
    BY DEF Next
  <2> QED
    BY <2>1, SparseNext
<1>2. SparseInv => SparseExact
  BY DEF SparseInv
<1> QED
  BY SparseInit, <1>1, <1>2, PTL DEF Spec
-----------------------------------------------------------------------------
(* The kernel log forwarder (KmsgForward).                                  *)

\* A record of the backlog, or a line on the port.
Record == [id : Nat, size : Nat, tells : SUBSET Nat]

\* The records a queue holds.
Ids(q) == {q[i].id : i \in DOMAIN q}

\* The records that leave when the first k do.
FirstIds(q, k) == {q[i].id : i \in 1 .. k}

\* The queue without its first k records and with r at its end.
Rest(q, k, r) == Append(SubSeq(q, k + 1, Len(q)), r)

\* What is so of that queue.
Moved(q, k, r, p) ==
    /\ p \in Seq(Record) /\ Len(p) = Len(q) - k + 1 /\ p[Len(p)] = r
    /\ \A i \in 1 .. Len(q) - k : p[i] = q[i + k]
    /\ Ids(q) \subseteq Ids(p) \cup FirstIds(q, k)
    /\ r.id \in Ids(p)

\* The first n records of q are those of p behind its first s.
Agree(q, p, s, n) == \A k \in 1 .. n : q[k] = p[k + s]

\* The forwarder never reads ahead of the log, and holds only what it read, in
\* order; a line it is done with was on a short queue.
HoldInv ==
    /\ log \in Seq(Nat) /\ pos \in Nat /\ pos <= Len(log)
    /\ backlog \in Seq(Record)
    /\ \A i \in DOMAIN backlog : backlog[i].id <= pos /\ backlog[i].tells = {}
    /\ dropped \subseteq Nat /\ read \subseteq 1 .. pos
    /\ tty \in Seq(Record) /\ (fd # "open" => tty = <<>>)
    /\ F!BytesOf(F!DoneWith) <= HighWater + UsbDepth

\* The line whose queue is waited for is the record at the front of the backlog
\* or the note of the drops, and it is the last on the port's queue as long as
\* the host has not taken it.
SentInv == sent =>
    /\ kPc \in {"note", "flush"}
    /\ kPc = "flush" =>
         /\ backlog # <<>>
         /\ fd = "open" => Head(backlog).id \in known \cup F!Brings(tty)
         /\ tty # <<>> => tty[Len(tty)] = Head(backlog)
    /\ kPc = "note" =>
         /\ fd = "open" => dropped \subseteq known \cup F!Brings(tty)
         /\ tty # <<>> => tty[Len(tty)].id = 0 /\ tty[Len(tty)].tells = dropped

KmsgInv == HoldInv /\ sent \in BOOLEAN /\ SentInv /\ NoSilentLoss

\* The defining equations of Totals.
LEMMA TotalsEquations ==
  ASSUME NEW q \in Seq(Record)
  PROVE  /\ F!Totals(q)[1] = 0
         /\ \A k \in 1 .. Len(q) : /\ F!Totals(q)[k + 1] = F!Totals(q)[k] + q[k].size
                                   /\ q[k].size \in Nat
<1> DEFINE st == F!Totals(q)
<1>0. Len(q) \in Nat
  OBVIOUS
<1>1. st = [k \in 1 .. Len(q) + 1 |-> IF k = 1 THEN 0 ELSE st[k - 1] + q[k - 1].size]
  <2> DEFINE d == [k \in 1 .. Len(q) |-> q[k].size]
  <2>1. PICK f : f = [k \in 1 .. Len(q) + 1 |-> IF k = 1 THEN 0 ELSE f[k - 1] + d[k - 1]]
    BY <1>0, SumsExist
  <2>2. \A k \in 1 .. Len(q) + 1 : k # 1 => k - 1 \in 1 .. Len(q)
    BY <1>0
  <2>3. f = [k \in 1 .. Len(q) + 1 |-> IF k = 1 THEN 0 ELSE f[k - 1] + q[k - 1].size]
    BY <2>1, <2>2
  <2> QED
    BY <2>3 DEF F!Totals
<1> HIDE DEF st
<1>2. st[1] = 0
  BY <1>0, <1>1
<1>3. ASSUME NEW k \in 1 .. Len(q) PROVE st[k + 1] = st[k] + q[k].size
  <2>1. k + 1 \in 1 .. Len(q) + 1 /\ k + 1 # 1 /\ (k + 1) - 1 = k
    BY <1>0
  <2> QED
    BY <1>1, <2>1
<1>4. ASSUME NEW k \in 1 .. Len(q) PROVE q[k].size \in Nat
  <2>1. \A r \in Record : r.size \in Nat
    BY DEF Record
  <2>2. q[k] \in Record
    OBVIOUS
  <2> QED
    BY <2>1, <2>2
<1> QED
  BY <1>2, <1>3, <1>4 DEF st

\* Totals are numbers.
LEMMA TotalsNat ==
  ASSUME NEW q \in Seq(Record)
  PROVE  \A k \in 1 .. Len(q) + 1 : F!Totals(q)[k] \in Nat
<1> DEFINE st == F!Totals(q)
           Bad == {k \in 1 .. Len(q) + 1 : st[k] \notin Nat}
<1>0. /\ Len(q) \in Nat /\ st[1] = 0
      /\ \A k \in 1 .. Len(q) : st[k + 1] = st[k] + q[k].size /\ q[k].size \in Nat
  BY TotalsEquations
<1> HIDE DEF st
<1> SUFFICES ASSUME Bad # {} PROVE FALSE
  BY DEF st
<1>1. PICK k \in Bad : \A m \in Bad : k <= m
  <2>1. Bad \subseteq Nat
    BY <1>0
  <2> HIDE DEF Bad
  <2> QED
    BY <2>1, LeastNat
<1>2. k # 1
  BY <1>0
<1>3. k - 1 \in 1 .. Len(q) /\ ~(k <= k - 1)
  BY <1>0, <1>2
<1>4. st[k - 1] \in Nat
  BY <1>0, <1>1, <1>3
<1>5. st[(k - 1) + 1] = st[k - 1] + q[k - 1].size /\ q[k - 1].size \in Nat
  BY <1>0, <1>3
<1>6. (k - 1) + 1 = k
  BY <1>0
<1> QED
  BY <1>4, <1>5, <1>6

\* Two queues that agree at their first records, the second one shifted by s,
\* count the same for them.
LEMMA TotalsShifted ==
  ASSUME NEW q \in Seq(Record), NEW p \in Seq(Record), NEW s \in Nat, NEW n \in Nat,
         n <= Len(q), n + s <= Len(p), Agree(q, p, s, n)
  PROVE  \A k \in 1 .. n + 1 : F!Totals(q)[k] + F!Totals(p)[s + 1] = F!Totals(p)[k + s]
<1> DEFINE tq == F!Totals(q)
           tp == F!Totals(p)
           Bad == {k \in 1 .. n + 1 : tq[k] + tp[s + 1] # tp[k + s]}
<1>0. Len(q) \in Nat /\ Len(p) \in Nat
  OBVIOUS
<1>1. /\ tq[1] = 0
      /\ \A k \in 1 .. Len(q) : tq[k + 1] = tq[k] + q[k].size /\ q[k].size \in Nat
      /\ \A k \in 1 .. Len(p) : tp[k + 1] = tp[k] + p[k].size /\ p[k].size \in Nat
  BY TotalsEquations
<1>2. /\ \A k \in 1 .. Len(q) + 1 : tq[k] \in Nat
      /\ \A k \in 1 .. Len(p) + 1 : tp[k] \in Nat
  BY TotalsNat
<1> HIDE DEF tq, tp
<1> SUFFICES ASSUME Bad # {} PROVE FALSE
  BY DEF tq, tp
<1>3. PICK k \in Bad : \A m \in Bad : k <= m
  <2>1. Bad \subseteq Nat
    OBVIOUS
  <2> HIDE DEF Bad
  <2> QED
    BY <2>1, LeastNat
<1>4. s + 1 \in 1 .. Len(p) + 1 /\ tp[s + 1] \in Nat
  BY <1>0, <1>2
<1>5. k # 1
  <2>1. 1 + s = s + 1
    OBVIOUS
  <2> QED
    BY <1>1, <1>4, <2>1
<1> DEFINE j == k - 1
<1>6. /\ j \in 1 .. n /\ ~(k <= j) /\ j + 1 = k /\ k + s = (j + s) + 1
      /\ j \in 1 .. Len(q) /\ j + s \in 1 .. Len(p)
  <2>1. k \in 1 .. n + 1
    OBVIOUS
  <2> HIDE DEF Bad
  <2>2. j \in 1 .. n /\ ~(k <= j) /\ j + 1 = k /\ k + s = (j + s) + 1
    BY <1>5, <2>1
  <2>3. j \in 1 .. Len(q) /\ j + s \in 1 .. Len(p)
    BY <1>0, <2>2
  <2> QED
    BY <2>2, <2>3
<1>7. tq[j] + tp[s + 1] = tp[j + s]
  BY <1>3, <1>6
<1>8. tq[j + 1] = tq[j] + q[j].size /\ tp[(j + s) + 1] = tp[j + s] + p[j + s].size /\ q[j] = p[j + s]
  BY <1>1, <1>6 DEF Agree
<1>9. tq[j] \in Nat /\ tp[j + s] \in Nat /\ q[j].size \in Nat
  <2> HIDE DEF Bad, j
  <2>1. j \in 1 .. Len(q) + 1 /\ j + s \in 1 .. Len(p) + 1
    BY <1>0, <1>6
  <2> QED
    BY <1>1, <1>2, <1>6, <2>1
<1>10. tq[k] + tp[s + 1] = tp[k + s]
  <2> HIDE DEF j, Bad
  <2>1. tq[k] = tq[j] + q[j].size /\ tp[k + s] = tp[j + s] + q[j].size
    BY <1>6, <1>8
  <2> DEFINE a == tq[j]
             b == tp[j + s]
             c == tp[s + 1]
             z == q[j].size
  <2>2. a \in Nat /\ b \in Nat /\ c \in Nat /\ z \in Nat /\ a + c = b
    BY <1>4, <1>7, <1>9
  <2>3. tq[k] = a + z /\ tp[k + s] = b + z
    BY <2>1
  <2> HIDE DEF a, b, c, z
  <2>4. (a + z) + c = b + z
    BY <2>2
  <2> QED
    BY <2>3, <2>4 DEF c
<1> QED
  BY <1>10

\* An empty queue has no bytes; a record adds its size; and one that leaves at
\* the front takes its size with it.
LEMMA Bytes ==
  ASSUME NEW q \in Seq(Record)
  PROVE  /\ F!BytesOf(q) \in Nat
         /\ q = <<>> => F!BytesOf(q) = 0
         /\ \A r \in Record : F!BytesOf(Append(q, r)) = F!BytesOf(q) + r.size
         /\ q # <<>> => F!BytesOf(Tail(q)) <= F!BytesOf(q)
<1>0. Len(q) \in Nat /\ Len(q) + 1 \in 1 .. Len(q) + 1
  OBVIOUS
<1>1. F!BytesOf(q) \in Nat
  BY <1>0, TotalsNat DEF F!BytesOf
<1>2. q = <<>> => F!BytesOf(q) = 0
  <2> SUFFICES ASSUME q = <<>> PROVE F!Totals(q)[Len(q) + 1] = 0
    BY DEF F!BytesOf
  <2>1. Len(q) + 1 = 1
    OBVIOUS
  <2> QED
    BY <2>1, TotalsEquations
<1>3. ASSUME NEW r \in Record PROVE F!BytesOf(Append(q, r)) = F!BytesOf(q) + r.size
  <2> DEFINE p == Append(q, r)
  <2>1. /\ p \in Seq(Record) /\ Len(p) = Len(q) + 1 /\ p[Len(q) + 1] = r
        /\ \A k \in 1 .. Len(q) : q[k] = p[k]
    OBVIOUS
  <2> HIDE DEF p
  <2>2. \A k \in 1 .. Len(q) + 1 : F!Totals(q)[k] + F!Totals(p)[0 + 1] = F!Totals(p)[k + 0]
    <3>1. \A k \in 1 .. Len(q) : q[k] = p[k + 0]
      BY <1>0, <2>1
    <3>2. 0 \in Nat /\ Len(q) <= Len(q) /\ Len(q) + 0 <= Len(p)
      BY <1>0, <2>1
    <3> QED
      BY <1>0, <2>1, <3>1, <3>2, TotalsShifted DEF Agree
  <2>3. F!Totals(p)[1] = 0 /\ F!Totals(p)[(Len(q) + 1) + 1] = F!Totals(p)[Len(q) + 1] + r.size
    BY <1>0, <2>1, TotalsEquations
  <2>4. /\ F!Totals(q)[Len(q) + 1] + F!Totals(p)[0 + 1] = F!Totals(p)[Len(q) + 1 + 0]
        /\ 0 + 1 = 1 /\ Len(q) + 1 + 0 = Len(q) + 1 /\ F!Totals(q)[Len(q) + 1] \in Nat
    BY <1>0, <2>2, TotalsNat
  <2>5. F!Totals(q)[Len(q) + 1] = F!Totals(p)[Len(q) + 1]
    BY <2>3, <2>4
  <2>6. Len(p) + 1 = (Len(q) + 1) + 1
    BY <2>1
  <2> QED
    BY <2>3, <2>5, <2>6 DEF F!BytesOf, p
<1>4. ASSUME q # <<>> PROVE F!BytesOf(Tail(q)) <= F!BytesOf(q)
  <2> DEFINE p == Tail(q)
  <2>1. /\ p \in Seq(Record) /\ Len(p) + 1 = Len(q) /\ Len(p) \in Nat
        /\ \A k \in 1 .. Len(p) : p[k] = q[k + 1]
    BY <1>4
  <2> HIDE DEF p
  <2>2. \A k \in 1 .. Len(p) + 1 : F!Totals(p)[k] + F!Totals(q)[1 + 1] = F!Totals(q)[k + 1]
    <3>1. 1 \in Nat /\ Len(p) <= Len(p) /\ Len(p) + 1 <= Len(q)
      BY <1>0, <2>1
    <3> QED
      BY <2>1, <3>1, TotalsShifted DEF Agree
  <2>3. Len(p) + 1 \in 1 .. Len(p) + 1 /\ 1 + 1 \in 1 .. Len(q) + 1
    BY <2>1
  <2>4. /\ F!Totals(p)[Len(p) + 1] + F!Totals(q)[1 + 1] = F!Totals(q)[(Len(p) + 1) + 1]
        /\ F!Totals(p)[Len(p) + 1] \in Nat /\ F!Totals(q)[1 + 1] \in Nat
    BY <2>1, <2>2, <2>3, TotalsNat
  <2>5. (Len(p) + 1) + 1 = Len(q) + 1
    BY <2>1
  <2>6. F!Totals(p)[Len(p) + 1] <= F!Totals(q)[Len(q) + 1]
    BY <2>4, <2>5
  <2> QED
    BY <2>6 DEF F!BytesOf, p
<1> QED
  BY <1>1, <1>2, <1>3, <1>4
\* The length of what is left of n records without the first k.
LEMMA RestLength ==
  ASSUME NEW n \in Nat, NEW k \in Nat, k <= n,
         NEW l, l = IF k + 1 <= n THEN n - (k + 1) + 1 ELSE 0
  PROVE  l = n - k
  OBVIOUS

\* A record at the end of a queue.
LEMMA AppendFacts ==
  ASSUME NEW q \in Seq(Record), NEW r \in Record, NEW p, p = Append(q, r)
  PROVE  /\ p \in Seq(Record) /\ Len(p) = Len(q) + 1 /\ p[Len(q) + 1] = r
         /\ DOMAIN p = 1 .. Len(q) + 1 /\ \A i \in 1 .. Len(q) : p[i] = q[i]
  OBVIOUS

\* Records that leave at the front of a queue, and the new one at its end:
\* no more ids go than records.
LEMMA FrontLeaves ==
  ASSUME NEW q \in Seq(Record), NEW k \in 0 .. Len(q), NEW r \in Record,
         NEW p, p = Rest(q, k, r)
  PROVE  SubSeq(q, k + 1, Len(q)) \in Seq(Record) /\ Moved(q, k, r, p)
<1> DEFINE t == SubSeq(q, k + 1, Len(q))
<1>7. p = Append(t, r)
  BY DEF Rest
<1>0. Len(q) \in Nat /\ k \in Nat /\ k <= Len(q) /\ DOMAIN q = 1 .. Len(q)
  OBVIOUS
<1>1. /\ t \in Seq(Record) /\ Len(t) = Len(q) - k
      /\ \A i \in 1 .. Len(q) - k : t[i] = q[i + k]
  <2>1. \A i \in k + 1 .. Len(q) : q[i] \in Record
    BY <1>0
  <2>2. /\ t \in Seq(Record)
        /\ Len(t) = IF k + 1 <= Len(q) THEN Len(q) - (k + 1) + 1 ELSE 0
        /\ \A i \in 1 .. Len(q) - (k + 1) + 1 : t[i] = q[(k + 1) + i - 1]
    <3>1. k + 1 \in Int /\ Len(q) \in Int
      BY <1>0
    <3> QED
      BY <2>1, <3>1, SubSeqProperties
  <2> HIDE DEF t
  <2>3. Len(q) - (k + 1) + 1 = Len(q) - k /\ \A i \in 1 .. Len(q) - k : (k + 1) + i - 1 = i + k
    BY <1>0
  <2>4. Len(t) = Len(q) - k
    <3>1. Len(t) = IF k + 1 <= Len(q) THEN Len(q) - (k + 1) + 1 ELSE 0
      BY <2>2
    <3> QED
      BY <1>0, <3>1, RestLength, Zenon
  <2>5. \A i \in 1 .. Len(q) - k : t[i] = q[i + k]
    BY <2>2, <2>3
  <2> QED
    BY <2>2, <2>4, <2>5
<1> HIDE DEF t
<1>2. /\ p \in Seq(Record) /\ Len(p) = Len(q) - k + 1 /\ p[Len(p)] = r
      /\ \A i \in 1 .. Len(q) - k : p[i] = q[i + k]
      /\ DOMAIN p = 1 .. Len(q) - k + 1
  <2>1. /\ p \in Seq(Record) /\ Len(p) = Len(t) + 1 /\ p[Len(t) + 1] = r
        /\ DOMAIN p = 1 .. Len(t) + 1 /\ \A i \in 1 .. Len(t) : p[i] = t[i]
    BY <1>1, <1>7, AppendFacts
  <2> QED
    BY <1>0, <1>1, <2>1
<1>3. r.id \in Ids(p)
  <2>1. Len(p) \in DOMAIN p
    BY <1>0, <1>2
  <2> QED
    BY <1>2, <2>1 DEF Ids
<1>4. ASSUME NEW i \in 1 .. Len(q), i > k PROVE q[i].id \in Ids(p)
  <2>1. i - k \in 1 .. Len(q) - k /\ (i - k) + k = i /\ i - k \in DOMAIN p
    BY <1>0, <1>2, <1>4
  <2>2. p[i - k] = q[i]
    BY <1>2, <2>1
  <2> QED
    BY <2>1, <2>2 DEF Ids
<1>5. ASSUME NEW i \in 1 .. Len(q) PROVE i > k \/ i \in 1 .. k
  BY <1>0
<1>6. Ids(q) \subseteq Ids(p) \cup FirstIds(q, k)
  BY <1>0, <1>4, <1>5 DEF Ids, FirstIds
<1> QED
  BY <1>1, <1>2, <1>3, <1>6 DEF t, Moved

\* What queues bring: the empty one, one with a line at its end, and one whose
\* first or last line is gone.
LEMMA BringsFacts ==
  ASSUME NEW q \in Seq(Record)
  PROVE  /\ q = <<>> => F!Brings(q) = {}
         /\ \A r \in Record : F!Brings(Append(q, r)) = F!Brings(q) \cup {r.id} \cup r.tells
         /\ q # <<>> => F!Brings(q) = F!Brings(Tail(q)) \cup {Head(q).id} \cup Head(q).tells
         /\ (\A i \in DOMAIN q : q[i].tells = {}) => F!Brings(q) = Ids(q)
<1>0. Len(q) \in Nat /\ DOMAIN q = 1 .. Len(q)
  OBVIOUS
<1>1. q = <<>> => F!Brings(q) = {}
  BY DEF F!Brings
<1>2. ASSUME NEW r \in Record
      PROVE  F!Brings(Append(q, r)) = F!Brings(q) \cup {r.id} \cup r.tells
  <2> DEFINE p == Append(q, r)
  <2>1. /\ DOMAIN p = 1 .. Len(q) + 1 /\ p[Len(q) + 1] = r
        /\ \A i \in 1 .. Len(q) : p[i] = q[i]
    BY AppendFacts
  <2> HIDE DEF p
  <2>2. DOMAIN p = DOMAIN q \cup {Len(q) + 1}
    BY <1>0, <2>1
  <2>3. F!Brings(p) = F!Brings(q) \cup {r.id} \cup r.tells
    BY <1>0, <2>1, <2>2 DEF F!Brings
  <2> QED
    BY <2>3 DEF p
<1>3. ASSUME q # <<>>
      PROVE  F!Brings(q) = F!Brings(Tail(q)) \cup {Head(q).id} \cup Head(q).tells
  <2> DEFINE p == Tail(q)
  <2>1. /\ DOMAIN p = 1 .. Len(q) - 1 /\ Head(q) = q[1] /\ 1 \in DOMAIN q
        /\ \A i \in DOMAIN p : p[i] = q[i + 1] /\ i + 1 \in DOMAIN q
    BY <1>0, <1>3
  <2> HIDE DEF p
  <2>2. \A i \in DOMAIN q : i = 1 \/ (i - 1 \in DOMAIN p /\ (i - 1) + 1 = i)
    BY <1>0, <2>1
  <2>3. \A i \in DOMAIN q : i = 1 \/ \E j \in DOMAIN p : p[j] = q[i]
    BY <2>1, <2>2
  <2>4. \A j \in DOMAIN p : \E i \in DOMAIN q : p[j] = q[i]
    BY <2>1
  <2>5. F!Brings(q) \subseteq F!Brings(p) \cup {Head(q).id} \cup Head(q).tells
    BY <2>1, <2>3 DEF F!Brings
  <2>6. F!Brings(p) \cup {Head(q).id} \cup Head(q).tells \subseteq F!Brings(q)
    BY <2>1, <2>4 DEF F!Brings
  <2> QED
    BY <2>5, <2>6 DEF p
<1>4. (\A i \in DOMAIN q : q[i].tells = {}) => F!Brings(q) = Ids(q)
  BY DEF F!Brings, Ids
<1> QED
  BY <1>1, <1>2, <1>3, <1>4

\* A queue is what comes before its last line, and that line.
LEMMA FrontFacts ==
  ASSUME NEW q \in Seq(Record)
  PROVE  /\ SubSeq(q, 1, Len(q) - 1) \in Seq(Record)
         /\ q # <<>> => q = Append(SubSeq(q, 1, Len(q) - 1), q[Len(q)])
         /\ q = <<>> => SubSeq(q, 1, Len(q) - 1) = <<>>
         /\ \A r \in Record : /\ Len(Append(q, r)) = Len(q) + 1
                             /\ SubSeq(Append(q, r), 1, Len(Append(q, r)) - 1) = q
                             /\ Append(q, r)[Len(Append(q, r))] = r
<1>0. Len(q) \in Nat /\ DOMAIN q = 1 .. Len(q)
  OBVIOUS
<1>1. SubSeq(q, 1, Len(q) - 1) \in Seq(Record)
  OBVIOUS
<1>2. q # <<>> => q = Append(SubSeq(q, 1, Len(q) - 1), q[Len(q)])
  OBVIOUS
<1>3. q = <<>> => SubSeq(q, 1, Len(q) - 1) = <<>>
  OBVIOUS
<1>4. ASSUME NEW r \in Record
      PROVE  /\ Len(Append(q, r)) = Len(q) + 1
             /\ SubSeq(Append(q, r), 1, Len(Append(q, r)) - 1) = q
             /\ Append(q, r)[Len(Append(q, r))] = r
  <2> DEFINE p == Append(q, r)
  <2>1. /\ p \in Seq(Record) /\ Len(p) = Len(q) + 1 /\ p[Len(q) + 1] = r
        /\ DOMAIN p = 1 .. Len(q) + 1 /\ \A i \in 1 .. Len(q) : p[i] = q[i]
    BY AppendFacts
  <2> HIDE DEF p
  <2>2. Len(p) - 1 = Len(q)
    BY <1>0, <2>1
  <2>3. SubSeq(p, 1, Len(q)) = q
    BY <1>0, <2>1
  <2> QED
    BY <2>1, <2>2, <2>3 DEF p
<1> QED
  BY <1>1, <1>2, <1>3, <1>4

\* A line the host takes shortens what the forwarder is done with, or is the
\* one it waits for.
LEMMA TailOfFront ==
  ASSUME NEW q \in Seq(Record), q # <<>>
  PROVE  /\ Len(q) = 1 => SubSeq(Tail(q), 1, Len(Tail(q)) - 1) = <<>>
         /\ Len(q) # 1 => /\ SubSeq(q, 1, Len(q) - 1) # <<>>
                          /\ SubSeq(Tail(q), 1, Len(Tail(q)) - 1) = Tail(SubSeq(q, 1, Len(q) - 1))
                          /\ Tail(q)[Len(Tail(q))] = q[Len(q)]
         /\ Tail(q) # <<>> <=> Len(q) # 1
<1>0. /\ Len(q) \in Nat /\ Len(q) # 0 /\ Tail(q) \in Seq(Record)
      /\ Len(Tail(q)) = Len(q) - 1 /\ \A i \in 1 .. Len(q) - 1 : Tail(q)[i] = q[i + 1]
  OBVIOUS
<1>1. Tail(q) # <<>> <=> Len(q) # 1
  <2>1. Tail(q) = <<>> <=> Len(Tail(q)) = 0
    BY <1>0
  <2> QED
    BY <1>0, <2>1
<1>2. Len(q) = 1 => SubSeq(Tail(q), 1, Len(Tail(q)) - 1) = <<>>
  <2>1. Len(q) = 1 => Tail(q) = <<>>
    BY <1>1
  <2> QED
    BY <2>1, FrontFacts
<1>3. ASSUME Len(q) # 1
      PROVE  /\ SubSeq(q, 1, Len(q) - 1) # <<>>
             /\ SubSeq(Tail(q), 1, Len(Tail(q)) - 1) = Tail(SubSeq(q, 1, Len(q) - 1))
             /\ Tail(q)[Len(Tail(q))] = q[Len(q)]
  <2> DEFINE f == SubSeq(q, 1, Len(q) - 1)
             t == SubSeq(Tail(q), 1, Len(Tail(q)) - 1)
             g == Tail(f)
  <2>1. /\ f \in Seq(Record) /\ Len(f) = Len(q) - 1
        /\ \A i \in 1 .. Len(q) - 1 : f[i] = q[i]
    BY <1>0
  <2>2. /\ t \in Seq(Record) /\ Len(t) = Len(q) - 2
        /\ \A i \in 1 .. Len(q) - 2 : t[i] = Tail(q)[i]
    BY <1>0, <1>3
  <2> HIDE DEF f, t
  <2>3. f # <<>>
    BY <1>0, <1>3, <2>1
  <2>4. /\ g \in Seq(Record) /\ Len(g) = Len(q) - 2
        /\ \A i \in 1 .. Len(q) - 2 : g[i] = f[i + 1]
    <3>1. f \in Seq(Record) /\ f # <<>>
      BY <2>1, <2>3
    <3>2. /\ g \in Seq(Record) /\ Len(g) = Len(f) - 1
          /\ \A i \in 1 .. Len(f) - 1 : g[i] = f[i + 1]
      BY <3>1
    <3>3. Len(f) - 1 = Len(q) - 2
      BY <1>0, <2>1
    <3> HIDE DEF g
    <3> QED
      BY <3>2, <3>3
  <2> HIDE DEF g
  <2>5. \A i \in 1 .. Len(q) - 2 : t[i] = g[i]
    <3> SUFFICES ASSUME NEW i \in 1 .. Len(q) - 2 PROVE t[i] = g[i]
      OBVIOUS
    <3>1. i \in 1 .. Len(q) - 1 /\ i + 1 \in 1 .. Len(q) - 1
      BY <1>0
    <3> QED
      BY <1>0, <2>1, <2>2, <2>4, <3>1
  <2>6. t = g
    <3>1. DOMAIN t = 1 .. Len(q) - 2 /\ DOMAIN g = 1 .. Len(q) - 2
      BY <2>2, <2>4
    <3> QED
      BY <2>2, <2>4, <2>5, <3>1
  <2>7. Len(q) - 1 \in 1 .. Len(q) - 1 /\ (Len(q) - 1) + 1 = Len(q)
    BY <1>0, <1>3
  <2>8. Tail(q)[Len(Tail(q))] = q[Len(q)]
    BY <1>0, <2>7
  <2> QED
    BY <2>3, <2>6, <2>8 DEF f, t, g
<1> QED
  BY <1>1, <1>2, <1>3

\* Backlog::push: what leaves at the front is counted, and what is held is
\* within the limit.
LEMMA PushCounts ==
  ASSUME backlog \in Seq(Record), NEW r \in Record, F!Push(r)
  PROVE  \/ r.size > Limit /\ dropped' = dropped \cup {r.id} /\ backlog' = backlog
         \/ \E k \in 0 .. Len(backlog) :
              /\ backlog' = Rest(backlog, k, r)
              /\ dropped' = dropped \cup FirstIds(backlog, k)
              /\ F!BytesOf(backlog') <= Limit
<1> DEFINE fits == {k \in 0 .. Len(backlog) :
                      F!BytesOf(SubSeq(backlog, k + 1, Len(backlog))) + r.size <= Limit}
           k == CHOOSE j \in fits : \A i \in fits : j <= i
<1>1. CASE r.size > Limit
  BY <1>1 DEF F!Push
<1>2. CASE ~(r.size > Limit)
  <2>0. Len(backlog) \in Nat /\ r.size \in Nat
    BY DEF Record
  <2>1. /\ backlog' = Rest(backlog, k, r)
        /\ dropped' = dropped \cup FirstIds(backlog, k)
    BY <1>2 DEF F!Push, F!Leaving, Rest, FirstIds
  <2>2. Len(backlog) \in fits
    <3>1. SubSeq(backlog, Len(backlog) + 1, Len(backlog)) = <<>>
      BY <2>0
    <3>2. <<>> \in Seq(Record)
      OBVIOUS
    <3>3. F!BytesOf(SubSeq(backlog, Len(backlog) + 1, Len(backlog))) = 0
      BY <3>1, <3>2, Bytes
    <3> QED
      BY <1>2, <2>0, <3>3, KmsgAssumption
  <2>3. k \in fits
    <3>1. fits \subseteq Nat
      BY <2>0
    <3> HIDE DEF fits
    <3> QED
      BY <2>2, <3>1, LeastNat
  <2>4. /\ k \in 0 .. Len(backlog)
        /\ F!BytesOf(SubSeq(backlog, k + 1, Len(backlog))) + r.size <= Limit
    <3> HIDE DEF k
    <3> QED
      BY <2>3
  <2> HIDE DEF k
  <2>5. SubSeq(backlog, k + 1, Len(backlog)) \in Seq(Record)
    BY <2>1, <2>4, FrontLeaves
  <2>6. F!BytesOf(backlog') = F!BytesOf(SubSeq(backlog, k + 1, Len(backlog))) + r.size
    BY <2>1, <2>5, Bytes DEF Rest
  <2> QED
    BY <2>1, <2>4, <2>6
<1> QED
  BY <1>1, <1>2

\* What NoSilentLoss says of a backlog, part by part.
Covered == read \subseteq known \cup F!Brings(backlog) \cup F!Brings(tty) \cup dropped \cup cut
Ordered(q) == \A i, j \in DOMAIN q :
                i < j /\ 0 \notin {q[i].id, q[j].id} => q[i].id < q[j].id

\* NoSilentLoss in the terms of this module.
LEMMA Silent ==
  NoSilentLoss <=> /\ Covered /\ cut_bytes <= HighWater + UsbDepth
                   /\ F!BytesOf(backlog) <= Limit /\ Ordered(backlog)
  BY DEF NoSilentLoss, F!NoSilentLoss, Covered, Ordered

\* The order of a backlog that lost its first k records and got a new last one.
LEMMA StillOrdered ==
  ASSUME NEW q \in Seq(Record), NEW n \in Nat, NEW k \in 0 .. Len(q), NEW r \in Record,
         NEW p, Moved(q, k, r, p), Ordered(q), \A i \in DOMAIN q : q[i].id <= n,
         r.id = 0 \/ n < r.id
  PROVE  Ordered(p)
<1>0. /\ Len(q) \in Nat /\ k \in Nat /\ k <= Len(q) /\ DOMAIN q = 1 .. Len(q)
      /\ p \in Seq(Record) /\ Len(p) = Len(q) - k + 1 /\ p[Len(p)] = r
      /\ DOMAIN p = 1 .. Len(q) - k + 1
      /\ \A i \in 1 .. Len(q) - k : p[i] = q[i + k]
  BY DEF Moved
<1>1. r.id \in Nat /\ \A i \in 1 .. Len(q) : q[i].id \in Nat
  <2>1. \A c \in Record : c.id \in Nat
    BY DEF Record
  <2> QED
    BY <1>0, <2>1
<1> SUFFICES ASSUME NEW i \in DOMAIN p, NEW j \in DOMAIN p, i < j, p[i].id # 0, p[j].id # 0
             PROVE  p[i].id < p[j].id
  BY Zenon DEF Ordered
<1>2. i \in 1 .. Len(q) - k /\ i + k \in 1 .. Len(q)
  BY <1>0
<1>3. p[i] = q[i + k] /\ q[i + k].id <= n /\ q[i + k].id \in Nat
  BY <1>0, <1>1, <1>2
<1>4. CASE j \in 1 .. Len(q) - k
  <2>1. p[j] = q[j + k] /\ j + k \in 1 .. Len(q) /\ i + k < j + k
    BY <1>0, <1>4
  <2> QED
    BY <1>0, <1>2, <1>3, <2>1 DEF Ordered
<1>5. CASE j = Len(q) - k + 1
  <2>1. p[j] = r
    BY <1>0, <1>5
  <2>2. n < r.id
    BY <2>1
  <2>3. p[i].id = q[i + k].id /\ p[j].id = r.id
    BY <1>3, <2>1
  <2> QED
    BY <1>1, <1>3, <2>2, <2>3
<1>6. j \in 1 .. Len(q) - k \/ j = Len(q) - k + 1
  <2>1. j \in 1 .. Len(q) - k + 1 /\ Len(q) \in Nat /\ k \in Nat
    BY <1>0
  <2> HIDE <1>0
  <2> QED
    BY <2>1
<1> QED
  BY <1>4, <1>5, <1>6, Zenon

\* A record is pushed: it is held or counted, and those it pushes out are
\* counted.
LEMMA PushKeeps ==
  ASSUME KmsgInv, NEW r \in Record, r.tells = {}, F!Push(r), ~sent,
         UNCHANGED <<log, known, cut, cut_bytes, tty, fd, sent>>,
         pos' \in Nat, pos <= pos', pos' <= Len(log), r.id = 0 \/ pos < r.id, r.id <= pos',
         read' = read \/ read' = read \cup {r.id}, read' \subseteq 1 .. pos'
  PROVE  KmsgInv'
<1>0. /\ log \in Seq(Nat) /\ pos \in Nat /\ dropped \subseteq Nat
      /\ backlog \in Seq(Record) /\ read \subseteq 1 .. pos
      /\ Len(backlog) \in Nat /\ DOMAIN backlog = 1 .. Len(backlog)
      /\ \A i \in DOMAIN backlog : backlog[i].id <= pos /\ backlog[i].tells = {}
      /\ tty \in Seq(Record) /\ (fd # "open" => tty = <<>>)
      /\ F!BytesOf(F!DoneWith) <= HighWater + UsbDepth
  BY DEF KmsgInv, HoldInv
<1>1. /\ Covered /\ cut_bytes <= HighWater + UsbDepth
      /\ F!BytesOf(backlog) <= Limit /\ Ordered(backlog)
  BY Silent DEF KmsgInv
<1>2. /\ r.id \in Nat /\ \A c \in Record : c.id \in Nat
      /\ \A i \in 1 .. Len(backlog) : backlog[i].id \in Nat
  <2>1. \A c \in Record : c.id \in Nat
    BY DEF Record
  <2> QED
    BY <1>0, <2>1
<1>3. F!DoneWith' = F!DoneWith /\ F!Brings(tty)' = F!Brings(tty)
  BY DEF F!DoneWith, F!Brings
<1>4. F!BytesOf(F!DoneWith)' = F!BytesOf(F!DoneWith)
  BY DEF F!BytesOf, F!Totals, F!DoneWith
<1>5. SentInv' /\ sent' \in BOOLEAN
  BY DEF SentInv, KmsgInv
\* What is left to show, in either case of the push.
<1>6. ASSUME backlog' \in Seq(Record), dropped' \subseteq Nat,
             \A i \in DOMAIN backlog' : backlog'[i].id <= pos' /\ backlog'[i].tells = {},
             Ids(backlog) \cup {r.id} \subseteq Ids(backlog') \cup dropped',
             dropped \subseteq dropped',
             F!BytesOf(backlog)' <= Limit, Ordered(backlog')
      PROVE  KmsgInv'
  <2>1. F!Brings(backlog) = Ids(backlog) /\ F!Brings(backlog') = Ids(backlog')
    BY <1>0, <1>6, BringsFacts
  <2>2. F!Brings(backlog)' = F!Brings(backlog')
    BY DEF F!Brings
  <2>3. Covered'
    BY <1>1, <1>3, <1>6, <2>1, <2>2 DEF Covered
  <2>4. Ordered(backlog)'
    BY <1>6 DEF Ordered
  <2>5. NoSilentLoss'
    BY <1>1, <1>6, <2>3, <2>4
       DEF NoSilentLoss, F!NoSilentLoss, Covered, Ordered
  <2>6. HoldInv'
    BY <1>0, <1>4, <1>6 DEF HoldInv
  <2> QED
    BY <1>5, <2>5, <2>6 DEF KmsgInv
<1>7. CASE r.size > Limit /\ dropped' = dropped \cup {r.id} /\ backlog' = backlog
  <2>1. F!BytesOf(backlog)' = F!BytesOf(backlog)
    BY <1>7 DEF F!BytesOf, F!Totals
  <2>2. \A i \in DOMAIN backlog : backlog[i].id <= pos'
    BY <1>0, <1>2
  <2> QED
    BY <1>0, <1>1, <1>2, <1>6, <1>7, <2>1, <2>2
<1>8. ASSUME NEW k \in 0 .. Len(backlog),
             backlog' = Rest(backlog, k, r),
             dropped' = dropped \cup FirstIds(backlog, k), F!BytesOf(backlog') <= Limit
      PROVE  KmsgInv'
  <2>1. Moved(backlog, k, r, backlog')
    BY <1>0, <1>8, FrontLeaves
  <2>2. /\ backlog' \in Seq(Record)
        /\ Ids(backlog) \subseteq Ids(backlog') \cup FirstIds(backlog, k)
        /\ r.id \in Ids(backlog')
    BY <2>1 DEF Moved
  <2>3. FirstIds(backlog, k) \subseteq Nat
    BY <1>0, <1>2 DEF FirstIds
  <2>4. \A i \in DOMAIN backlog' : backlog'[i].id <= pos' /\ backlog'[i].tells = {}
    <3> TAKE i \in DOMAIN backlog'
    <3>0. Len(backlog') = Len(backlog) - k + 1 /\ DOMAIN backlog' = 1 .. Len(backlog) - k + 1
          /\ k \in Nat /\ k <= Len(backlog)
      BY <1>0, <2>1, <2>2 DEF Moved
    <3>1. CASE i = Len(backlog) - k + 1
      <4>1. backlog'[i] = r
        BY <2>1, <3>0, <3>1 DEF Moved
      <4> QED
        BY <4>1
    <3>2. CASE i # Len(backlog) - k + 1
      <4>1. i \in 1 .. Len(backlog) - k /\ i + k \in 1 .. Len(backlog)
        BY <1>0, <3>0, <3>2
      <4>2. backlog'[i] = backlog[i + k]
        BY <2>1, <4>1 DEF Moved
      <4>3. backlog[i + k].id <= pos /\ backlog[i + k].tells = {} /\ backlog[i + k].id \in Nat
        BY <1>0, <1>2, <4>1
      <4> QED
        BY <1>0, <4>2, <4>3
    <3> QED
      BY <3>1, <3>2
  <2>5. Ordered(backlog')
    BY <1>0, <1>1, <2>1, StillOrdered
  <2>6. F!BytesOf(backlog)' <= Limit
    BY <1>8 DEF F!BytesOf, F!Totals
  <2> QED
    BY <1>0, <1>6, <1>8, <2>2, <2>3, <2>4, <2>5, <2>6
<1> QED
  BY <1>0, <1>7, <1>8, PushCounts

\* read_kmsg: the note about overwritten records, or the next record.
LEMMA ReadKeeps ==
  ASSUME KmsgInv, F!ReadKmsg, ~sent, UNCHANGED <<log, known, cut, cut_bytes, tty, fd, sent>>
  PROVE  KmsgInv'
<1>0. /\ log \in Seq(Nat) /\ pos \in Nat /\ Len(log) \in Nat /\ read \subseteq 1 .. pos
      /\ pos < Len(log)
  BY DEF KmsgInv, HoldInv, F!ReadKmsg
<1>1. CASE pos < F!Oldest
  <2> DEFINE r == [id |-> 0, size |-> 1, tells |-> {}]
  <2>1. r \in Record /\ r.id = 0 /\ r.tells = {}
    BY DEF Record
  <2>2. F!Push(r) /\ pos' = F!Oldest /\ read' = read
    BY <1>1 DEF F!ReadKmsg
  <2> HIDE DEF r
  <2>3. pos' \in Nat /\ pos <= pos' /\ pos' <= Len(log)
    BY <1>0, <1>1, <2>2, KmsgAssumption DEF F!Oldest
  <2>4. read' \subseteq 1 .. pos' /\ r.id <= pos'
    BY <1>0, <2>1, <2>2, <2>3
  <2> QED
    BY <2>1, <2>2, <2>3, <2>4, PushKeeps
<1>2. CASE ~(pos < F!Oldest)
  <2> DEFINE r == [id |-> pos + 1, size |-> log[pos + 1], tells |-> {}]
  <2>1. r \in Record /\ r.id = pos + 1 /\ r.tells = {}
    BY <1>0 DEF Record
  <2>2. F!Push(r) /\ pos' = pos + 1 /\ read' = read \cup {pos + 1}
    BY <1>2 DEF F!ReadKmsg
  <2> HIDE DEF r
  <2>3. pos' \in Nat /\ pos <= pos' /\ pos' <= Len(log) /\ pos < r.id /\ r.id <= pos'
    BY <1>0, <2>1, <2>2
  <2>4. read' \subseteq 1 .. pos'
    BY <1>0, <2>2
  <2>5. read' = read \cup {r.id}
    BY <2>1, <2>2
  <2> QED
    BY <2>1, <2>2, <2>3, <2>4, <2>5, PushKeeps
<1> QED
  BY <1>1, <1>2

\* The forwarder begins with nothing read.
LEMMA KmsgInit == Init => KmsgInv
<1> SUFFICES ASSUME Init PROVE KmsgInv
  OBVIOUS
<1>1. /\ log = <<>> /\ pos = 0 /\ backlog = <<>> /\ dropped = {} /\ known = {} /\ read = {}
      /\ tty = <<>> /\ fd = "none" /\ sent = FALSE /\ cut = {} /\ cut_bytes = 0
  BY DEF Init, F!Init
<1>2. <<>> \in Seq(Record) /\ F!BytesOf(<<>>) = 0
  <2>1. <<>> \in Seq(Record)
    OBVIOUS
  <2> QED
    BY <2>1, Bytes
<1>3. Covered /\ Ordered(backlog)
  BY <1>1 DEF Covered, Ordered
<1>4. NoSilentLoss
  BY <1>1, <1>2, <1>3, Silent, KmsgAssumption
<1>5. HoldInv
  BY <1>1, <1>2, KmsgAssumption DEF HoldInv, F!DoneWith
<1> QED
  BY <1>1, <1>4, <1>5 DEF KmsgInv, SentInv

\* A record leaves the forwarder's hands only to the host, on a short queue, or
\* counted.
LEMMA KmsgNext == KmsgInv /\ [F!Next]_kmsgVars => KmsgInv'
<1> SUFFICES ASSUME KmsgInv, [F!Next]_kmsgVars PROVE KmsgInv'
  OBVIOUS
<1>0. /\ log \in Seq(Nat) /\ pos \in Nat /\ pos <= Len(log) /\ Len(log) \in Nat
      /\ backlog \in Seq(Record) /\ read \subseteq 1 .. pos /\ dropped \subseteq Nat
      /\ \A i \in DOMAIN backlog : backlog[i].id <= pos /\ backlog[i].tells = {}
      /\ tty \in Seq(Record) /\ (fd # "open" => tty = <<>>)
      /\ F!BytesOf(F!DoneWith) <= HighWater + UsbDepth
      /\ sent \in BOOLEAN
  BY DEF KmsgInv, HoldInv
<1>1. /\ Covered /\ cut_bytes <= HighWater + UsbDepth
      /\ F!BytesOf(backlog) <= Limit /\ Ordered(backlog)
  BY Silent DEF KmsgInv
<1>2. SentInv /\ NoSilentLoss /\ HoldInv
  BY DEF KmsgInv
\* A step that leaves the backlog, the drops and what is on its way alone.
<1>3. ASSUME UNCHANGED <<pos, backlog, dropped, read, tty, known, cut, cut_bytes, sent>>,
             log' \in Seq(Nat), Len(log') >= Len(log), fd' # "open" => tty = <<>>, SentInv'
      PROVE  KmsgInv'
  <2>1. NoSilentLoss'
    BY <1>2, <1>3 DEF NoSilentLoss, F!NoSilentLoss, F!Brings, F!BytesOf, F!Totals
  <2>2. F!BytesOf(F!DoneWith)' = F!BytesOf(F!DoneWith)
    BY <1>3 DEF F!BytesOf, F!Totals, F!DoneWith
  <2>3. HoldInv'
    <3>1. pos' <= Len(log')
      BY <1>0, <1>3
    <3> QED
      BY <1>0, <1>3, <2>2, <3>1 DEF HoldInv
  <2> QED
    BY <1>0, <1>3, <2>1, <2>3 DEF KmsgInv
<1>4. CASE F!KernelLogs
  <2>1. PICK s \in Sizes : log' = Append(log, s)
    BY <1>4 DEF F!KernelLogs
  <2>2. log' \in Seq(Nat) /\ Len(log') >= Len(log)
    BY <1>0, <2>1, KmsgAssumption
  <2>3. UNCHANGED <<known, cut, cut_bytes, pos, tty, fd, kPc, sent, backlog, dropped, read>>
    BY <1>4 DEF F!KernelLogs, F!histVars
  <2>4. SentInv'
    BY <1>2, <2>3 DEF SentInv, F!Brings
  <2> QED
    BY <1>0, <1>3, <2>2, <2>3, <2>4
<1>5. CASE F!PortChanges \/ UNCHANGED kmsgVars
  <2>1. UNCHANGED <<log, known, cut, cut_bytes, pos, tty, fd, kPc, sent, backlog, dropped, read>>
    BY <1>5 DEF F!PortChanges, F!histVars, kmsgVars
  <2>2. SentInv'
    BY <1>2, <2>1 DEF SentInv, F!Brings
  <2> QED
    BY <1>0, <1>3, <2>1, <2>2
<1>6. CASE F!Drained \/ F!Opens \/ F!NoDtr \/ F!Attached \/ F!Flushed
  <2>1. UNCHANGED <<log, known, cut, cut_bytes, pos, tty, sent, backlog, dropped, read>>
    BY <1>6 DEF F!Drained, F!Opens, F!NoDtr, F!Attached, F!Flushed, F!histVars, F!portVars
  <2>2. ~sent /\ (fd' = fd \/ fd = "none")
    BY <1>2, <1>6 DEF SentInv, F!Drained, F!Opens, F!NoDtr, F!Attached, F!Flushed
  <2>3. SentInv'
    BY <2>1, <2>2 DEF SentInv
  <2>4. fd' # "open" => tty = <<>>
    BY <1>0, <2>2
  <2> QED
    BY <1>0, <1>3, <2>1, <2>3, <2>4
<1>7. CASE F!Drain \/ F!Forward
  <2>1. ~sent
    BY <1>2, <1>7 DEF SentInv, F!Drain, F!Forward
  <2> QED
    BY <1>7, <2>1, ReadKeeps DEF F!Drain, F!Forward, F!histVars, F!portVars
<1>8. CASE F!HostTakes
  <2>1. /\ tty # <<>> /\ tty' = Tail(tty)
        /\ known' = known \cup {Head(tty).id} \cup Head(tty).tells
        /\ UNCHANGED <<log, cut, cut_bytes, pos, fd, kPc, sent, backlog, dropped, read>>
    BY <1>8 DEF F!HostTakes, F!portVars
  <2>2. /\ tty' \in Seq(Record)
        /\ known' \cup F!Brings(tty') = known \cup F!Brings(tty)
    BY <1>0, <2>1, BringsFacts
  <2>3. F!Brings(tty)' = F!Brings(tty') /\ F!Brings(backlog)' = F!Brings(backlog)
        /\ F!BytesOf(backlog)' = F!BytesOf(backlog)
    BY <2>1 DEF F!Brings, F!BytesOf, F!Totals
  <2>4. NoSilentLoss'
    <3>1. Covered'
      BY <1>1, <2>1, <2>2, <2>3 DEF Covered
    <3> QED
      BY <1>1, <2>1, <2>3, <3>1 DEF NoSilentLoss, F!NoSilentLoss, Covered, Ordered
  <2>5. F!BytesOf(F!DoneWith)' <= HighWater + UsbDepth
    <3> DEFINE q == F!DoneWith
               p == IF sent THEN SubSeq(tty', 1, Len(tty') - 1) ELSE tty'
    <3>1. q \in Seq(Record) /\ p \in Seq(Record)
      BY <1>0, <2>2, FrontFacts DEF F!DoneWith
    <3>2. p = <<>> \/ (q # <<>> /\ p = Tail(q))
      <4>1. CASE sent
        BY <1>0, <2>1, <4>1, TailOfFront DEF F!DoneWith
      <4>2. CASE ~sent
        BY <2>1, <4>2 DEF F!DoneWith
      <4> QED
        BY <4>1, <4>2
    <3> HIDE DEF p
    <3>3. F!BytesOf(p) <= F!BytesOf(q) \/ F!BytesOf(p) = 0
      BY <3>1, <3>2, Bytes
    <3>4. F!BytesOf(p) \in Nat /\ F!BytesOf(q) \in Nat
      BY <3>1, Bytes
    <3>5. F!BytesOf(p) <= HighWater + UsbDepth
      BY <1>0, <3>3, <3>4, KmsgAssumption
    <3>6. F!BytesOf(F!DoneWith)' = F!BytesOf(p)
      BY <2>1 DEF F!BytesOf, F!Totals, F!DoneWith, p
    <3> QED
      BY <3>5, <3>6
  <2>6. HoldInv'
    BY <1>0, <2>1, <2>2, <2>5 DEF HoldInv
  <2>7. SentInv'
    <3>1. tty' # <<>> => tty'[Len(tty')] = tty[Len(tty)]
      BY <1>0, <2>1, TailOfFront
    <3> QED
      BY <1>2, <2>1, <2>2, <2>3, <3>1 DEF SentInv
  <2> QED
    BY <1>0, <2>1, <2>4, <2>6, <2>7 DEF KmsgInv
<1>9. CASE F!PortGone
  <2> DEFINE q == F!DoneWith
  <2>1. /\ tty' = <<>> /\ fd' # "open" /\ cut' = cut \cup F!Brings(q)
        /\ cut_bytes' = F!BytesOf(q)
        /\ UNCHANGED <<log, known, pos, kPc, sent, backlog, dropped, read>>
    BY <1>9 DEF F!PortGone
  <2>2. <<>> \in Seq(Record) /\ F!BytesOf(<<>>) = 0 /\ F!Brings(<<>>) = {}
    <3>1. <<>> \in Seq(Record)
      OBVIOUS
    <3> QED
      BY <3>1, Bytes, BringsFacts
  <2>3. F!Brings(tty) \subseteq F!Brings(q) \cup F!Brings(backlog) \cup dropped \cup {0}
    <3>1. CASE ~sent
      BY <3>1 DEF F!DoneWith
    <3>2. CASE tty = <<>>
      BY <1>0, <3>2, BringsFacts
    <3>3. CASE sent /\ tty # <<>>
      <4> DEFINE l == tty[Len(tty)]
      <4>1. q \in Seq(Record) /\ l \in Record /\ tty = Append(q, l)
        BY <1>0, <3>3, FrontFacts DEF F!DoneWith
      <4>2. F!Brings(tty) = F!Brings(q) \cup {l.id} \cup l.tells
        BY <4>1, BringsFacts
      <4>3. CASE kPc = "flush"
        <5>1. l = Head(backlog) /\ backlog # <<>>
          BY <1>2, <3>3, <4>3 DEF SentInv
        <5>2. 1 \in DOMAIN backlog /\ Head(backlog) = backlog[1]
          BY <1>0, <5>1
        <5>3. l.tells = {} /\ l.id \in F!Brings(backlog)
          BY <1>0, <5>1, <5>2 DEF F!Brings
        <5> QED
          BY <4>2, <5>3
      <4>4. CASE kPc = "note"
        BY <1>2, <3>3, <4>2, <4>4 DEF SentInv
      <4> QED
        BY <1>2, <3>3, <4>3, <4>4 DEF SentInv
    <3> QED
      BY <3>1, <3>2, <3>3
  <2> HIDE DEF q
  <2>4. F!Brings(tty)' = {} /\ F!Brings(backlog)' = F!Brings(backlog)
        /\ F!BytesOf(backlog)' = F!BytesOf(backlog)
    <3>1. F!Brings(tty)' = F!Brings(tty')
      BY DEF F!Brings
    <3> QED
      BY <2>1, <2>2, <3>1 DEF F!Brings, F!BytesOf, F!Totals
  <2>5. NoSilentLoss'
    <3>1. 0 \notin read
      BY <1>0
    <3>2. Covered'
      BY <1>1, <2>1, <2>3, <2>4, <3>1 DEF Covered
    <3>3. cut_bytes' <= HighWater + UsbDepth
      BY <1>0, <2>1 DEF q
    <3> QED
      BY <1>1, <2>1, <2>4, <3>2, <3>3 DEF NoSilentLoss, F!NoSilentLoss, Covered, Ordered
  <2>6. HoldInv'
    <3>1. F!DoneWith' = <<>>
      BY <2>1, <2>2, FrontFacts DEF F!DoneWith
    <3>2. F!BytesOf(F!DoneWith)' = F!BytesOf(F!DoneWith')
      BY DEF F!BytesOf, F!Totals
    <3>3. F!BytesOf(F!DoneWith)' <= HighWater + UsbDepth
      BY <2>2, <3>1, <3>2, KmsgAssumption
    <3> QED
      BY <1>0, <2>1, <2>2, <3>3 DEF HoldInv
  <2>7. SentInv'
    BY <1>2, <2>1 DEF SentInv
  <2> QED
    BY <1>0, <2>1, <2>5, <2>6, <2>7 DEF KmsgInv
\* A line is written.
<1>10. ASSUME NEW l \in Record, F!Write(l), UNCHANGED F!histVars,
              \/ kPc = "flush" /\ backlog # <<>> /\ l = Head(backlog)
              \/ kPc = "note" /\ l.id = 0 /\ l.tells = dropped
       PROVE  KmsgInv'
  <2>1. /\ fd = "open" /\ ~sent /\ tty' = Append(tty, l) /\ sent' = TRUE
        /\ UNCHANGED <<log, known, cut, cut_bytes, pos, fd, kPc, backlog, dropped, read>>
    BY <1>10 DEF F!Write, F!portVars, F!histVars
  <2>2. /\ tty' \in Seq(Record) /\ F!Brings(tty') = F!Brings(tty) \cup {l.id} \cup l.tells
        /\ SubSeq(tty', 1, Len(tty') - 1) = tty /\ tty'[Len(tty')] = l
    BY <1>0, <2>1, BringsFacts, FrontFacts
  <2>3. F!Brings(tty)' = F!Brings(tty') /\ F!Brings(backlog)' = F!Brings(backlog)
        /\ F!BytesOf(backlog)' = F!BytesOf(backlog)
    BY <2>1 DEF F!Brings, F!BytesOf, F!Totals
  <2>4. NoSilentLoss'
    <3>1. Covered'
      BY <1>1, <2>1, <2>2, <2>3 DEF Covered
    <3> QED
      BY <1>1, <2>1, <2>3, <3>1 DEF NoSilentLoss, F!NoSilentLoss, Covered, Ordered
  <2>5. HoldInv'
    <3>1. F!DoneWith = tty /\ F!DoneWith' = tty
      BY <2>1, <2>2 DEF F!DoneWith
    <3>2. F!BytesOf(F!DoneWith)' = F!BytesOf(F!DoneWith')
      BY DEF F!BytesOf, F!Totals
    <3>3. F!BytesOf(F!DoneWith)' <= HighWater + UsbDepth
      BY <1>0, <3>1, <3>2
    <3> QED
      BY <1>0, <2>1, <2>2, <3>3 DEF HoldInv
  <2>6. SentInv'
    BY <1>10, <2>1, <2>2, <2>3 DEF SentInv
  <2> QED
    BY <2>1, <2>4, <2>5, <2>6 DEF KmsgInv
<1>11. CASE F!WriteNote /\ UNCHANGED F!histVars
  <2> DEFINE l == [id |-> 0, size |-> 1, tells |-> dropped]
  <2>1. l \in Record /\ l.id = 0 /\ l.tells = dropped
    BY <1>0 DEF Record
  <2>2. F!Write(l) /\ kPc = "note"
    BY <1>11 DEF F!WriteNote
  <2> HIDE DEF l
  <2> QED
    BY <1>10, <1>11, <2>1, <2>2
<1>12. CASE F!WriteRecord /\ UNCHANGED F!histVars
  <2>1. Head(backlog) \in Record /\ backlog # <<>> /\ F!Write(Head(backlog)) /\ kPc = "flush"
    BY <1>0, <1>12 DEF F!WriteRecord
  <2> QED
    BY <1>10, <1>12, <2>1
\* The queue is short: everything on it is done with.
<1>13. ASSUME F!QueueShort, UNCHANGED F!histVars
       PROVE  /\ fd = "open" /\ sent /\ ~sent' /\ sent' \in BOOLEAN /\ SentInv'
              /\ F!BytesOf(F!DoneWith)' <= HighWater + UsbDepth
              /\ UNCHANGED <<log, known, cut, cut_bytes, pos, tty, fd, read>>
              /\ F!Brings(tty)' = F!Brings(tty)
  <2>1. /\ fd = "open" /\ sent /\ ~sent' /\ sent' \in BOOLEAN
        /\ UNCHANGED <<log, known, cut, cut_bytes, pos, tty, fd, read>>
        /\ F!BytesOf(tty) <= HighWater + UsbDepth
    BY <1>13 DEF F!QueueShort, F!portVars, F!histVars
  <2>2. F!BytesOf(F!DoneWith)' = F!BytesOf(tty)
    BY <2>1 DEF F!BytesOf, F!Totals, F!DoneWith
  <2> QED
    BY <2>1, <2>2 DEF SentInv, F!Brings
<1>14. CASE F!NoteFlushed /\ UNCHANGED F!histVars
  <2>1. F!QueueShort /\ kPc = "note" /\ dropped' = {} /\ backlog' = backlog
    BY <1>14 DEF F!NoteFlushed
  <2>2. dropped \subseteq known \cup F!Brings(tty)
    BY <1>2, <1>13, <1>14, <2>1 DEF SentInv
  <2>3. F!Brings(backlog)' = F!Brings(backlog) /\ F!BytesOf(backlog)' = F!BytesOf(backlog)
    BY <2>1 DEF F!Brings, F!BytesOf, F!Totals
  <2>4. Covered'
    BY <1>1, <1>13, <1>14, <2>1, <2>2, <2>3 DEF Covered
  <2>5. NoSilentLoss'
    BY <1>1, <1>13, <1>14, <2>1, <2>3, <2>4 DEF NoSilentLoss, F!NoSilentLoss, Covered, Ordered
  <2>6. HoldInv'
    BY <1>0, <1>13, <1>14, <2>1 DEF HoldInv
  <2> QED
    BY <1>13, <1>14, <2>1, <2>5, <2>6 DEF KmsgInv
<1>15. CASE F!RecordFlushed /\ UNCHANGED F!histVars
  <2>1. F!QueueShort /\ kPc = "flush" /\ backlog' = Tail(backlog) /\ dropped' = dropped
    BY <1>15 DEF F!RecordFlushed
  <2>2. backlog # <<>> /\ Head(backlog).id \in known \cup F!Brings(tty)
    BY <1>2, <1>13, <1>15, <2>1 DEF SentInv
  <2>3. /\ backlog' \in Seq(Record) /\ DOMAIN backlog' = 1 .. Len(backlog) - 1
        /\ Len(backlog) \in Nat /\ DOMAIN backlog = 1 .. Len(backlog)
        /\ Head(backlog) = backlog[1] /\ 1 \in DOMAIN backlog
        /\ \A i \in DOMAIN backlog' : backlog'[i] = backlog[i + 1] /\ i + 1 \in DOMAIN backlog
    BY <1>0, <2>1, <2>2
  <2>4. F!Brings(backlog) \subseteq F!Brings(backlog') \cup known \cup F!Brings(tty)
    <3>1. F!Brings(backlog) = F!Brings(Tail(backlog)) \cup {Head(backlog).id} \cup Head(backlog).tells
      BY <1>0, <2>2, BringsFacts
    <3>2. Head(backlog).tells = {}
      BY <1>0, <2>3
    <3> QED
      BY <2>1, <2>2, <3>1, <3>2
  <2>5. F!Brings(backlog)' = F!Brings(backlog') /\ F!BytesOf(backlog)' = F!BytesOf(backlog')
    BY DEF F!Brings, F!BytesOf, F!Totals
  <2>6. F!BytesOf(backlog') <= Limit
    <3>1. F!BytesOf(Tail(backlog)) <= F!BytesOf(backlog)
      BY <1>0, <2>2, Bytes
    <3>2. F!BytesOf(backlog) \in Nat /\ F!BytesOf(backlog') \in Nat
      BY <1>0, <2>3, Bytes
    <3> QED
      BY <1>1, <2>1, <3>1, <3>2, KmsgAssumption
  <2>7. Ordered(backlog')
    <3> SUFFICES ASSUME NEW i \in DOMAIN backlog', NEW j \in DOMAIN backlog', i < j,
                        0 \notin {backlog'[i].id, backlog'[j].id}
                 PROVE  backlog'[i].id < backlog'[j].id
      BY Zenon DEF Ordered
    <3>1. /\ backlog'[i] = backlog[i + 1] /\ backlog'[j] = backlog[j + 1]
          /\ i + 1 \in DOMAIN backlog /\ j + 1 \in DOMAIN backlog /\ i + 1 < j + 1
      BY <2>3
    <3> QED
      BY <1>1, <3>1 DEF Ordered
  <2>8. Covered'
    BY <1>1, <1>13, <1>15, <2>1, <2>4, <2>5 DEF Covered
  <2>11. Ordered(backlog)'
    BY <2>7 DEF Ordered
  <2>12. cut_bytes' <= HighWater + UsbDepth /\ F!BytesOf(backlog)' <= Limit
    BY <1>1, <1>13, <1>15, <2>1, <2>5, <2>6
  <2>9. NoSilentLoss'
    BY <2>8, <2>11, <2>12 DEF NoSilentLoss, F!NoSilentLoss, Covered, Ordered
  <2>10. HoldInv'
    BY <1>0, <1>13, <1>15, <2>1, <2>3 DEF HoldInv
  <2> QED
    BY <1>13, <1>15, <2>1, <2>9, <2>10 DEF KmsgInv
<1>16. CASE F!Disconnected /\ UNCHANGED F!histVars
  <2>1. /\ fd = "hung" /\ fd' = "none" /\ ~sent' /\ sent' \in BOOLEAN
        /\ UNCHANGED <<log, known, cut, cut_bytes, pos, tty, backlog, dropped, read>>
    BY <1>16 DEF F!Disconnected, F!portVars, F!histVars
  <2>2. tty = <<>>
    BY <1>0, <2>1
  <2>3. NoSilentLoss'
    BY <1>2, <2>1 DEF NoSilentLoss, F!NoSilentLoss, F!Brings, F!BytesOf, F!Totals
  <2>4. F!BytesOf(F!DoneWith)' <= HighWater + UsbDepth
    <3>1. F!DoneWith' = <<>>
      BY <2>1, <2>2 DEF F!DoneWith
    <3>2. F!BytesOf(F!DoneWith)' = F!BytesOf(F!DoneWith')
      BY DEF F!BytesOf, F!Totals
    <3>3. F!BytesOf(<<>>) = 0
      <4>1. <<>> \in Seq(Record)
        OBVIOUS
      <4> QED
        BY <4>1, Bytes
    <3> QED
      BY <3>1, <3>2, <3>3, KmsgAssumption
  <2>5. HoldInv'
    BY <1>0, <2>1, <2>2, <2>4 DEF HoldInv
  <2> QED
    BY <2>1, <2>3, <2>5 DEF KmsgInv, SentInv
<1>17. CASE F!Restart
  <2>1. /\ pos' = F!Oldest /\ tty' = <<>> /\ fd' = "none" /\ sent' = FALSE
        /\ backlog' = <<>> /\ dropped' = {} /\ known' = {} /\ cut' = {} /\ cut_bytes' = 0
        /\ read' = {} /\ log' = log
    BY <1>17 DEF F!Restart, F!portVars
  <2>2. pos' \in Nat /\ pos' <= Len(log)
    BY <1>0, <2>1, KmsgAssumption DEF F!Oldest
  <2>3. <<>> \in Seq(Record) /\ F!BytesOf(<<>>) = 0
    <3>1. <<>> \in Seq(Record)
      OBVIOUS
    <3> QED
      BY <3>1, Bytes
  <2>4. F!BytesOf(backlog)' = F!BytesOf(<<>>) /\ F!BytesOf(F!DoneWith)' = F!BytesOf(<<>>)
    BY <2>1 DEF F!BytesOf, F!Totals, F!DoneWith
  <2>5. NoSilentLoss'
    <3>1. Covered' /\ Ordered(backlog)'
      BY <2>1 DEF Covered, Ordered
    <3> QED
      BY <2>1, <2>3, <2>4, <3>1, KmsgAssumption
         DEF NoSilentLoss, F!NoSilentLoss, Covered, Ordered
  <2>6. HoldInv'
    BY <1>0, <2>1, <2>2, <2>3, <2>4, KmsgAssumption DEF HoldInv
  <2> QED
    BY <2>1, <2>5, <2>6 DEF KmsgInv, SentInv
<1>18. F!WriteNote \/ F!NoteFlushed \/ F!WriteRecord \/ F!RecordFlushed \/ F!Disconnected
         => UNCHANGED F!histVars
  BY DEF F!WriteNote, F!WriteRecord, F!Write, F!NoteFlushed, F!RecordFlushed, F!QueueShort,
         F!Disconnected
<1> QED
  BY <1>4, <1>5, <1>6, <1>7, <1>8, <1>9, <1>11, <1>12, <1>14, <1>15, <1>16, <1>17, <1>18
     DEF F!Next

\* A record that was read is with the host or on its way, held, or counted in
\* what the host is told; only the port takes lines with it, and no more than
\* its short queue holds, for any ring, limits, sizes and losses.
THEOREM LossIsTold == Spec => []NoSilentLoss
<1>1. KmsgInv /\ [Next]_<<loop, sparseVars, walkVars, kmsgVars, settleVars, payloadVars>>
        => KmsgInv'
  <2>1. [Next]_<<loop, sparseVars, walkVars, kmsgVars, settleVars, payloadVars>>
          => [F!Next]_kmsgVars
    BY DEF Next
  <2> QED
    BY <2>1, KmsgNext
<1>2. KmsgInv => NoSilentLoss
  BY DEF KmsgInv
<1> QED
  BY KmsgInit, <1>1, <1>2, PTL DEF Spec
=============================================================================
