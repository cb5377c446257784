--------------------------- MODULE AbSlots_proofs ----------------------------
(***************************************************************************)
(* The promises of set_active, for any set of disks, any partition tables  *)
(* and any number of commands.                                             *)
(*                                                                         *)
(* OneCopySurvives is not inductive: that the primary is complete before   *)
(* the backup is touched shows only in how much of the disk in flight has  *)
(* been written. CommitInv keeps track of that. For the other two,         *)
(* TableInv says what every table on its way between memory, page cache    *)
(* and medium looks like, and DoneInv what the loop has left behind.       *)
(***************************************************************************)
EXTENDS AbSlots, TLAPS

\* The page cache and the updated GPT have the four regions of a disk.
Shape ==
    /\ cache = [d \in Disk |-> [r \in Region |-> cache[d][r]]]
    /\ media = [d \in Disk |-> [r \in Region |-> media[d][r]]]
    /\ disk \in Disk /\ todo \subseteq Disk

\* The copies commit() writes are valid, it writes them in order, and the one
\* it is not writing is valid in the page cache.
CommitInv ==
    pc \in {"write", "sync"} =>
        /\ PrimaryValid(gpt) /\ BackupValid(gpt)
        /\ written \in {{}, {"primary_entries"},
                        {"primary_entries", "primary_header"},
                        Region \ {"backup_header"}, Region}
        /\ "primary_entries" \in written =>
             cache[disk]["primary_entries"] = gpt["primary_entries"]
        /\ IF "primary_header" \in written THEN PrimaryValid(cache[disk])
                                           ELSE BackupValid(cache[disk])

CopyInv == Shape /\ CommitInv /\ OneCopySurvives

-----------------------------------------------------------------------------

\* A fresh machine has two valid copies on every disk.
LEMMA InitCopy == Init => CopyInv
<1> SUFFICES ASSUME Init PROVE CopyInv
  OBVIOUS
<1> USE DEF Init
<1>1. Shape
  BY DiskAssumption DEF Shape
<1>2. OneCopySurvives
  BY DEF OneCopySurvives, PrimaryValid, Region
<1> QED
  BY <1>1, <1>2 DEF CopyInv, CommitInv

\* Every step of set_active, every failure and every write-back keeps CopyInv.
LEMMA NextCopy == CopyInv /\ [Next]_vars => CopyInv'
<1> SUFFICES ASSUME CopyInv, [Next]_vars PROVE CopyInv'
  OBVIOUS
<1> USE DEF CopyInv, devVars, callVars
<1>1. ASSUME NEW slot \in Slot, SetActive(slot) PROVE CopyInv'
  BY <1>1
     DEF SetActive, Return, Shape, CommitInv, OneCopySurvives, PrimaryValid,
         BackupValid
<1>2. ASSUME NEW d \in Disk, LoadFails(d) PROVE CopyInv'
  BY <1>2
     DEF LoadFails, NextDisk, Return, Shape, CommitInv, OneCopySurvives,
         PrimaryValid, BackupValid
<1>3. ASSUME NEW d \in Disk, LoadAndUpdate(d) PROVE CopyInv'
  <2>1. Shape'
    BY <1>3 DEF LoadAndUpdate, NextDisk, Return, Shape
  <2>2. OneCopySurvives'
    BY <1>3 DEF LoadAndUpdate, OneCopySurvives, PrimaryValid, BackupValid
  <2>3. PrimaryValid(cache[d]) /\ BackupValid(cache[d]) /\ UNCHANGED cache
    BY <1>3 DEF LoadAndUpdate
  <2>4. ASSUME pc' \in {"write", "sync"}
        PROVE  /\ disk' = d /\ written' = {}
               /\ PrimaryValid(gpt') /\ BackupValid(gpt')
    BY <1>3, <2>4 DEF LoadAndUpdate, NextDisk, Return, UpdatedGpt, PrimaryValid,
                      BackupValid
  <2>5. CommitInv'
    BY <2>3, <2>4 DEF CommitInv, PrimaryValid, BackupValid
  <2> QED
    BY <2>1, <2>2, <2>5
<1>4. CASE Finish
  BY <1>4
     DEF Finish, Return, Shape, CommitInv, OneCopySurvives, PrimaryValid,
         BackupValid
<1>5. ASSUME NEW r \in Region, CommitWrite(r) PROVE CopyInv'
  <2>1. /\ pc = "write" /\ r \notin written /\ Before[r] \subseteq written
        /\ cache' = [cache EXCEPT ![disk][r] = gpt[r]]
        /\ written' = written \union {r}
        /\ UNCHANGED <<media, lost, todo, disk, gpt>>
    BY <1>5 DEF CommitWrite, CommitOrder
  <2>2. Shape'
    BY <2>1 DEF Shape
  <2>3. \A d \in Disk, q \in Region :
          cache'[d][q] = IF d = disk /\ q = r THEN gpt[r] ELSE cache[d][q]
    BY <2>1 DEF Shape
  <2>4. CommitInv'
    BY <2>1, <2>3
       DEF CommitInv, PrimaryValid, BackupValid, Before, Region, Shape
  <2>5. PrimaryValid(cache'[disk]) \/ BackupValid(cache'[disk])
    BY <2>1, <2>3
       DEF CommitInv, PrimaryValid, BackupValid, Before, Region, Shape
  <2>6. OneCopySurvives'
    BY <2>1, <2>3, <2>5 DEF OneCopySurvives, PrimaryValid, BackupValid, Region
  <2> QED
    BY <2>2, <2>4, <2>6
<1>6. ASSUME NEW r \in Region, CommitFails(r) PROVE CopyInv'
  BY <1>6
     DEF CommitFails, CommitOrder, Before, Region, IsEntries, Return, Shape,
         CommitInv, OneCopySurvives, PrimaryValid, BackupValid
<1>7. CASE CommitSync
  BY <1>7
     DEF CommitSync, Shape, CommitInv, OneCopySurvives, PrimaryValid, BackupValid
<1>8. CASE CommitSyncFails
  BY <1>8
     DEF CommitSyncFails, Return, Shape, CommitInv, OneCopySurvives,
         PrimaryValid, BackupValid
<1>9. ASSUME NEW d \in Disk, NEW r \in Region, Writeback(d, r) PROVE CopyInv'
  <2>1. UNCHANGED <<cache, lost, callVars>>
    BY <1>9 DEF Writeback
  <2>2. Shape'
    <3>1. \E v : media' = [media EXCEPT ![d][r] = v]
      BY <1>9 DEF Writeback
    <3> QED
      BY <2>1, <3>1, ZenonT(30) DEF Shape
  <2> QED
    BY <2>1, <2>2 DEF CommitInv, OneCopySurvives, PrimaryValid, BackupValid
<1>10. CASE PowerLoss
  BY <1>10
     DEF PowerLoss, Shape, CommitInv, OneCopySurvives, PrimaryValid, BackupValid
<1>11. CASE UNCHANGED vars
  BY <1>11
     DEF vars, Shape, CommitInv, OneCopySurvives, PrimaryValid, BackupValid
<1> QED
  BY <1>1, <1>2, <1>3, <1>4, <1>5, <1>6, <1>7, <1>8, <1>9, <1>10, <1>11 DEF Next

\* However set_active fails, one valid copy of every GPT is left, until power
\* is lost with the commit on its way to the medium (GptDisk::commit).
THEOREM CopySurvives == Spec => []OneCopySurvives
<1>1. CopyInv => OneCopySurvives
  BY DEF CopyInv
<1> QED
  BY InitCopy, NextCopy, <1>1, PTL DEF Spec

-----------------------------------------------------------------------------
(* What every table looks like.                                            *)

\* A pair has no A/B metadata or boots from one slot.
Sane(pair) == HasActive(pair) => \E s \in Slot : BootsFrom(pair, s)

\* The pairs of a disk that set_active switches; no call changes them.
Live(d) == Switchable(cache[d]["primary_header"])

\* A whole entry array of disk d.
Good(d, table) ==
    /\ table \in Table(d)
    /\ \A p \in Pairs[d] : Sane(table[p])
    /\ Switchable(table) = Live(d)

\* On the medium and in the page cache, only entry arrays are ever torn, and
\* what is not torn is good; a disk without A/B metadata is never written.
TableInv ==
    \A d \in Disk :
        /\ \A r \in Region :
             /\ media[d][r] = Torn \/ Good(d, media[d][r])
             /\ cache[d][r] = Torn \/ Good(d, cache[d][r])
             /\ ~IsEntries(r) => Good(d, media[d][r]) /\ Good(d, cache[d][r])
        /\ Live(d) = {} => media[d] = cache[d]

\* What commit() is to write is good and switches every pair; what it has
\* written is in the page cache.
GptInv ==
    /\ gpt = [r \in Region |-> gpt[r]] /\ target \in Slot
    /\ pc = "sync" => written = Region
    /\ pc \in {"write", "sync"} =>
         /\ Live(disk) # {}
         /\ \A r \in Region :
              Good(disk, gpt[r]) /\ \A p \in Live(disk) : BootsFrom(gpt[r][p], target)
         /\ \A r \in written : cache[disk][r] = gpt[r]

\* The switch of disk d is on the medium for good.
Settled(d) ==
    /\ media[d] = cache[d]
    /\ PrimaryValid(media[d]) /\ BackupValid(media[d])
    /\ \A e \in {"primary_entries", "backup_entries"} :
         \A p \in Switchable(media[d]["primary_entries"]) :
            BootsFrom(media[d][e][p], target)

\* As long as a call has not failed, every disk it has come to is settled,
\* but for the one in flight.
DoneInv ==
    /\ processed \subseteq Disk
    /\ saw_boot_pair => BootDisk \in processed
    /\ result = "ok" => saw_boot_pair
    /\ pc # "idle" \/ result = "ok" =>
         \A d \in processed : (pc \in {"write", "sync"} /\ d = disk) \/ Settled(d)

SwitchInv == CopyInv /\ TableInv /\ GptInv /\ DoneInv

-----------------------------------------------------------------------------

\* update_pair_table makes a pair boot from the slot, if it gets the GUIDs of
\* an active and an inactive slot.
LEMMA UpdatedPair ==
  ASSUME NEW pair \in [Slot -> Entry], NEW slot \in Slot
  PROVE  LET q == UpdatePairTable(pair, slot, "active", "inactive")
         IN  /\ q \in [Slot -> Entry]
             /\ BootsFrom(q, slot) /\ HasActive(q) /\ Sane(q)
<1> DEFINE q == UpdatePairTable(pair, slot, "active", "inactive")
<1>1. /\ q \in [Slot -> Entry]
      /\ \A t \in Slot : q[t] = [active |-> t = slot,
                                 guid |-> IF t = slot THEN "active" ELSE "inactive"]
  BY DEF UpdatePairTable, Entry
<1>2. BootsFrom(q, slot)
  BY <1>1 DEF BootsFrom
<1>3. q[slot].active
  <2>1. q[slot] = [active |-> TRUE, guid |-> "active"]
    BY DEF UpdatePairTable
  <2> QED
    BY <2>1
<1>4. HasActive(q)
  BY <1>3 DEF HasActive, Slot
<1> QED
  BY <1>1, <1>2, <1>4 DEF Sane

\* The GUIDs set_active_pair takes from a sane pair with A/B metadata are
\* those of an active and an inactive slot.
LEMMA GuidsOfPair ==
  ASSUME NEW pair \in [Slot -> Entry], Sane(pair), HasActive(pair)
  PROVE  LET a == IF pair["A"].active THEN "A" ELSE "B"
             i == IF a = "A" THEN "B" ELSE "A"
         IN  pair[a].guid = "active" /\ pair[i].guid = "inactive"
<1>1. PICK s \in Slot : BootsFrom(pair, s)
  BY DEF Sane
<1>2. CASE s = "A"
  <2>1. /\ pair["A"] = [active |-> TRUE, guid |-> "active"]
        /\ pair["B"] = [active |-> FALSE, guid |-> "inactive"]
    BY <1>1, <1>2 DEF BootsFrom, Slot
  <2> QED
    BY <2>1
<1>3. CASE s = "B"
  <2>1. /\ pair["B"] = [active |-> TRUE, guid |-> "active"]
        /\ pair["A"] = [active |-> FALSE, guid |-> "inactive"]
    BY <1>1, <1>3 DEF BootsFrom, Slot
  <2> QED
    BY <2>1
<1> QED
  BY <1>1, <1>2, <1>3 DEF Slot

\* set_active_pair, over all pairs of a table: every pair with A/B metadata
\* boots from the slot, the others are as they were.
LEMMA UpdatedTable ==
  ASSUME NEW d \in Disk, NEW slot \in Slot,
         NEW primary \in Table(d), NEW table \in Table(d),
         \A p \in Pairs[d] : Sane(primary[p]) /\ Sane(table[p]),
         Switchable(table) = Switchable(primary)
  PROVE  LET new == SetActivePairs(table, primary, slot)
         IN  /\ new \in Table(d)
             /\ \A p \in Pairs[d] : Sane(new[p])
             /\ Switchable(new) = Switchable(primary)
             /\ \A p \in Switchable(primary) : BootsFrom(new[p], slot)
<1> DEFINE new == SetActivePairs(table, primary, slot)
<1>1. /\ DOMAIN table = Pairs[d] /\ DOMAIN primary = Pairs[d]
      /\ \A p \in Pairs[d] : table[p] \in [Slot -> Entry] /\ primary[p] \in [Slot -> Entry]
  BY DEF Table
<1>2. new = [p \in Pairs[d] |-> new[p]]
  BY <1>1 DEF SetActivePairs
<1>3. ASSUME NEW p \in Pairs[d], p \notin Switchable(primary)
      PROVE  new[p] = table[p]
  BY <1>1, <1>3 DEF SetActivePairs
<1>4. ASSUME NEW p \in Pairs[d], p \in Switchable(primary)
      PROVE  /\ new[p] \in [Slot -> Entry]
             /\ BootsFrom(new[p], slot) /\ HasActive(new[p]) /\ Sane(new[p])
  <2>1. HasActive(primary[p])
    BY <1>4 DEF Switchable
  <2>2. new[p] = UpdatePairTable(table[p], slot, "active", "inactive")
    BY <1>1, <1>4, <2>1, GuidsOfPair DEF SetActivePairs
  <2> QED
    BY <1>1, <2>2, UpdatedPair
<1>5. \A p \in Pairs[d] : new[p] \in [Slot -> Entry]
  BY <1>1, <1>3, <1>4
<1>6. new \in Table(d)
  BY <1>2, <1>5 DEF Table
<1>7. \A p \in Pairs[d] : p \in Switchable(new) <=> p \in Switchable(table)
  BY <1>1, <1>2, <1>3, <1>4 DEF Switchable
<1>8. Switchable(new) = Switchable(primary)
  BY <1>1, <1>2, <1>7 DEF Switchable
<1>9. \A p \in Switchable(primary) : p \in Pairs[d]
  BY <1>1 DEF Switchable
<1> QED
  BY <1>3, <1>4, <1>6, <1>8, <1>9

\* A fresh table is sane.
LEMMA FreshIsSane == \A pair \in FreshPair : pair \in [Slot -> Entry] /\ Sane(pair)
<1> SUFFICES ASSUME NEW a \in Slot \union {"none"},
                    NEW pair,
                    pair = [s \in Slot |-> [active |-> s = a,
                              guid |-> IF s = a THEN "active" ELSE "inactive"]]
             PROVE  pair \in [Slot -> Entry] /\ Sane(pair)
  BY DEF FreshPair
<1>1. pair \in [Slot -> Entry]
  BY DEF Entry
<1>2. CASE a \in Slot
  <2>1. \A t \in Slot : pair[t] = [active |-> t = a,
                                  guid |-> IF t = a THEN "active" ELSE "inactive"]
    OBVIOUS
  <2>2. BootsFrom(pair, a)
    BY <2>1 DEF BootsFrom
  <2>3. Sane(pair)
    BY <1>2, <2>2 DEF Sane
  <2> QED
    BY <1>1, <2>3
<1>3. CASE a = "none"
  <2>1. \A s \in Slot : pair[s] = [active |-> FALSE, guid |-> "inactive"]
    BY <1>3 DEF Slot
  <2>2. ~HasActive(pair)
    BY <2>1 DEF HasActive, Slot
  <2> QED
    BY <1>1, <2>2 DEF Sane
<1> QED
  BY <1>1, <1>2, <1>3

\* Every table is good at first.
LEMMA InitSwitch == Init => SwitchInv
<1> SUFFICES ASSUME Init PROVE SwitchInv
  OBVIOUS
<1>1. CopyInv
  BY InitCopy
<1>2. PICK t \in [Disk -> [UNION {Pairs[d] : d \in Disk} -> FreshPair]] :
        media = [d \in Disk |-> [r \in Region |-> [p \in Pairs[d] |-> t[d][p]]]]
  BY DEF Init
<1>3. cache = media
  BY DEF Init
<1>4. ASSUME NEW d \in Disk, NEW r \in Region PROVE Good(d, media[d][r])
  <2>1. media[d][r] = [p \in Pairs[d] |-> t[d][p]]
        /\ media[d]["primary_header"] = media[d][r]
    BY <1>2 DEF Region
  <2>2. \A p \in Pairs[d] : t[d][p] \in FreshPair
    OBVIOUS
  <2> QED
    BY <1>3, <2>1, <2>2, FreshIsSane DEF Good, Table, Live
<1>5. TableInv
  BY <1>3, <1>4 DEF TableInv
<1>6. GptInv
  BY <1>2, DiskAssumption DEF Init, GptInv, Slot
<1>7. DoneInv
  BY DEF Init, DoneInv
<1> QED
  BY <1>1, <1>5, <1>6, <1>7 DEF SwitchInv

\* A write to the page cache that is good, or tears an entry array, keeps the
\* tables as TableInv has them, and the pairs to be switched.
LEMMA CacheWrite ==
  ASSUME Shape, TableInv, NEW d \in Disk, NEW r \in Region, NEW v,
         cache' = [cache EXCEPT ![d][r] = v], UNCHANGED media, Live(d) # {},
         Good(d, v) \/ (IsEntries(r) /\ v = Torn)
  PROVE  TableInv' /\ \A e \in Disk : Live(e)' = Live(e)
<1>1. \A e \in Disk, q \in Region :
        cache'[e][q] = IF e = d /\ q = r THEN v ELSE cache[e][q]
  BY DEF Shape
<1>2. ASSUME NEW e \in Disk PROVE Live(e)' = Live(e)
  BY <1>1 DEF Live, Region, Good, IsEntries
<1>3. \A e \in Disk : \A x : Good(e, x)' <=> Good(e, x)
  BY <1>2 DEF Good
<1>4. ASSUME NEW e \in Disk, Live(e) = {} PROVE cache'[e] = cache[e]
  BY <1>4 DEF Shape
<1> QED
  BY <1>1, <1>2, <1>3, <1>4 DEF TableInv

\* So does a write-back of one region.
LEMMA MediaWrite ==
  ASSUME Shape, TableInv, NEW d \in Disk, NEW r \in Region, Writeback(d, r)
  PROVE  TableInv' /\ Live(d) # {}
<1>1. PICK v : /\ media' = [media EXCEPT ![d][r] = v]
               /\ v = cache[d][r] \/ (IsEntries(r) /\ v = Torn)
  BY DEF Writeback
<1>2. \A e \in Disk, q \in Region :
        media'[e][q] = IF e = d /\ q = r THEN v ELSE media[e][q]
  BY <1>1 DEF Shape
<1>3. UNCHANGED cache /\ Live(d) # {}
  BY DEF Writeback, TableInv
<1>4. \A e \in Disk : \A x : Good(e, x)' <=> Good(e, x)
  BY <1>3 DEF Good, Live
<1>5. ASSUME NEW e \in Disk, Live(e) = {} PROVE media'[e] = media[e]
  BY <1>1, <1>3, <1>5 DEF Shape
<1> QED
  BY <1>1, <1>2, <1>3, <1>4, <1>5 DEF TableInv, Live

\* A step that writes neither cache nor medium keeps the tables.
LEMMA TableFrame ==
  ASSUME TableInv, UNCHANGED <<media, cache>>
  PROVE  TableInv'
  BY DEF TableInv, Good, Live

\* Every step of set_active, every failure and every write-back keeps
\* SwitchInv.
LEMMA NextSwitch == SwitchInv /\ [Next]_vars => SwitchInv'
<1> SUFFICES ASSUME SwitchInv, [Next]_vars PROVE SwitchInv'
  OBVIOUS
<1>c. CopyInv' /\ Shape
  BY NextCopy DEF SwitchInv, CopyInv
<1> USE DEF SwitchInv, devVars, callVars
<1>1. ASSUME NEW slot \in Slot, SetActive(slot) PROVE SwitchInv'
  <2>1. TableInv'
    BY <1>1, TableFrame DEF SetActive
  <2>2. GptInv' /\ DoneInv'
    BY <1>1 DEF SetActive, Return, GptInv, DoneInv
  <2> QED
    BY <1>c, <2>1, <2>2
<1>2. ASSUME NEW d \in Disk, LoadFails(d) PROVE SwitchInv'
  <2>1. TableInv'
    BY <1>2, TableFrame DEF LoadFails
  <2>2. GptInv'
    BY <1>2 DEF LoadFails, NextDisk, Return, GptInv
  <2>3. DoneInv'
    BY <1>2 DEF LoadFails, NextDisk, Return, DoneInv, Settled, PrimaryValid,
                BackupValid
  <2> QED
    BY <1>c, <2>1, <2>2, <2>3
<1>3. ASSUME NEW d \in Disk, LoadAndUpdate(d) PROVE SwitchInv'
  <2> DEFINE primary == cache[d]["primary_entries"]
             backup  == cache[d]["backup_entries"]
  <2>1. TableInv' /\ UNCHANGED <<media, cache, target>> /\ pc = "next"
    BY <1>3, TableFrame DEF LoadAndUpdate, NextDisk
  <2>2. Good(d, primary) /\ Good(d, backup)
    BY <1>3 DEF LoadAndUpdate, PrimaryValid, BackupValid, TableInv, IsEntries,
                Region
  <2>3. /\ processed' = processed \union {d}
        /\ saw_boot_pair' = (saw_boot_pair \/ "boot" \in Pairs[d])
        /\ saw_boot_pair' => BootDisk \in processed'
    BY <1>3, DiskAssumption DEF LoadAndUpdate, DoneInv
  <2>4. \A e \in processed : Settled(e) /\ Settled(e)'
    BY <2>1 DEF DoneInv, Settled, PrimaryValid, BackupValid
  <2>5. CASE pc' = "idle" /\ result' = "err" /\ UNCHANGED gpt
    BY <1>c, <2>1, <2>3, <2>5 DEF GptInv, DoneInv
  <2>6. CASE Switchable(primary) = {} /\ UNCHANGED <<pc, result, gpt>>
    <3>1. Settled(d)'
      BY <1>3, <2>1, <2>2, <2>6
         DEF LoadAndUpdate, Good, TableInv, Settled, PrimaryValid, BackupValid
    <3>2. GptInv' /\ DoneInv'
      BY <2>1, <2>3, <2>4, <2>6, <3>1 DEF GptInv, DoneInv
    <3> QED
      BY <1>c, <2>1, <3>2
  <2>7. CASE /\ Switchable(primary) # {} /\ pc' = "write" /\ disk' = d
             /\ written' = {} /\ gpt' = UpdatedGpt(primary, backup, target)
             /\ UNCHANGED result
    <3> DEFINE p == SetActivePairs(primary, primary, target)
               b == SetActivePairs(backup, primary, target)
    <3>1. target \in Slot
      BY DEF GptInv
    <3>2. /\ Good(d, p) /\ Good(d, b)
          /\ \A q \in Live(d) : BootsFrom(p[q], target) /\ BootsFrom(b[q], target)
      BY <2>2, <3>1, UpdatedTable DEF Good
    <3>3. /\ gpt' = [r \in Region |-> gpt'[r]]
          /\ \A r \in Region : gpt'[r] \in {p, b}
      BY <2>7 DEF UpdatedGpt, Region
    <3>4. GptInv'
      <4>1. Live(d)' = Live(d) /\ Live(d) # {}
        BY <2>1, <2>2, <2>7 DEF Live, Good
      <4>2. \A r \in Region : Good(d, gpt[r])' /\
              \A q \in Live(d)' : BootsFrom(gpt[r][q], target)'
        BY <2>1, <3>2, <3>3, <4>1 DEF Good
      <4> QED
        BY <2>1, <2>7, <3>1, <3>3, <4>1, <4>2 DEF GptInv
    <3>5. DoneInv'
      BY <2>1, <2>3, <2>4, <2>7 DEF DoneInv
    <3> QED
      BY <1>c, <2>1, <3>4, <3>5
  <2> QED
    BY <1>3, <2>5, <2>6, <2>7 DEF LoadAndUpdate, Return
<1>4. CASE Finish
  <2>1. TableInv'
    BY <1>4, TableFrame DEF Finish
  <2>2. GptInv' /\ DoneInv'
    BY <1>4 DEF Finish, Return, GptInv, DoneInv, Settled, PrimaryValid, BackupValid
  <2> QED
    BY <1>c, <2>1, <2>2
<1>5. ASSUME NEW r \in Region, CommitWrite(r) PROVE SwitchInv'
  <2>1. /\ pc = "write" /\ pc' \in {"write", "sync"}
        /\ written' = written \union {r}
        /\ cache' = [cache EXCEPT ![disk][r] = gpt[r]]
        /\ UNCHANGED <<media, disk, gpt, target, processed, saw_boot_pair, result>>
        /\ pc' = "sync" => written' = Region
    BY <1>5 DEF CommitWrite
  <2>2. TableInv' /\ Live(disk)' = Live(disk)
    BY <1>c, <2>1, CacheWrite DEF GptInv, Shape
  <2>3. \A e \in Disk, q \in Region :
          cache'[e][q] = IF e = disk /\ q = r THEN gpt[r] ELSE cache[e][q]
    BY <1>c, <2>1 DEF Shape
  <2>4. GptInv'
    <3>1. /\ Live(disk)' # {}
          /\ \A q \in Region :
               Good(disk, gpt[q])' /\ \A p \in Live(disk)' : BootsFrom(gpt[q][p], target)'
      BY <2>1, <2>2 DEF GptInv, Good
    <3>2. \A q \in written' : cache'[disk][q] = gpt[q]
      <4>1. written \subseteq Region
        BY <2>1 DEF CopyInv, CommitInv, Region
      <4>2. disk \in Disk /\ \A q \in written : cache[disk][q] = gpt[q]
        BY <1>c, <2>1 DEF GptInv, Shape
      <4> QED
        BY <2>1, <2>3, <4>1, <4>2
    <3> QED
      BY <2>1, <3>1, <3>2 DEF GptInv
  <2>5. \A e \in Disk \ {disk} : cache'[e] = cache[e]
    BY <1>c, <2>1 DEF Shape
  <2>6. DoneInv'
    BY <1>c, <2>1, <2>5 DEF DoneInv, Settled, PrimaryValid, BackupValid, Shape
  <2> QED
    BY <1>c, <2>2, <2>4, <2>6
<1>6. ASSUME NEW r \in Region, CommitFails(r) PROVE SwitchInv'
  <2>1. TableInv'
    BY <1>6, <1>c, TableFrame, CacheWrite DEF CommitFails, GptInv, Shape
  <2>2. GptInv' /\ DoneInv'
    BY <1>6 DEF CommitFails, Return, GptInv, DoneInv
  <2> QED
    BY <1>c, <2>1, <2>2
<1>7. CASE CommitSync
  <2>1. /\ media' = [media EXCEPT ![disk] = cache[disk]]
        /\ pc = "sync" /\ pc' = "next"
        /\ UNCHANGED <<cache, disk, gpt, target, processed, saw_boot_pair, result>>
    BY <1>7 DEF CommitSync
  <2>2. \A e \in Disk : media'[e] = IF e = disk THEN cache[e] ELSE media[e]
    BY <1>c, <2>1 DEF Shape
  <2>3. TableInv'
    BY <2>1, <2>2 DEF TableInv, Good, Live
  <2>4. GptInv'
    BY <2>1 DEF GptInv
  <2>5. \A r \in Region : cache[disk][r] = gpt[r]
    BY <2>1 DEF GptInv
  <2>6. Settled(disk)'
    <3>1. PrimaryValid(gpt) /\ BackupValid(gpt)
      BY <2>1 DEF CopyInv, CommitInv
    <3>2. \A r \in Region : Good(disk, gpt[r])
            /\ \A p \in Live(disk) : BootsFrom(gpt[r][p], target)
      BY <2>1 DEF GptInv
    <3>3. media'[disk] = cache[disk]
      BY <1>c, <2>2 DEF Shape
    <3> QED
      BY <2>1, <2>5, <3>1, <3>2, <3>3
         DEF Settled, PrimaryValid, BackupValid, Region, Good
  <2>7. DoneInv'
    BY <2>1, <2>2, <2>6 DEF DoneInv, Settled, PrimaryValid, BackupValid
  <2> QED
    BY <1>c, <2>3, <2>4, <2>7
<1>8. CASE CommitSyncFails
  <2>1. TableInv'
    BY <1>8, TableFrame DEF CommitSyncFails
  <2>2. GptInv' /\ DoneInv'
    BY <1>8 DEF CommitSyncFails, Return, GptInv, DoneInv
  <2> QED
    BY <1>c, <2>1, <2>2
<1>9. ASSUME NEW d \in Disk, NEW r \in Region, Writeback(d, r) PROVE SwitchInv'
  <2>1. TableInv'
    BY <1>9, <1>c, MediaWrite
  <2>2. UNCHANGED <<cache, callVars>> /\ media[d] # cache[d]
        /\ \A e \in Disk \ {d} : media'[e] = media[e]
    BY <1>9, <1>c DEF Writeback, Shape
  <2>3. GptInv'
    BY <2>2 DEF GptInv, Good, Live
  <2>4. DoneInv'
    BY <2>2 DEF DoneInv, Settled, PrimaryValid, BackupValid
  <2> QED
    BY <1>c, <2>1, <2>3, <2>4
<1>10. CASE PowerLoss
  <2>1. /\ cache' = media /\ pc' = "idle"
        /\ UNCHANGED <<media, target, gpt, processed, saw_boot_pair>>
        /\ result' = IF pc = "idle" THEN result ELSE "none"
    BY <1>10 DEF PowerLoss
  <2>2. \A d \in Disk : Live(d)' = Live(d)
    BY <2>1 DEF Live, TableInv, Good, Region, IsEntries
  <2>3. \A d \in Disk : \A x : Good(d, x)' <=> Good(d, x)
    BY <2>2 DEF Good
  <2>4. TableInv'
    BY <2>1, <2>2, <2>3 DEF TableInv
  <2>5. GptInv' /\ DoneInv'
    BY <2>1 DEF GptInv, DoneInv, Settled, PrimaryValid, BackupValid
  <2> QED
    BY <1>c, <2>4, <2>5
<1>11. CASE UNCHANGED vars
  <2>1. TableInv'
    BY <1>11, TableFrame DEF vars
  <2>2. GptInv' /\ DoneInv'
    BY <1>11 DEF vars, GptInv, DoneInv, Good, Live, Settled, PrimaryValid, BackupValid
  <2> QED
    BY <1>c, <2>1, <2>2
<1> QED
  BY <1>1, <1>2, <1>3, <1>4, <1>5, <1>6, <1>7, <1>8, <1>9, <1>10, <1>11 DEF Next

\* OKAY means that every disk whose GPT loaded has both copies switched on the
\* medium, where a loss of power does not reach them (set_active_slot, commit).
THEOREM OkayDurable == Spec => []OkayIsDurable
<1>1. SwitchInv => OkayIsDurable
  BY DEF SwitchInv, DoneInv, Settled, OkayIsDurable
<1> QED
  BY InitSwitch, NextSwitch, <1>1, PTL DEF Spec

\* No copy with a valid CRC, on the medium or in the page cache, has a pair
\* with two active slots or the wrong GUIDs, at any time (set_active_pair).
THEOREM NeverHalfSwitched == Spec => []NoHalfSwitchedPair
<1>1. SwitchInv => NoHalfSwitchedPair
  <2> SUFFICES ASSUME SwitchInv, NEW d \in Disk, NEW dev \in {media[d], cache[d]},
                      NEW e \in {<<"primary_entries", "primary_header">>,
                                 <<"backup_entries", "backup_header">>},
                      dev[e[1]] = dev[e[2]], NEW p \in DOMAIN dev[e[1]],
                      HasActive(dev[e[1]][p])
               PROVE  \E s \in Slot : BootsFrom(dev[e[1]][p], s)
    BY DEF NoHalfSwitchedPair
  <2>1. Good(d, dev[e[1]])
    BY DEF SwitchInv, TableInv, Region, IsEntries
  <2> QED
    BY <2>1 DEF Good, Table, Sane
<1> QED
  BY InitSwitch, NextSwitch, <1>1, PTL DEF Spec

=============================================================================
