----------------------------- MODULE MCDiscovery -----------------------------
(* Two disks with boot partitions in every place the code looks for them:   *)
(* a hybrid GPT and MBR disk, a removable MBR disk, and partitions nested   *)
(* in the userdata of both.                                                 *)
EXTENDS Discovery

K(k, v)  == [key |-> k, value |-> v]
KL(k, x) == K(k, <<Lit(x)>>)
SetLine(k, v, q) == [key |-> k, value |-> v, set |-> TRUE, quoted |-> q]

Bare(type, files) ==
    [type |-> type, cfg |-> <<>>, env |-> <<>>, blsdir |-> DEFAULT_BLS_DIR, bls |-> {},
     extlinux |-> <<>>, dirs |-> {}, files |-> {<<Lit(f)>> : f \in files}]

(* Fedora: variables in grub.cfg and grubenv, entries with fdtdir, with a     *)
(* device tree that is missing, with an overlay, for another machine, with an
   unknown variable *)
Fedora ==
    [Bare("ext4", {"vmlinuz", "initrd", "tuned.img"}) EXCEPT
        !.cfg = << <<[SetLine("kernelopts", <<Lit("ro"), Lit("quiet")>>, FALSE) EXCEPT !.set = FALSE],
                     SetLine("kernelopts", <<Lit("root=a"), Lit("ro")>>, TRUE),
                     SetLine("saved_entry", <<Stem(1)>>, FALSE),
                     SetLine("color", <<Lit("red")>>, FALSE)>> >>,
        !.env = << <<K("saved_entry", <<Name(2)>>), K("next_entry", <<>>),
                     K("tuned_initrd", <<Lit("tuned.img")>>)>> >>,
        !.dirs = {<<Lit("dtbs")>>},
        !.files = @ \union {<<Lit("dtbs"), Dtb(<<"qcom", "/", "msm8916", "-", "bq", "-", "paella">>)>>},
        !.bls = {[name |-> 1, lines |-> <<KL("linux", "old"), KL("linux", "vmlinuz"),
                                          KL("fdtdir", "none"), KL("fdtdir", "dtbs"),
                                          K("options", <<Var("kernelopts"), Var("tuned_params")>>)>>],
                 [name |-> 2, lines |-> <<KL("linux", "vmlinuz"), KL("architecture", "aa64"),
                                          KL("devicetree-overlay", "lost.dtbo"),
                                          K("initrd", <<Lit("initrd"), Var("tuned_initrd")>>),
                                          K("options", <<Var("other")>>)>>],
                 [name |-> 3, lines |-> <<KL("linux", "vmlinuz"), KL("devicetree", "lost.dtb")>>],
                 [name |-> 4, lines |-> <<KL("linux", "vmlinuz"), KL("architecture", "x64")>>],
                 [name |-> 5, lines |-> <<KL("linux", "vmlinuz"), KL("fdtdir", "..")>>]}]

Postmarket(type) ==
    [Bare(type, {"linux", "ramdisk", "board.dtb"}) EXCEPT
        !.extlinux = << <<KL("kernel", "stray"), K("default", <<Name(12)>>),
                          K("label", <<Name(11)>>), KL("linux", "linux"), KL("fdtdir", "dtbs"),
                          KL("append", "-"),
                          K("label", <<Name(12)>>), KL("kernel", "linux"), KL("initrd", "ramdisk"),
                          KL("fdt", "board.dtb"), KL("append", "quiet"),
                          K("label", <<Name(13)>>), KL("kernel", "linux"), K("fdt", <<>>),
                          K("label", <<>>), KL("kernel", "linux")>>, <<>> >>]

NoEntry == [type |-> "unused", start |-> 0, count |-> 0, active |-> FALSE, fs |-> Bare("swap", {})]
LinuxAt(s, fs) == [type |-> "linux", start |-> s, count |-> 2, active |-> TRUE, fs |-> fs]
BootAt(s) == [NoEntry EXCEPT !.type = "xbootldr", !.start = s, !.count = 2]
Part(r, s) == [role |-> r, first |-> s, last |-> s + 1]
Userdata(mbr) == [userdata |-> TRUE, dev |-> TRUE, blocks |-> 6, mbr |-> mbr]

Gpt == [protective |-> TRUE, valid |-> TRUE, current |-> 1, backup |-> 19, table |-> 2, tableBlocks |-> 1,
        first |-> 3, last |-> 18,
        entries |-> <<Part("esp", 4), Part("xbootldr", 6), Part("other", 8), Part("esp", 18), Part("esp", 12)>>]
NoGpt == [Gpt EXCEPT !.protective = FALSE]

Hybrid(nested) ==
    [local |-> TRUE, dev |-> TRUE, removable |-> FALSE, blocks |-> 20, gpt |-> Gpt,
     mbr |-> <<NoEntry, BootAt(6), BootAt(0), BootAt(19)>>,
     parts |-> <<Postmarket("vfat"), Fedora, Bare("ext4", {}), Bare("vfat", {})>>,
     outer |-> (6 :> nested)]

Card(outers) ==
    [local |-> TRUE, dev |-> TRUE, removable |-> TRUE, blocks |-> 0, gpt |-> NoGpt,
     mbr |-> <<BootAt(5), NoEntry>>, parts |-> <<Postmarket("ext2"), Bare("vfat", {})>>, outer |-> outers]

Dt(id, packaged, live) == [identity |-> id, packaged |-> packaged, live |-> live]
Compat(v, n) == [vendor |-> v, name |-> n, safe |-> v # ""]
Paella == <<Compat("bq", "paella"), Compat("", "odd"), Compat("qcom", "msm8916")>>

Nested2 == Userdata(<<LinuxAt(1, Postmarket("ext4")), [LinuxAt(3, Bare("swap", {})) EXCEPT !.count = 3]>>)
Nested1 == Userdata(<<LinuxAt(1, Fedora)>>)
Crossed == Userdata(<<LinuxAt(1, Fedora), LinuxAt(2, Fedora)>>)
Nothing == [u \in {} |-> Nested1]

MCMachines ==
    { [disks |-> <<Hybrid(Nested2), Card(1 :> Nested1 @@ 2 :> Crossed)>>, dt |-> Dt("valid", Paella, <<>>)],
      [disks |-> <<Hybrid(Nested2), Card(Nothing), [Card(Nothing) EXCEPT !.dev = FALSE]>>, dt |-> Dt("absent", <<>>, Paella)],
      [disks |-> <<[Hybrid(Nested1) EXCEPT !.gpt.entries = <<Part("xbootldr", 4)>>, !.mbr = <<BootAt(6), BootAt(8)>>],
                   Card(1 :> [Nested1 EXCEPT !.userdata = FALSE])>>, dt |-> Dt("invalid", Paella, Paella)] }

Terminating == stage = "complete" /\ UNCHANGED vars
MCNext == Next \/ Terminating
MCSpec == Init /\ [][MCNext]_vars
=============================================================================
