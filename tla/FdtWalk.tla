------------------------------- MODULE FdtWalk -------------------------------
(***************************************************************************)
(* The passes of src/kexec.rs over the structure block of a device tree.   *)
(* A block is a sequence of tokens, and a property names an offset in the  *)
(* strings block of its own tree. The memory nodes of the live tree are    *)
(* copied out, grafted into the supplied tree, its reserved memory is      *)
(* read, and /chosen is rewritten; each pass is one walk with a stack of   *)
(* node names. FdtGraft says what the passes do to a tree.                 *)
(*                                                                         *)
(* The supplied block is written token by token: any block of up to        *)
(* MaxTokens tokens, and short ones that end too early.                    *)
(***************************************************************************)
EXTENDS Integers, Sequences, FiniteSets, SequencesExt

CONSTANTS
    Live,           \* structure blocks the live tree may have
    LiveStrings,    \* its strings block, a sequence of names
    Strings,        \* strings block of the supplied tree
    Names,          \* names of nodes other than the root
    MaxTokens       \* bound: tokens of the supplied block

VARIABLES
    dtb,            \* structure block of the supplied tree
    block,          \* the block that is walked
    live,           \* that of the live tree
    pc,             \* "write", a pass, "done" or "error"
    cursor,         \* tokens the pass has read
    stack,          \* names of the open nodes
    saw,            \* saw_root, saw_chosen, inserted_memory
    strings,        \* strings block of the result
    memory,         \* the memory fragments
    out,            \* output of the pass
    ranges          \* paths of the reserved memory nodes that are in force

vars == <<dtb, block, live, pc, cursor, stack, saw, strings, memory, out, ranges>>

(* FDT_BEGIN_NODE, FDT_END_NODE, FDT_PROP, FDT_NOP, FDT_END *)
Begin(n) == [token |-> "begin", name |-> n]
EndNode  == [token |-> "end"]
Prop(o, v) == [token |-> "prop", nameoff |-> o, value |-> v]
Nop      == [token |-> "nop"]
End      == [token |-> "fin"]

Passes == <<"extract", "graft", "reserved", "patch">>
ChosenProps == {"bootargs", "linux,initrd-start", "linux,initrd-end", "linux,booted-from-kexec"}

(* ensure_string and string_at *)
EnsureString(s, name) == IF name \in ToSet(s) THEN s ELSE Append(s, name)
OffsetOf(s, name) == CHOOSE o \in DOMAIN s : s[o] = name
StringAt(s, o) == s[o]

(* is_root, is_chosen, is_reserved_memory_child, is_memory_node_name *)
IsRoot(st)          == st = <<"">>
IsChosen(st)        == st = <<"", "chosen">>
IsReservedChild(st) == Len(st) = 3 /\ st[2] = "reserved-memory"
InMemory(st)        == Len(st) >= 2 /\ st[2] \in {"memory", "memory@8"}

Init ==
    /\ live \in Live /\ dtb = <<>> /\ block = <<>> /\ pc = "write"
    /\ cursor = 0 /\ stack = <<>> /\ saw = {}
    /\ strings = Strings /\ memory = <<>> /\ out = <<>> /\ ranges = {}

(* The author of the supplied tree: properties come before child nodes. *)
WriteToken ==
    /\ pc = "write"
    /\ \E t \in {EndNode, Nop} \cup {Begin(n) : n \in Names \cup {""}}
                \cup {Prop(o, "own") : o \in DOMAIN Strings} :
         /\ (t.token = "begin" /\ t.name = "") <=> dtb = <<>>
         /\ dtb # <<>> => stack # <<>>
         /\ t.token = "prop" => Last(dtb).token \in {"begin", "prop"}
         /\ dtb' = Append(dtb, t)
         /\ stack' = CASE t.token = "begin" -> Append(stack, t.name)
                       [] t.token = "end"   -> Front(stack)
                       [] OTHER             -> stack
         /\ Len(dtb') + Len(stack') <= MaxTokens
    /\ UNCHANGED <<live, block, pc, cursor, saw, strings, memory, out, ranges>>

(* The block may end too early. *)
WriteEnd ==
    /\ pc = "write" /\ (stack = <<>> \/ Len(dtb) <= 2)
    /\ dtb' = Append(dtb, End) /\ block' = live
    /\ pc' = "extract" /\ stack' = <<>>
    /\ UNCHANGED <<live, cursor, saw, strings, memory, out, ranges>>

(***************************************************************************)
(* A pass                                                                  *)
(***************************************************************************)
Token == block[cursor + 1]

(* The stack with the node that begins, or still with the one that ends. *)
Path == IF Token.token = "begin" THEN Append(stack, Token.name) ELSE stack

Walk(pass) ==
    /\ pc = pass /\ Token.token # "fin"
    /\ cursor' = cursor + 1
    /\ stack' = CASE Token.token = "begin" -> Append(stack, Token.name)
                  [] Token.token = "end"   -> Front(stack)
                  [] OTHER                 -> stack
    /\ UNCHANGED <<dtb, live, block, pc>>

\* Fault: a property keeps its offset in the live tree's strings block.
CopyToken_same_offset ==
    /\ memory' = Append(memory, Token)
    /\ strings' = IF Token.token = "prop"
                  THEN EnsureString(strings, StringAt(LiveStrings, Token.nameoff)) ELSE strings

(* copy_node_subtree: a property's name gets an offset in the strings      *)
(* block of the result                                                     *)
CopyToken ==
    IF Token.token = "prop"
    THEN LET name == StringAt(LiveStrings, Token.nameoff)
         IN  /\ strings' = EnsureString(strings, name)
             /\ memory' = Append(memory, [Token EXCEPT !.nameoff = OffsetOf(strings', name)])
    ELSE memory' = Append(memory, Token) /\ UNCHANGED strings

(* extract_memory_fragments *)
Extract ==
    /\ Walk("extract")
    /\ IF InMemory(Path) THEN CopyToken ELSE UNCHANGED <<strings, memory>>
    /\ UNCHANGED <<saw, out, ranges>>

(* graft_memory_structure, skip_node_subtree: the fragments go before the  *)
(* first other child of the root, or before its end                        *)
Graft ==
    /\ Walk("graft")
    /\ LET first == /\ "memory" \notin saw
                    /\ \/ Token.token = "begin" /\ Len(Path) = 2
                       \/ Token.token = "end" /\ Len(Path) = 1
       IN  IF InMemory(Path) THEN UNCHANGED <<out, saw>>
           ELSE /\ out' = out \o (IF first THEN memory ELSE <<>>) \o <<Token>>
                /\ saw' = IF first THEN saw \cup {"memory"} ELSE saw
    /\ UNCHANGED <<strings, memory, ranges>>

(* reserved_memory_node_ranges: a child counts from its begin, unless it   *)
(* has a status that is not okay                                           *)
Reserved ==
    /\ Walk("reserved")
    /\ ranges' = IF ~IsReservedChild(Path) THEN ranges
                 ELSE CASE Token.token = "begin" -> ranges \cup {Path}
                        [] Token.token = "prop" /\ StringAt(strings, Token.nameoff) = "status" ->
                             ranges \ {Path}
                        [] OTHER -> ranges
    /\ UNCHANGED <<saw, strings, memory, out>>

(* append_chosen_props, with the cmdline and the initrd of the image *)
NewChosen ==
    [i \in 1..4 |-> Prop(OffsetOf(strings, <<"bootargs", "linux,initrd-start",
                          "linux,initrd-end", "linux,booted-from-kexec">>[i]), "new")]

(* patch_structure_block *)
Patch ==
    /\ Walk("patch")
    /\ LET replaced == /\ Token.token = "prop" /\ IsChosen(Path)
                       /\ StringAt(strings, Token.nameoff) \in ChosenProps
           opened == Token.token = "begin" /\ IsChosen(Path)
           missing == Token.token = "end" /\ IsRoot(Path) /\ "chosen" \notin saw
       IN  /\ out' = out \o (IF missing THEN <<Begin("chosen")>> \o NewChosen \o <<EndNode>> ELSE <<>>)
                         \o (IF replaced THEN <<>> ELSE <<Token>>)
                         \o (IF opened THEN NewChosen ELSE <<>>)
           /\ saw' = IF opened \/ missing THEN saw \cup {"chosen"} ELSE saw
    /\ UNCHANGED <<strings, memory, ranges>>

(* FDT_END: a walk must have seen a root and closed every node; the output *)
(* of one pass is the input of the next. graft_memory fails when the live  *)
(* tree has no memory node.                                                *)
EndPass ==
    /\ pc \in ToSet(Passes) /\ Token.token = "fin"
    /\ IF stack # <<>> \/ cursor = 0 \/ (pc = "extract" /\ memory = <<>>)
       THEN pc' = "error" /\ UNCHANGED <<strings, block>>
       ELSE /\ pc' = IF pc = "patch" THEN "done"
                     ELSE Passes[1 + CHOOSE i \in 1..3 : Passes[i] = pc]
            /\ strings' = IF pc = "reserved"
                          THEN EnsureString(EnsureString(EnsureString(EnsureString(strings,
                                 "bootargs"), "linux,initrd-start"), "linux,initrd-end"),
                                 "linux,booted-from-kexec")
                          ELSE strings
            /\ block' = CASE pc = "extract" -> dtb
                          [] pc = "graft"   -> Append(out, End)
                          [] OTHER          -> block
    /\ out' = IF pc = "patch" THEN Append(out, End) ELSE <<>>
    /\ cursor' = 0 /\ stack' = <<>> /\ saw' = {}
    /\ UNCHANGED <<dtb, live, memory, ranges>>

Next ==
    \/ WriteToken \/ WriteEnd
    \/ Extract \/ Graft \/ Reserved \/ Patch \/ EndPass

Spec == Init /\ [][Next]_vars

(***************************************************************************)
(* What a block says, as contract_tree reads it                            *)
(***************************************************************************)

(* The open nodes behind each token of a block. *)
OpenNodes(b) ==
    LET open[i \in 0..Len(b)] ==
          IF i = 0 THEN <<>>
          ELSE CASE b[i].token = "begin" -> Append(open[i - 1], b[i].name)
                 [] b[i].token = "end"   -> IF open[i - 1] = <<>> THEN <<>> ELSE Front(open[i - 1])
                 [] OTHER                -> open[i - 1]
    IN  open

(* Nodes and properties, with the path they are at. *)
NodesOf(b) == {OpenNodes(b)[i] : i \in {j \in DOMAIN b : b[j].token = "begin"}}
PropsOf(b, strs) ==
    {[path |-> OpenNodes(b)[i], name |-> StringAt(strs, b[i].nameoff), value |-> b[i].value] :
       i \in {j \in DOMAIN b : b[j].token = "prop"}}

(* contract_tree accepts the block: one root, every node closed, sibling   *)
(* names and property names unique, properties before child nodes.         *)
ContractTree(b) ==
    LET open == OpenNodes(b)
        At(tok) == {i \in DOMAIN b : b[i].token = tok}
    IN  /\ Last(b) = End /\ open[Len(b)] = <<>>
        /\ {i \in At("begin") : Len(open[i]) = 1} # {}
        /\ \A i, j \in At("begin") : open[i] = open[j] => i = j
        /\ \A i, j \in At("prop") : open[i] = open[j] /\ b[i].nameoff = b[j].nameoff => i = j
        /\ \A i \in At("prop"), j \in At("begin") :
             j < i /\ Len(open[j]) = Len(open[i]) + 1 => ~IsPrefix(open[i], open[j])

(* The tree that comes out of the passes says exactly what it should: the  *)
(* memory nodes are the live ones, under their own property names;         *)
(* /chosen has the new properties once and before its child nodes, and     *)
(* keeps its others; everything else is as it was supplied; and the        *)
(* reserved memory that was excluded is what the tree has in force.        *)
PassesExact ==
    LET Replaced(p) == IsChosen(p.path) /\ p.name \in ChosenProps
        Others(b, strs) == {p \in PropsOf(b, strs) : ~InMemory(p.path) /\ ~Replaced(p)}
    IN  pc = "done" /\ ContractTree(dtb) =>
          /\ ContractTree(out)
          /\ {p \in PropsOf(out, strings) : InMemory(p.path)}
               = {p \in PropsOf(live, LiveStrings) : InMemory(p.path)}
          /\ {n \in NodesOf(out) : InMemory(n)} = {n \in NodesOf(live) : InMemory(n)}
          /\ Others(out, strings) = Others(dtb, Strings)
          /\ {p \in PropsOf(out, strings) : Replaced(p)}
               = {[path |-> <<"", "chosen">>, name |-> n, value |-> "new"] : n \in ChosenProps}
          /\ {n \in NodesOf(out) : ~InMemory(n)}
               = {n \in NodesOf(dtb) : ~InMemory(n)} \cup {<<"", "chosen">>}
          /\ ranges = {n \in NodesOf(out) : IsReservedChild(n)
                          /\ ~ \E p \in PropsOf(out, strings) : p.path = n /\ p.name = "status"}
=============================================================================
