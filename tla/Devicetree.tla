----------------------------- MODULE Devicetree -----------------------------
(***************************************************************************)
(* The reader of flattened device trees (src/drivers/devicetree.c): the    *)
(* iterators over nodes, children and properties, and what is built from   *)
(* them: fdt_dump, fdt_node_path, fdt_node_search_iter and fdt_node_prop;  *)
(* and the memory reservations.                                            *)
(* The structure block is a sequence of 32-bit words numbered from 0, and  *)
(* a handle is the position of its token.  A loop iteration of the code is *)
(* a step.  Names are records; their characters are in module FdtName.     *)
(***************************************************************************)
EXTENDS Integers, Sequences, SequencesExt

CONSTANTS
    Trees,      \* the blobs, each with what it was made from (Layout, below)
    Paths,      \* what callers look up: paths are sequences of names
    Names, PropNames,
    NULL        \* the null pointer; also the missing unit address of a name

FDT_VERSION == 17
FDT_BEGIN_NODE == 1
FDT_END_NODE == 2
FDT_PROP == 3
FDT_NOP == 4
FDT_END == 9
Token == {FDT_BEGIN_NODE, FDT_END_NODE, FDT_PROP, FDT_NOP, FDT_END}

\* A word from NO_NUL on stands for one without a zero byte, here four equal
\* ones; a smaller word has its value in its last byte (big endian).
NO_NUL == 16
Bytes(w) == IF w < NO_NUL THEN <<0, 0, 0, w>> ELSE <<w, w, w, w>>

----------------------------------------------------------------------------
(* The blobs: the words a tree was written as, and that tree *)

\* The token at s is the one that comes after the token at q and its operands.
Follows(t, q, s) ==
    /\ q < s /\ \A r \in t.tokens : r <= q \/ s <= r
    /\ \/ /\ t.words[q] = FDT_BEGIN_NODE /\ t.depth[s] = t.depth[q] + 1
          /\ q + 2 <= s /\ t.words[s - 1] < NO_NUL
          /\ \A r \in q + 1 .. s - 2 : t.words[r] >= NO_NUL
       \/ /\ t.words[q] = FDT_PROP /\ t.depth[s] = t.depth[q]
          /\ q + 3 <= s /\ s = q + 3 + (t.words[q + 1] + 3) \div 4
       \/ t.words[q] = FDT_NOP /\ t.depth[s] = t.depth[q] /\ s = q + 1
       \/ t.words[q] = FDT_END_NODE /\ t.depth[s] = t.depth[q] - 1 /\ s = q + 1

\* Holds of damaged blobs too: only what an intact token is followed by counts.
Tokenised(t) ==
    /\ \A q \in DOMAIN t.words :
          q \in Nat /\ t.words[q] \in Nat /\ 0 .. q \subseteq DOMAIN t.words
    /\ t.tokens \subseteq DOMAIN t.words /\ t.depth \in [t.tokens -> Nat]
    /\ t.nodes = {q \in t.tokens : t.words[q] = FDT_BEGIN_NODE}
    /\ DOMAIN t.owner = {q \in t.tokens : t.words[q] = FDT_PROP}
    /\ \A q \in t.tokens :
          t.words[q] \in Token \ {FDT_END} => \E s \in t.tokens : Follows(t, q, s)
    /\ \E first \in t.tokens :
          /\ t.words[first] # FDT_NOP /\ t.depth[first] = 0
          /\ \A r \in DOMAIN t.words : r < first => t.words[r] = FDT_NOP

\* The END_NODE at e closes the node at n, and q lies directly in that node.
Within(t, n, e, q) == n < q /\ q < e /\ t.depth[q] = t.depth[n] + 1
Closes(t, n, e) ==
    /\ n < e /\ t.words[e] = FDT_END_NODE /\ t.depth[e] = t.depth[n] + 1
    /\ \A q \in t.tokens : n < q /\ q < e =>
          /\ t.depth[q] > t.depth[n]
          /\ t.words[q] = FDT_END_NODE => t.depth[q] > t.depth[n] + 1
    /\ \A q \in DOMAIN t.owner : t.owner[q] = n <=> Within(t, n, e, q)
    /\ \A q \in t.nodes : t.parent[q] = n <=> Within(t, n, e, q)
    /\ t.depth[n] = 0 => \A q \in t.nodes : n <= q /\ q < e

\* A blob that was not damaged is one tree, and its values are those of the tree.
Nested(t) ==
    /\ \A q \in t.tokens : t.words[q] \in Token
    /\ \A q, r \in t.tokens : t.words[q] = FDT_END => r <= q
    /\ \A n \in t.nodes : \E e \in t.tokens : Closes(t, n, e)
    /\ \A q \in DOMAIN t.owner :
          /\ t.owner[q] \in t.nodes
          /\ t.value[q].len = t.words[q + 1]
          /\ t.value[q].value = [k \in 1 .. (t.words[q + 1] + 3) \div 4 |-> t.words[q + 2 + k]]

\* The reservations, an entry of zeros, and anything.
Reserves(t) ==
    /\ Len(t.reserved) \in Nat /\ Len(t.reserved) + 1 \in DOMAIN t.rsvmap
    /\ \A k \in 1 .. Len(t.reserved) :
          /\ t.rsvmap[k] = t.reserved[k]
          /\ t.reserved[k].address # 0 \/ t.reserved[k].size # 0
    /\ t.rsvmap[Len(t.reserved) + 1] = [address |-> 0, size |-> 0]
    /\ DOMAIN t.rsvmap \subseteq Nat \ {0}

IsName(n) == n = [base |-> n.base, unit |-> n.unit]
Layout(t) ==
    /\ Tokenised(t) /\ Reserves(t)
    /\ ~t.damaged => Nested(t)
    /\ \A n \in t.nodes : IsName(t.name[n])

ASSUME TreesAssumption == \A t \in Trees : Layout(t)
ASSUME NamesAssumption ==
    /\ \A n \in Names : IsName(n)
    /\ \A path \in Paths : path \in Seq(Range(path)) /\ \A n \in Range(path) : IsName(n)
ASSUME NullAssumption == NULL \notin Nat

VARIABLES
    tree,   \* the device tree that is read
    job,    \* the function called: "count", "dump", "path", "search" or "prop"
    pc,     \* "idle", "busy", "done"
    query,  \* its arguments
    fn,     \* the iterator that runs: "node", "child", "prop" or "none"
    p,      \* p in the iterator
    deep,   \* deep in fdt_skip_node, 0 outside it
    ret,    \* the handle the last iterator returned
    node,   \* node whose children or properties are enumerated
    want,   \* the rest of the path in fdt_node_path
    stack,  \* the nodes whose fdt_dump_helper call is active, outermost first
    part,   \* whether the innermost one prints "props" or "children"
    out     \* what fdt_dump printed, fdt_node_search_iter yielded, or was counted

dtVars == <<tree, job, pc, query, fn, p, deep, ret, node, want, stack, part, out>>

DtInit ==
    /\ tree \in Trees
    /\ job = "none" /\ pc = "idle" /\ fn = "none" /\ part = "props"
    /\ p = 0 /\ deep = 0
    /\ query = NULL /\ ret = NULL /\ node = NULL
    /\ want = <<>> /\ stack = <<>> /\ out = <<>>

----------------------------------------------------------------------------
(* Positions *)

Position == DOMAIN tree.words
Word(q) == tree.words[q]

\* fdt_validate, for what is done with its result: NULL yields nothing.
fdt_validate == tree.magic /\ tree.version = FDT_VERSION

fdt_root_node ==
    LET first == CHOOSE q \in Position :
                     /\ Word(q) # FDT_NOP
                     /\ \A r \in Position : r < q => Word(r) = FDT_NOP
    IN  IF fdt_validate /\ Word(first) = FDT_BEGIN_NODE THEN first ELSE NULL

\* The first word after the token at q with a zero byte.
NulWord(q) == CHOOSE r \in Position :
                  /\ r > q /\ Word(r) < NO_NUL
                  /\ \A s \in q + 1 .. r - 1 : Word(s) >= NO_NUL

\* Mutant: a name that fills its last word is taken to end with that word.
fdt_skip_name_full(q) == IF NulWord(q) > q + 1 THEN NulWord(q) ELSE NulWord(q) + 1

fdt_skip_name(q) == NulWord(q) + 1

\* A token, the length in bytes, the offset of the name, and the value.
\* Mutant: a value that ends inside a word is not padded.
fdt_skip_property_unaligned(q) == q + 3 + Word(q + 1) \div 4

fdt_skip_property(q) == q + 3 + (Word(q + 1) + 3) \div 4

----------------------------------------------------------------------------
(* The iterators *)

start_node_iter(n) ==
    fn' = "node" /\ deep' = 0 /\ p' = fdt_skip_name(n)

start_child_iter(parent, child) ==
    /\ fn' = "child"
    /\ deep' = IF child = NULL THEN 0 ELSE 1
    /\ p' = fdt_skip_name(IF child = NULL THEN parent ELSE child)

start_prop_iter(n, prop) ==
    /\ fn' = "prop" /\ deep' = 0
    /\ p' = IF prop = NULL THEN fdt_skip_name(n) ELSE fdt_skip_property(prop)

callerVars == <<tree, job, pc, query, node, want, stack, part, out>>

\* One round of the loop in fdt_skip_node; inner is deep inside a further node.
SkipNode(inner) ==
    /\ fn # "none" /\ deep > 0
    /\ \/ /\ Word(p) = FDT_BEGIN_NODE
          /\ p' = fdt_skip_name(p) /\ deep' = inner
       \/ /\ Word(p) = FDT_END_NODE
          /\ p' = p + 1 /\ deep' = deep - 1
       \/ /\ Word(p) = FDT_NOP
          /\ p' = p + 1 /\ UNCHANGED deep
       \/ /\ Word(p) = FDT_PROP
          /\ p' = fdt_skip_property(p) /\ UNCHANGED deep
       \/ /\ Word(p) \notin Token \ {FDT_END}
          /\ deep' = 0 /\ UNCHANGED p
    /\ UNCHANGED <<callerVars, fn, ret>>

\* Mutant: nodes inside the skipped one are not counted.
fdt_skip_node_flat == SkipNode(deep)

fdt_skip_node == SkipNode(deep + 1)

\* The token an iterator looks for, and the ones on which it gives up: the end of
\* the node (except for fdt_node_iter), the end of the tree, an invalid token.
Wanted == IF fn = "prop" THEN FDT_PROP ELSE FDT_BEGIN_NODE
\* Mutant: the end of the node does not end the enumeration of its parts.
GivesUp_late(w) == w \notin Token \/ w = FDT_END

GivesUp(w) == \/ w \notin Token \/ w = FDT_END
              \/ w = FDT_END_NODE /\ fn # "node"

InIterator == fn # "none" /\ deep = 0

\* One round of the loop in fdt_node_iter, fdt_node_child_iter or fdt_prop_iter.
iter_step ==
    /\ InIterator /\ Word(p) # Wanted /\ ~GivesUp(Word(p))
    /\ \/ /\ Word(p) \in {FDT_NOP, FDT_END_NODE}
          /\ p' = p + 1 /\ UNCHANGED deep
       \/ /\ Word(p) = FDT_PROP
          /\ p' = fdt_skip_property(p) /\ UNCHANGED deep
       \/ /\ Word(p) = FDT_BEGIN_NODE     \* fdt_skip_node
          /\ p' = fdt_skip_name(p) /\ deep' = 1
    /\ UNCHANGED <<callerVars, fn, ret>>

iter_return ==
    /\ InIterator /\ (Word(p) = Wanted \/ GivesUp(Word(p)))
    /\ ret' = IF Word(p) = Wanted THEN p ELSE NULL
    /\ fn' = "none"
    /\ UNCHANGED <<callerVars, p, deep>>

----------------------------------------------------------------------------
(* The functions built from them *)

Innermost == stack[Len(stack)]
Returned == pc = "busy" /\ fn = "none"

Return(value) ==
    pc' = "done" /\ ret' = value /\ UNCHANGED <<fn, p, deep>>

\* The reservations are counted up to the entry that is all zero.
\* Mutant: either may be zero.
ends_at_either(e) == e.address = 0 \/ e.size = 0

EndsReservations(e) == e.address = 0 /\ e.size = 0

Reservations ==
    LET last == CHOOSE k \in DOMAIN tree.rsvmap :
                   /\ EndsReservations(tree.rsvmap[k])
                   /\ \A m \in 1 .. k - 1 : ~EndsReservations(tree.rsvmap[m])
    IN  IF fdt_validate THEN last - 1 ELSE 0

fdt_count_mem_reserve_entries ==
    /\ pc = "idle"
    /\ job' = "count" /\ out' = <<Reservations>>
    /\ Return(NULL)
    /\ UNCHANGED <<tree, query, node, want, stack, part>>

\* The value of the property at q: the words it occupies, and its bytes.
ValueWords(q) == [k \in 1 .. (Word(q + 1) + 3) \div 4 |-> Word(q + 2 + k)]
Byte(value, k) == Bytes(value[((k - 1) \div 4) + 1])[((k - 1) % 4) + 1]
ValueBytes(q) ==
    [k \in 1 .. Word(q + 1) |-> Byte(ValueWords(q), k)]

fdt_prolly_string(bytes) ==
    /\ \A k \in DOMAIN bytes : bytes[k] # 0 => 32 <= bytes[k] /\ bytes[k] <= 127
    /\ \E k \in DOMAIN bytes : bytes[k] # 0

\* Mutant: the loop stops when fewer than four bytes are left.
dump_words_whole(q) == SubSeq(ValueWords(q), 1, Word(q + 1) \div 4)

\* The loop that prints a value four bytes at a time.
dump_words(q) == ValueWords(q)

\* What fdt_dump_helper prints for a property, with kputx for a string, and what
\* it prints for a node.
PropLine(q, indent) ==
    [at |-> q, indent |-> indent, string |-> fdt_prolly_string(ValueBytes(q)),
     shown |-> IF fdt_prolly_string(ValueBytes(q))
               THEN [k \in DOMAIN ValueBytes(q) |->
                       IF ValueBytes(q)[k] \in 32 .. 127 THEN ValueBytes(q)[k] ELSE 46]
               ELSE dump_words(q)]
NodeLine(q, indent) == [at |-> q, indent |-> indent, string |-> FALSE, shown |-> <<>>]

\* fdt_dump prints the tree; fdt_dump_helper calls itself for every child.
fdt_dump ==
    /\ pc = "idle"
    /\ job' = "dump"
    /\ IF fdt_root_node = NULL
       THEN Return(NULL) /\ UNCHANGED <<stack, out>>
       ELSE /\ pc' = "busy"
            /\ stack' = <<fdt_root_node>>
            /\ out' = <<NodeLine(fdt_root_node, 0)>>
            /\ start_prop_iter(fdt_root_node, NULL)
            /\ UNCHANGED ret
    /\ UNCHANGED <<tree, query, node, want, part>>

InDump == Returned /\ job = "dump"

dump_prop ==
    /\ InDump /\ part = "props" /\ ret # NULL
    /\ out' = Append(out, PropLine(ret, Len(stack)))
    /\ start_prop_iter(Innermost, ret)
    /\ UNCHANGED <<tree, job, pc, query, ret, node, want, stack, part>>

dump_children ==
    /\ InDump /\ part = "props" /\ ret = NULL
    /\ part' = "children"
    /\ start_child_iter(Innermost, NULL)
    /\ UNCHANGED <<tree, job, pc, query, ret, node, want, stack, out>>

DumpChild(indent) ==
    /\ InDump /\ part = "children" /\ ret # NULL
    /\ out' = Append(out, NodeLine(ret, indent))
    /\ stack' = Append(stack, ret)
    /\ part' = "props"
    /\ start_prop_iter(ret, NULL)
    /\ UNCHANGED <<tree, job, pc, query, ret, node, want>>

\* Mutant: the recursive call prints at its parent's indentation.
dump_child_same_indent == DumpChild(Len(stack) - 1)

dump_child == DumpChild(Len(stack))

\* The helper returns, and its caller goes on after the child last.
DumpClose(last) ==
    /\ InDump /\ part = "children" /\ ret = NULL
    /\ stack' = Front(stack)
    /\ IF Len(stack) = 1
       THEN Return(NULL)
       ELSE start_child_iter(stack[Len(stack) - 1], last) /\ UNCHANGED <<pc, ret>>
    /\ UNCHANGED <<tree, job, query, node, want, part, out>>

dump_close == DumpClose(Innermost)

\* A unit address only counts when the name looked for has one.
\* Mutant: names with different addresses are taken for equal.
fdt_name_equal_no_unit(n, m) == n.base = m.base

fdt_name_equal(n, m) == n.base = m.base /\ m.unit \in {NULL, n.unit}

fdt_node_path(start, path) ==
    LET root == IF start = NULL THEN fdt_root_node ELSE start IN
    /\ pc = "idle"
    /\ job' = "path"
    /\ query' = [start |-> start, path |-> path]
    /\ node' = root
    /\ want' = path
    /\ IF ~fdt_validate \/ root = NULL THEN Return(NULL)
       ELSE IF path = <<>> THEN Return(root)
       ELSE pc' = "busy" /\ start_child_iter(root, NULL) /\ UNCHANGED ret
    /\ UNCHANGED <<tree, stack, part, out>>

path_child ==
    /\ Returned /\ job = "path" /\ ret # NULL
    /\ IF ~fdt_name_equal(tree.name[ret], Head(want))
       THEN start_child_iter(node, ret) /\ UNCHANGED <<pc, ret, node, want>>
       ELSE IF Len(want) = 1
            THEN Return(ret) /\ UNCHANGED <<node, want>>
            ELSE /\ want' = Tail(want)
                 /\ node' = ret
                 /\ start_child_iter(ret, NULL)
                 /\ UNCHANGED <<pc, ret>>
    /\ UNCHANGED <<tree, job, query, stack, part, out>>

\* The loop over all that fdt_node_search_iter yields, from its doc comment.
fdt_node_search_iter(name) ==
    /\ pc = "idle"
    /\ job' = "search"
    /\ query' = [name |-> name]
    /\ IF fdt_root_node = NULL
       THEN Return(NULL)
       ELSE pc' = "busy" /\ start_node_iter(fdt_root_node) /\ UNCHANGED ret
    /\ UNCHANGED <<tree, node, want, stack, part, out>>

search_node ==
    /\ Returned /\ job = "search" /\ ret # NULL
    /\ out' = IF fdt_name_equal(tree.name[ret], query.name) THEN Append(out, ret) ELSE out
    /\ start_node_iter(ret)
    /\ UNCHANGED <<tree, job, pc, query, ret, node, want, stack, part>>

fdt_node_prop(n, name) ==
    /\ pc = "idle"
    /\ job' = "prop"
    /\ query' = [node |-> n, name |-> name]
    /\ node' = n
    /\ IF ~fdt_validate
       THEN Return(NULL)
       ELSE pc' = "busy" /\ start_prop_iter(n, NULL) /\ UNCHANGED ret
    /\ UNCHANGED <<tree, want, stack, part, out>>

NodePropNext(last) ==
    /\ Returned /\ job = "prop" /\ ret # NULL
    /\ IF tree.propname[ret] = query.name
       THEN Return(ret)
       ELSE start_prop_iter(node, last) /\ UNCHANGED <<pc, ret>>
    /\ UNCHANGED <<tree, job, query, node, want, stack, part, out>>

\* Mutant: the search goes on from the node instead of from the property.
node_prop_next_stuck == NodePropNext(NULL)

node_prop_next == NodePropNext(ret)

\* The three lookups end when their iterator does.
lookup_end ==
    /\ Returned /\ job # "dump" /\ ret = NULL
    /\ Return(NULL)
    /\ UNCHANGED <<tree, job, query, node, want, stack, part, out>>

Finished == pc = "done" /\ UNCHANGED dtVars

Progress ==
    \/ fdt_skip_node \/ iter_step \/ iter_return
    \/ dump_prop \/ dump_children \/ dump_child \/ dump_close
    \/ path_child \/ search_node \/ node_prop_next \/ lookup_end

DtNext ==
    \/ fdt_count_mem_reserve_entries \/ fdt_dump
    \/ \E start \in tree.nodes \union {NULL}, path \in Paths : fdt_node_path(start, path)
    \/ \E name \in Names : fdt_node_search_iter(name)
    \/ \E n \in tree.nodes, name \in PropNames : fdt_node_prop(n, name)
    \/ Progress
    \/ Finished

\* The reader runs on once it is called: one hart, and no call blocks.
DtSpec == DtInit /\ [][DtNext]_dtVars /\ WF_dtVars(Progress)

----------------------------------------------------------------------------
(* Properties *)

\* Every variable has its type.
Handle == tree.nodes \union DOMAIN tree.owner
DtTypeOK ==
    /\ tree \in Trees
    /\ job \in {"none", "count", "dump", "path", "search", "prop"}
    /\ pc \in {"idle", "busy", "done"}
    /\ fn \in {"none", "node", "child", "prop"}
    /\ p \in Position /\ deep \in Nat
    /\ ret \in Handle \union {NULL}
    /\ node \in tree.nodes \union {NULL}
    /\ stack \in Seq(tree.nodes) /\ part \in {"props", "children"}

\* The cursor only ever stands on a token of the structure block, never in a
\* name or in the value of a property that happens to look like one
\* (fdt_skip_name, fdt_skip_property: padding to a multiple of four bytes).
CursorOnToken == fn # "none" => p \in tree.tokens

\* fdt_skip_node counts the nodes it is in: "deep" is the distance between the
\* nesting at the cursor and that of the part it will stop at, and an iterator
\* stays at the nesting of the node it was called for.
SkipCountsDepth ==
    fn \in {"child", "prop"} /\ ~tree.damaged =>
        LET around == IF job = "dump" THEN Innermost ELSE node
        IN  tree.depth[p] = tree.depth[around] + 1 + deep

\* fdt_dump prints nodes in order of definition, each followed by its own
\* properties and then by its children, indented by their nesting, none twice.
NodeOf(q) == IF q \in tree.nodes THEN q ELSE tree.owner[q]
DumpInOrder ==
    job = "dump" => \A i \in 1 .. Len(out) :
        LET at == out[i].at IN
        /\ out[i].indent = tree.depth[at]
        /\ \A j \in i + 1 .. Len(out) :
              LET later == out[j].at
              IN  \/ NodeOf(at) < NodeOf(later)
                  \/ NodeOf(at) = NodeOf(later) /\ at < later

\* When the dump of a valid tree ends, every node and every property of it has
\* been printed, and each value from its first to its last byte: as the words it
\* was made of, or as a string in which only zeros are replaced.
DumpComplete ==
    job = "dump" /\ pc = "done" /\ fdt_validate /\ ~tree.damaged =>
        /\ {out[i].at : i \in 1 .. Len(out)} = Handle
        /\ \A i \in 1 .. Len(out) : out[i].at \in DOMAIN tree.owner =>
              LET made == tree.value[out[i].at]
              IN  IF ~out[i].string THEN out[i].shown = made.value
                  ELSE /\ Len(out[i].shown) = made.len
                       /\ \A k \in 1 .. made.len :
                             LET b == Byte(made.value, k)
                             IN  out[i].shown[k] = IF b = 0 THEN 46 ELSE b

\* kinit reports as many reservations as the tree was made with; the end is an
\* entry in which both the address and the size are 0, so that memory from
\* address 0 can be reserved (fdt_count_mem_reserve_entries).
CountsReservations ==
    job = "count" => out = <<IF fdt_validate THEN Len(tree.reserved) ELSE 0>>

\* The name m denotes a node called n: it is n, or n without its unit address.
Denotes(m, n) == m \in {n, [n EXCEPT !.unit = NULL]}

\* Nodes down a path, each the first child of the one before that the name at
\* its place in the path denotes.
Above(start, c, i) == IF i = 1 THEN start ELSE c[i - 1]
Children(n, name) == {q \in tree.nodes : tree.parent[q] = n /\ Denotes(name, tree.name[q])}
Descends(start, path, c, k) ==
    \A i \in 1 .. k :
        /\ c[i] \in Children(Above(start, c, i), path[i])
        /\ \A q \in Children(Above(start, c, i), path[i]) : c[i] <= q

\* fdt_node_path goes down by the first child a name denotes, returns the node it
\* comes to at the end of the path, and NULL only where there is no such child
\* (devicetree.c: "returns an invalid node if cannot be found").
PathFindsNode ==
    job = "path" /\ pc = "done" /\ ~tree.damaged =>
        LET start == IF query.start = NULL THEN fdt_root_node ELSE query.start
            path == query.path
        IN  IF ~fdt_validate \/ start = NULL THEN ret = NULL
            ELSE \E k \in 0 .. Len(path) : \E c \in [1 .. k -> tree.nodes] :
                    /\ Descends(start, path, c, k)
                    /\ IF k = Len(path) THEN ret = Above(start, c, k + 1)
                       ELSE ret = NULL /\ Children(Above(start, c, k + 1), path[k + 1]) = {}

\* fdt_node_search_iter yields every node of that name below the root, once and
\* in order of definition (devicetree.c: "both of those will be yielded").
SearchYieldsAll ==
    job = "search" /\ pc = "done" /\ fdt_validate /\ ~tree.damaged =>
        /\ {out[i] : i \in 1 .. Len(out)} =
              {n \in tree.nodes \ {fdt_root_node} : Denotes(query.name, tree.name[n])}
        /\ \A i, j \in 1 .. Len(out) : i < j => out[i] < out[j]

\* fdt_node_prop finds the first property of that name of the node itself, and
\* never one of the nodes inside it.
PropOfThatNode ==
    job = "prop" /\ pc = "done" /\ fdt_validate /\ ~tree.damaged =>
        LET named == {q \in DOMAIN tree.owner :
                        tree.owner[q] = query.node /\ tree.propname[q] = query.name}
        IN  IF named = {} THEN ret = NULL
            ELSE ret \in named /\ \A q \in named : ret <= q

\* Every call returns, on damaged trees too.
CallsEnd == pc = "busy" ~> pc = "done"
=============================================================================
