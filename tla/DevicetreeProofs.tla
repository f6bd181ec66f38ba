-------------------------- MODULE DevicetreeProofs --------------------------
(***************************************************************************)
(* Proofs about the device tree reader, for every set of blobs laid out as *)
(* Layout says, and for every path and name that is looked up.             *)
(* First the cursor stays on tokens and every handle is one (on damaged    *)
(* blobs too); then it stays within the node that is enumerated (Located); *)
(* then each lookup has seen the part of its answer that lies before the   *)
(* cursor.                                                                 *)
(***************************************************************************)
EXTENDS Devicetree, SequenceTheorems, TLAPS

Nodes == tree.nodes
Props == DOMAIN tree.owner

----------------------------------------------------------------------------
(* What the skipping functions return *)

\* Words and tokens of the blob that is read.
LEMMA Shape ==
    ASSUME tree \in Trees
    PROVE  /\ \A q \in Position : q \in Nat /\ Word(q) \in Nat /\ 0 .. q \subseteq Position
           /\ tree.tokens \subseteq Position
           /\ \A q \in tree.tokens : q \in Nat /\ Word(q) \in Nat /\ tree.depth[q] \in Nat
           /\ Nodes = {q \in tree.tokens : Word(q) = FDT_BEGIN_NODE}
           /\ Props = {q \in tree.tokens : Word(q) = FDT_PROP}
           /\ Nodes \subseteq tree.tokens /\ Props \subseteq tree.tokens
           /\ \A q \in tree.tokens :
                 Word(q) \in Token \ {FDT_END} => \E s \in tree.tokens : Follows(tree, q, s)
           /\ NULL \notin tree.tokens
  <1>1. Tokenised(tree)
    BY TreesAssumption DEF Layout
  <1>2. tree.tokens \subseteq DOMAIN tree.words /\ tree.depth \in [tree.tokens -> Nat]
    BY <1>1 DEF Tokenised
  <1>3. \A q \in DOMAIN tree.words : q \in Nat /\ tree.words[q] \in Nat /\ 0 .. q \subseteq DOMAIN tree.words
    BY <1>1 DEF Tokenised
  <1>4. /\ tree.nodes = {q \in tree.tokens : tree.words[q] = FDT_BEGIN_NODE}
        /\ DOMAIN tree.owner = {q \in tree.tokens : tree.words[q] = FDT_PROP}
        /\ \A q \in tree.tokens : tree.words[q] \in Token \ {FDT_END} =>
              \E s \in tree.tokens : Follows(tree, q, s)
    BY <1>1 DEF Tokenised
  <1> QED BY <1>2, <1>3, <1>4, NullAssumption DEF Position, Word, Nodes, Props

\* After a name comes the next token (fdt_skip_name).
LEMMA NameEnds ==
    ASSUME tree \in Trees, NEW q \in tree.tokens, NEW s \in tree.tokens,
           Follows(tree, q, s), Word(q) = FDT_BEGIN_NODE
    PROVE  fdt_skip_name(q) = s
  <1>1. /\ q \in Nat /\ s \in Nat /\ s \in Position
        /\ \A r \in Position : r \in Nat /\ Word(r) \in Nat /\ 0 .. r \subseteq Position
    BY Shape
  <1>2. /\ q + 2 <= s /\ Word(s - 1) < NO_NUL
        /\ \A r \in q + 1 .. s - 2 : Word(r) >= NO_NUL
    BY DEF Follows, Word, FDT_BEGIN_NODE, FDT_PROP, FDT_NOP, FDT_END_NODE
  <1>3. s - 1 \in Position
    BY <1>1, <1>2
  <1> DEFINE Nul(r) == /\ r > q /\ Word(r) < NO_NUL
                       /\ \A i \in q + 1 .. r - 1 : Word(i) >= NO_NUL
  <1>4. Nul(s - 1)
    BY <1>1, <1>2
  <1>5. ASSUME NEW r \in Position, Nul(r) PROVE r = s - 1
    <2>1. r \in Nat /\ Word(r) \in Nat /\ Word(s - 1) \in Nat
      BY <1>1, <1>3
    <2>2. ~(r < s - 1)
      <3>1. r < s - 1 => r \in q + 1 .. s - 2
        BY <1>1, <1>5, <2>1
      <3> QED BY <3>1, <1>2, <1>5, <2>1 DEF NO_NUL
    <2>3. ~(s - 1 < r)
      <3>1. s - 1 < r => s - 1 \in q + 1 .. r - 1
        BY <1>1, <1>2, <2>1
      <3> QED BY <3>1, <1>2, <1>5, <2>1 DEF NO_NUL
    <2> QED BY <2>1, <2>2, <2>3, <1>1
  <1>6. NulWord(q) = CHOOSE r \in Position : Nul(r)
    BY DEF NulWord
  <1> HIDE DEF Nul
  <1>7. NulWord(q) = s - 1
    BY <1>3, <1>4, <1>5, <1>6
  <1> QED BY <1>7, <1>1 DEF fdt_skip_name

\* Where the loops go from the token at q: to the next one.
After(q) == IF Word(q) = FDT_BEGIN_NODE THEN fdt_skip_name(q)
            ELSE IF Word(q) = FDT_PROP THEN fdt_skip_property(q) ELSE q + 1

\* The token after q is where the iterators go on from it, and its nesting is that
\* of q but for the node that begins or ends at q.
LEMMA Advance ==
    ASSUME tree \in Trees, NEW q \in tree.tokens, Word(q) \in Token \ {FDT_END}
    PROVE  /\ After(q) \in tree.tokens /\ q < After(q)
           /\ \A r \in tree.tokens : r <= q \/ After(q) <= r
           /\ tree.depth[After(q)] = IF Word(q) = FDT_BEGIN_NODE THEN tree.depth[q] + 1
                                     ELSE IF Word(q) = FDT_END_NODE THEN tree.depth[q] - 1
                                     ELSE tree.depth[q]
  <1>1. PICK s \in tree.tokens : Follows(tree, q, s)
    BY Shape
  <1>2. q < s /\ \A r \in tree.tokens : r <= q \/ s <= r
    BY <1>1 DEF Follows
  <1>3. After(q) = s
    <2>1. CASE Word(q) = FDT_BEGIN_NODE
      BY <2>1, <1>1, NameEnds DEF After
    <2>2. CASE Word(q) = FDT_PROP
      BY <2>2, <1>1 DEF After, Follows, Word, fdt_skip_property,
                        FDT_BEGIN_NODE, FDT_PROP, FDT_NOP, FDT_END_NODE
    <2>3. CASE Word(q) \in {FDT_NOP, FDT_END_NODE}
      BY <2>3, <1>1 DEF After, Follows, Word, FDT_BEGIN_NODE, FDT_PROP, FDT_NOP, FDT_END_NODE
    <2> QED BY <2>1, <2>2, <2>3 DEF Token
  <1>4. tree.depth[s] = IF Word(q) = FDT_BEGIN_NODE THEN tree.depth[q] + 1
                        ELSE IF Word(q) = FDT_END_NODE THEN tree.depth[q] - 1
                        ELSE tree.depth[q]
    BY <1>1 DEF Follows, Word, FDT_BEGIN_NODE, FDT_PROP, FDT_NOP, FDT_END_NODE
  <1> QED BY <1>2, <1>3, <1>4

\* The root is the first token that is not a NOP, and nothing but NOPs is before it.
LEMMA Root ==
    ASSUME tree \in Trees
    PROVE  /\ fdt_root_node \in Nodes \union {NULL}
           /\ fdt_root_node # NULL =>
                 /\ tree.depth[fdt_root_node] = 0
                 /\ \A r \in tree.tokens : r < fdt_root_node => Word(r) = FDT_NOP
           /\ fdt_validate /\ fdt_root_node = NULL =>
                 \E first \in tree.tokens :
                    /\ Word(first) \notin {FDT_NOP, FDT_BEGIN_NODE} /\ tree.depth[first] = 0
                    /\ \A r \in tree.tokens : r < first => Word(r) = FDT_NOP
  <1> DEFINE First(q) == Word(q) # FDT_NOP /\ \A r \in Position : r < q => Word(r) = FDT_NOP
  <1>1. Tokenised(tree)
    BY TreesAssumption DEF Layout
  <1>2. PICK first \in tree.tokens : First(first) /\ tree.depth[first] = 0
    BY <1>1 DEF Tokenised, Position, Word
  <1>3. first \in Position /\ first \in Nat /\ tree.tokens \subseteq Position
    BY Shape
  <1>4. ASSUME NEW q \in Position, First(q) PROVE q = first
    <2>1. q \in Nat
      BY Shape
    <2> QED BY <1>2, <1>3, <1>4, <2>1
  <1> DEFINE chosen == CHOOSE q \in Position : First(q)
  <1> HIDE DEF First
  <1>5. chosen = first
    BY <1>2, <1>3, <1>4
  <1>6. fdt_root_node = IF fdt_validate /\ Word(chosen) = FDT_BEGIN_NODE THEN chosen ELSE NULL
    BY DEF fdt_root_node, First
  <1> HIDE DEF chosen
  <1>7. fdt_root_node = IF fdt_validate /\ Word(first) = FDT_BEGIN_NODE THEN first ELSE NULL
    BY <1>5, <1>6
  <1>8. first # NULL
    BY <1>3, NullAssumption
  <1>9. Word(first) = FDT_BEGIN_NODE => first \in Nodes
    BY Shape
  <1>10. Word(first) # FDT_NOP /\ \A r \in tree.tokens : r < first => Word(r) = FDT_NOP
    BY <1>2, <1>3 DEF First
  <1> QED BY <1>2, <1>7, <1>8, <1>9, <1>10

----------------------------------------------------------------------------
(* The cursor stays on tokens, and handles are handles *)

\* The iterator a call uses.
IteratorOf == IF job = "search" THEN "node"
              ELSE IF job = "path" \/ (job = "dump" /\ part = "children") THEN "child"
              ELSE "prop"

\* What runs, and on what: between the calls of the reader, and in each of them.
Reader ==
    /\ pc = "idle" => fn = "none" /\ job = "none" /\ out = <<>> /\ stack = <<>> /\ part = "props"
    /\ pc = "done" => fn = "none"
    /\ fn = "none" => deep = 0
    /\ pc = "busy" =>
          /\ job \in {"dump", "path", "search", "prop"}
          /\ fdt_validate
          /\ fn \in {"none", IteratorOf}
Frames ==
    /\ job = "dump" /\ pc = "busy" => stack # <<>> /\ stack[1] = fdt_root_node
    /\ job = "path" /\ pc = "busy" =>
          node \in Nodes /\ want \in Seq(Range(query.path)) /\ want # <<>>
    /\ job = "prop" /\ pc = "busy" => node \in Nodes
    /\ job = "search" /\ pc = "busy" => fdt_root_node \in Nodes
Answers ==
    Returned /\ ret # NULL =>
        ret \in IF job = "prop" \/ (job = "dump" /\ part = "props") THEN Props ELSE Nodes

DtInv == DtTypeOK /\ CursorOnToken /\ Reader /\ Frames /\ Answers

\* A step that leaves the tree alone leaves everything read off it alone.
LEMMA SameTree ==
    ASSUME tree' = tree
    PROVE  /\ Position' = Position /\ Nodes' = Nodes /\ Props' = Props /\ Handle' = Handle
           /\ fdt_validate' = fdt_validate /\ fdt_root_node' = fdt_root_node
           /\ \A q : Word(q)' = Word(q)
  BY DEF Position, Nodes, Props, Handle, fdt_validate, fdt_root_node, Word

\* Before the first call.
LEMMA DtInvInit == DtInit => DtInv
  <1> SUFFICES ASSUME DtInit PROVE DtInv
    OBVIOUS
  <1>1. tree \in Trees
    BY DEF DtInit
  <1>2. PICK first \in tree.tokens : first \in Position
    BY <1>1, Shape, TreesAssumption DEF Layout, Tokenised
  <1>3. 0 \in Position
    BY <1>1, <1>2, Shape
  <1>4. <<>> \in Seq(tree.nodes)
    OBVIOUS
  <1> QED BY <1>1, <1>3, <1>4 DEF DtInit, DtInv, DtTypeOK, CursorOnToken, Reader, Frames, Answers, Returned

\* Where the iterators start: on the token after a node's name or after a property.
LEMMA Starts ==
    ASSUME tree \in Trees
    PROVE  /\ \A n \in Nodes :
                /\ fdt_skip_name(n) \in tree.tokens /\ n < fdt_skip_name(n)
                /\ \A r \in tree.tokens : r <= n \/ fdt_skip_name(n) <= r
                /\ tree.depth[fdt_skip_name(n)] = tree.depth[n] + 1
           /\ \A q \in Props :
                /\ fdt_skip_property(q) \in tree.tokens /\ q < fdt_skip_property(q)
                /\ \A r \in tree.tokens : r <= q \/ fdt_skip_property(q) <= r
                /\ tree.depth[fdt_skip_property(q)] = tree.depth[q]
  <1>1. ASSUME NEW n \in Nodes
        PROVE  n \in tree.tokens /\ Word(n) = FDT_BEGIN_NODE /\ After(n) = fdt_skip_name(n)
    BY Shape DEF After
  <1>2. ASSUME NEW q \in Props
        PROVE  q \in tree.tokens /\ Word(q) = FDT_PROP /\ After(q) = fdt_skip_property(q)
    BY Shape DEF After, FDT_PROP, FDT_BEGIN_NODE
  <1>3. {FDT_BEGIN_NODE, FDT_PROP} \subseteq Token \ {FDT_END} /\ FDT_PROP # FDT_BEGIN_NODE
        /\ FDT_PROP # FDT_END_NODE
    BY DEF Token, FDT_BEGIN_NODE, FDT_PROP, FDT_END, FDT_END_NODE, FDT_NOP
  <1> QED BY <1>1, <1>2, <1>3, Advance

\* The calls of the reader.
LEMMA CallsKeepDtInv ==
    ASSUME DtInv, fdt_count_mem_reserve_entries \/ fdt_dump
                  \/ (\E start \in tree.nodes \union {NULL}, path \in Paths : fdt_node_path(start, path))
                  \/ (\E name \in Names : fdt_node_search_iter(name))
                  \/ \E n \in tree.nodes, name \in PropNames : fdt_node_prop(n, name)
    PROVE  DtInv'
  <1> USE DEF DtInv
  <1>1. /\ tree' = tree /\ tree \in Trees /\ pc = "idle" /\ fn = "none"
        /\ stack = <<>> /\ part = "props" /\ part' = part /\ deep = 0
    BY DEF fdt_count_mem_reserve_entries, fdt_dump, fdt_node_path, fdt_node_search_iter,
           fdt_node_prop, DtTypeOK, Reader
  <1>2. /\ Position' = Position /\ Nodes' = Nodes /\ Props' = Props /\ Handle' = Handle
        /\ fdt_validate' = fdt_validate /\ fdt_root_node' = fdt_root_node
    BY <1>1, SameTree
  <1>3. fdt_root_node \in Nodes \union {NULL} /\ (fdt_root_node # NULL => fdt_validate)
    BY <1>1, Root DEF fdt_root_node
  <1>4. Nodes = tree.nodes /\ Handle = Nodes \union Props
    BY DEF Nodes, Props, Handle
  <1>5. tree.tokens \subseteq Position /\ NULL \notin tree.tokens /\ Nodes \subseteq tree.tokens
    BY <1>1, Shape
  <1>6. CASE fdt_count_mem_reserve_entries
    <2>1. DtTypeOK'
      BY <1>1, <1>2, <1>6 DEF fdt_count_mem_reserve_entries, Return, DtTypeOK
    <2> QED BY <2>1, <1>1, <1>6 DEF fdt_count_mem_reserve_entries, Return,
                                    CursorOnToken, Reader, Frames, Answers, Returned
  <1>7. CASE fdt_dump
    <2>1. CASE fdt_root_node = NULL
      <3>1. DtTypeOK'
        BY <1>1, <1>2, <1>7, <2>1 DEF fdt_dump, Return, DtTypeOK
      <3> QED BY <3>1, <2>1, <1>1, <1>7 DEF fdt_dump, Return,
                                    CursorOnToken, Reader, Frames, Answers, Returned
    <2>2. CASE fdt_root_node # NULL
      <3>1. fdt_root_node \in Nodes
        BY <1>3, <2>2
      <3>2. /\ p' = fdt_skip_name(fdt_root_node) /\ fn' = "prop" /\ deep' = 0 /\ pc' = "busy"
            /\ stack' = <<fdt_root_node>> /\ ret' = ret /\ job' = "dump"
        BY <1>7, <2>2 DEF fdt_dump, start_prop_iter
      <3>3. p' \in tree.tokens
        BY <3>1, <3>2, <1>1, Starts
      <3>4. stack' \in Seq(tree.nodes) /\ stack' # <<>> /\ stack'[1] = fdt_root_node
        <4>1. ASSUME NEW S, NEW x \in S PROVE <<x>> \in Seq(S) /\ <<x>> # <<>> /\ <<x>>[1] = x
          OBVIOUS
        <4> QED BY <4>1, <3>1, <3>2, <1>4
      <3>5. DtTypeOK'
        BY <1>1, <1>2, <1>5, <1>7, <3>2, <3>3, <3>4 DEF fdt_dump, DtTypeOK
      <3> QED BY <1>1, <1>2, <1>3, <2>2, <3>2, <3>3, <3>4, <3>5
              DEF CursorOnToken, Reader, Frames, Answers, Returned, IteratorOf
    <2> QED BY <2>1, <2>2
  <1>8. CASE \E start \in tree.nodes \union {NULL}, path \in Paths : fdt_node_path(start, path)
    <2>1. PICK start \in tree.nodes \union {NULL}, path \in Paths : fdt_node_path(start, path)
      BY <1>8
    <2> DEFINE root == IF start = NULL THEN fdt_root_node ELSE start
    <2>2. root \in Nodes \union {NULL}
      BY <1>3, <1>4
    <2>3. /\ job' = "path" /\ query' = [start |-> start, path |-> path]
          /\ node' = root /\ want' = path /\ stack' = stack /\ out' = out
      BY <2>1 DEF fdt_node_path
    <2>4. path \in Seq(Range(path)) /\ query'.path = path
      BY NamesAssumption, <2>3
    <2>5. CASE ~fdt_validate \/ root = NULL \/ path = <<>>
      <3>1. pc' = "done" /\ ret' \in Nodes \union {NULL} /\ UNCHANGED <<fn, p, deep>>
        BY <2>1, <2>2, <2>5 DEF fdt_node_path, Return
      <3>2. DtTypeOK'
        BY <1>1, <1>2, <1>4, <2>2, <2>3, <3>1 DEF DtTypeOK
      <3> QED BY <1>1, <3>1, <3>2 DEF CursorOnToken, Reader, Frames, Answers, Returned
    <2>6. CASE fdt_validate /\ root # NULL /\ path # <<>>
      <3>1. /\ p' = fdt_skip_name(root) /\ fn' = "child" /\ deep' = 0 /\ pc' = "busy" /\ ret' = ret
        BY <2>1, <2>6 DEF fdt_node_path, start_child_iter
      <3>2. p' \in tree.tokens /\ root \in Nodes
        BY <3>1, <2>2, <2>6, <1>1, Starts
      <3>3. DtTypeOK'
        BY <1>1, <1>2, <1>4, <1>5, <2>2, <2>3, <3>1, <3>2 DEF DtTypeOK
      <3> QED BY <1>1, <1>2, <2>3, <2>4, <2>6, <3>1, <3>2, <3>3
              DEF CursorOnToken, Reader, Frames, Answers, Returned, IteratorOf
    <2> QED BY <2>5, <2>6
  <1>9. CASE \E name \in Names : fdt_node_search_iter(name)
    <2>1. PICK name \in Names : fdt_node_search_iter(name)
      BY <1>9
    <2>2. job' = "search" /\ stack' = stack /\ node' = node
      BY <2>1 DEF fdt_node_search_iter
    <2>3. CASE fdt_root_node = NULL
      <3>1. pc' = "done" /\ ret' = NULL /\ UNCHANGED <<fn, p, deep>>
        BY <2>1, <2>3 DEF fdt_node_search_iter, Return
      <3>2. DtTypeOK'
        BY <1>1, <1>2, <2>2, <3>1 DEF DtTypeOK
      <3> QED BY <1>1, <3>1, <3>2 DEF CursorOnToken, Reader, Frames, Answers, Returned
    <2>4. CASE fdt_root_node # NULL
      <3>1. /\ p' = fdt_skip_name(fdt_root_node) /\ fn' = "node" /\ deep' = 0 /\ pc' = "busy"
            /\ ret' = ret
        BY <2>1, <2>4 DEF fdt_node_search_iter, start_node_iter
      <3>2. p' \in tree.tokens /\ fdt_root_node \in Nodes
        BY <3>1, <2>4, <1>3, <1>1, Starts
      <3>3. DtTypeOK'
        BY <1>1, <1>2, <1>5, <2>2, <3>1, <3>2 DEF DtTypeOK
      <3> QED BY <1>1, <1>2, <1>3, <2>2, <2>4, <3>1, <3>2, <3>3
              DEF CursorOnToken, Reader, Frames, Answers, Returned, IteratorOf
    <2> QED BY <2>3, <2>4
  <1>10. CASE \E n \in tree.nodes, name \in PropNames : fdt_node_prop(n, name)
    <2>1. PICK n \in tree.nodes, name \in PropNames : fdt_node_prop(n, name)
      BY <1>10
    <2>2. job' = "prop" /\ stack' = stack /\ node' = n /\ n \in Nodes
      BY <2>1, <1>4 DEF fdt_node_prop
    <2>3. CASE ~fdt_validate
      <3>1. pc' = "done" /\ ret' = NULL /\ UNCHANGED <<fn, p, deep>>
        BY <2>1, <2>3 DEF fdt_node_prop, Return
      <3>2. DtTypeOK'
        BY <1>1, <1>2, <2>1, <2>2, <3>1 DEF DtTypeOK
      <3> QED BY <1>1, <3>1, <3>2 DEF CursorOnToken, Reader, Frames, Answers, Returned
    <2>4. CASE fdt_validate
      <3>1. p' = fdt_skip_name(n) /\ fn' = "prop" /\ deep' = 0 /\ pc' = "busy" /\ ret' = ret
        BY <2>1, <2>4 DEF fdt_node_prop, start_prop_iter
      <3>2. p' \in tree.tokens
        BY <3>1, <2>2, <1>1, Starts
      <3>3. DtTypeOK'
        BY <1>1, <1>2, <1>5, <2>1, <2>2, <3>1, <3>2 DEF DtTypeOK
      <3> QED BY <1>1, <1>2, <2>2, <2>4, <3>1, <3>2, <3>3
              DEF CursorOnToken, Reader, Frames, Answers, Returned, IteratorOf
    <2> QED BY <2>3, <2>4
  <1> QED BY <1>6, <1>7, <1>8, <1>9, <1>10

\* A round of an iterator's loop moves to the next token, and counts the nodes it
\* skips; or fdt_skip_node stops where it is, at a word that is no token.
Moves ==
    /\ fn # "none" /\ UNCHANGED <<callerVars, fn, ret>>
    /\ \/ /\ Word(p) \in Token \ {FDT_END} /\ p' = After(p)
          /\ deep' = IF deep > 0
                     THEN IF Word(p) = FDT_BEGIN_NODE THEN deep + 1
                          ELSE IF Word(p) = FDT_END_NODE THEN deep - 1 ELSE deep
                     ELSE IF Word(p) = FDT_BEGIN_NODE THEN 1 ELSE 0
          /\ deep = 0 => Word(p) # Wanted /\ ~GivesUp(Word(p))
       \/ /\ Word(p) \notin Token \ {FDT_END} /\ p' = p /\ deep > 0 /\ deep' = 0

\* A turn of a loop in an iterator or in fdt_skip_node goes on to the next token, or
\* fdt_skip_node gives up where it is.
LEMMA IteratorsMove ==
    ASSUME DtTypeOK, fdt_skip_node \/ iter_step
    PROVE  Moves
  <1> USE DEF FDT_BEGIN_NODE, FDT_PROP, FDT_NOP, FDT_END_NODE, FDT_END, Token
  <1>1. deep \in Nat
    BY DEF DtTypeOK
  <1>2. CASE fdt_skip_node
    BY <1>1, <1>2 DEF fdt_skip_node, SkipNode, Moves, After
  <1>3. CASE iter_step
    BY <1>1, <1>3 DEF iter_step, InIterator, Moves, After, GivesUp
  <1> QED BY <1>2, <1>3

\* The cursor stays on tokens while an iterator runs, and what it returns is a node
\* or a property.
LEMMA IteratorsKeepDtInv ==
    ASSUME DtInv, Moves \/ iter_return
    PROVE  DtInv'
  <1> USE DEF DtInv
  <1>1. /\ tree' = tree /\ tree \in Trees /\ UNCHANGED callerVars /\ fn # "none" /\ deep \in Nat
        /\ p \in tree.tokens
    BY DEF Moves, iter_return, DtTypeOK, callerVars, CursorOnToken, InIterator
  <1>2. /\ Position' = Position /\ Nodes' = Nodes /\ Props' = Props /\ Handle' = Handle
        /\ fdt_validate' = fdt_validate /\ fdt_root_node' = fdt_root_node
    BY <1>1, SameTree
  <1>3. /\ tree.tokens \subseteq Position /\ Handle = Nodes \union Props
        /\ Nodes = {q \in tree.tokens : Word(q) = FDT_BEGIN_NODE}
        /\ Props = {q \in tree.tokens : Word(q) = FDT_PROP}
    BY <1>1, Shape DEF Nodes, Props, Handle
  <1>4. pc = "busy"
    BY <1>1 DEF Reader, DtTypeOK
  <1>5. CASE Moves
    <2>1. p' \in tree.tokens /\ deep' \in Nat
      BY <1>1, <1>5, Advance DEF Moves
    <2>2. fn' = fn /\ ret' = ret
      BY <1>5 DEF Moves
    <2>3. DtTypeOK'
      BY <1>1, <1>2, <1>3, <2>1, <2>2 DEF DtTypeOK, callerVars
    <2>4. Frames'
      BY <1>1, <1>2 DEF Frames, callerVars
    <2> QED BY <1>1, <1>2, <1>4, <2>1, <2>2, <2>3, <2>4
            DEF CursorOnToken, Reader, IteratorOf, Answers, Returned, callerVars
  <1>6. CASE iter_return
    <2>1. fn' = "none" /\ p' = p /\ deep' = deep /\ deep = 0
      BY <1>6 DEF iter_return, InIterator
    <2>2. ret' # NULL => ret' \in IF fn = "prop" THEN Props ELSE Nodes
      BY <1>1, <1>3, <1>6 DEF iter_return, Wanted
    <2>3. DtTypeOK'
      BY <1>1, <1>2, <1>3, <2>1, <2>2 DEF DtTypeOK, callerVars
    <2>4. Frames'
      BY <1>1, <1>2 DEF Frames, callerVars
    <2>5. fn = IteratorOf
      BY <1>1, <1>4 DEF Reader
    <2>6. Answers'
      <3>1. job \in {"dump", "path", "search", "prop"} /\ part \in {"props", "children"}
        BY <1>4 DEF Reader, DtTypeOK
      <3>2. fn = "prop" <=> job = "prop" \/ (job = "dump" /\ part = "props")
        BY <3>1, <2>5 DEF IteratorOf
      <3> QED BY <1>1, <1>2, <2>2, <3>2 DEF Answers, callerVars
    <2> QED BY <1>1, <1>2, <1>4, <2>1, <2>3, <2>4, <2>6 DEF CursorOnToken, Reader, IteratorOf, callerVars
  <1> QED BY <1>5, <1>6

\* Removing the last element of a sequence.
LEMMA FrontIs ==
    ASSUME NEW S, NEW s \in Seq(S), s # <<>>
    PROVE  /\ Front(s) \in Seq(S) /\ Len(Front(s)) = Len(s) - 1 /\ Len(s) >= 1
           /\ \A i \in 1 .. Len(s) - 1 : Front(s)[i] = s[i]
  <1>1. Len(s) \in Nat /\ Len(s) >= 1 /\ \A i \in 1 .. Len(s) : s[i] \in S
    OBVIOUS
  <1>2. Front(s) = SubSeq(s, 1, Len(s) - 1)
    BY DEF Front
  <1>3. 1 \in Int /\ Len(s) - 1 \in Int /\ \A i \in 1 .. Len(s) - 1 : s[i] \in S
    BY <1>1
  <1>4. /\ SubSeq(s, 1, Len(s) - 1) \in Seq(S)
        /\ Len(SubSeq(s, 1, Len(s) - 1)) = IF 1 <= Len(s) - 1 THEN Len(s) - 1 - 1 + 1 ELSE 0
        /\ \A i \in 1 .. Len(s) - 1 - 1 + 1 : SubSeq(s, 1, Len(s) - 1)[i] = s[1 + i - 1]
    BY <1>3, SubSeqProperties
  <1> DEFINE f == SubSeq(s, 1, Len(s) - 1)
  <1> HIDE DEF f
  <1>5. f \in Seq(S) /\ Len(f) = Len(s) - 1
    <2>1. f \in Seq(S) /\ Len(f) = IF 1 <= Len(s) - 1 THEN Len(s) - 1 - 1 + 1 ELSE 0
      BY ONLY <1>4, Zenon DEF f
    <2>2. ASSUME NEW n \in Nat, n >= 1, NEW m, m = IF 1 <= n - 1 THEN n - 1 - 1 + 1 ELSE 0
          PROVE  m = n - 1
      BY <2>2
    <2> QED BY ONLY <1>1, <2>1, <2>2
  <1>6. ASSUME NEW i \in 1 .. Len(s) - 1 PROVE f[i] = s[i]
    <2>1. i \in 1 .. Len(s) - 1 - 1 + 1 /\ 1 + i - 1 = i
      BY <1>1
    <2>2. f[i] = s[1 + i - 1]
      BY <2>1, <1>4 DEF f
    <2> QED BY <2>1, <2>2
  <1>7. Front(s) = f
    BY <1>2 DEF f
  <1> QED BY <1>1, <1>5, <1>6, <1>7

\* What is done with the handle an iterator returned.
LEMMA AnswersKeepDtInv ==
    ASSUME DtInv,
           dump_prop \/ dump_children \/ dump_child \/ dump_close
           \/ path_child \/ search_node \/ node_prop_next \/ lookup_end
    PROVE  DtInv'
  <1> USE DEF DtInv
  <1>1. tree' = tree /\ tree \in Trees /\ query' = query /\ job' = job /\ pc = "busy" /\ fn = "none"
    BY DEF dump_prop, dump_children, dump_child, DumpChild, dump_close, DumpClose, path_child, search_node,
           node_prop_next, NodePropNext, lookup_end, InDump, Returned, DtTypeOK
  <1>2. /\ Position' = Position /\ Nodes' = Nodes /\ Props' = Props /\ Handle' = Handle
        /\ fdt_validate' = fdt_validate /\ fdt_root_node' = fdt_root_node
    BY <1>1, SameTree
  <1>3. /\ tree.tokens \subseteq Position /\ Handle = Nodes \union Props /\ Nodes = tree.nodes
        /\ NULL \notin tree.tokens /\ Nodes \subseteq tree.tokens
    BY <1>1, Shape DEF Nodes, Props, Handle
  <1>4. fdt_validate /\ deep = 0 /\ job \in {"dump", "path", "search", "prop"}
    BY <1>1 DEF Reader
  <1>5. /\ \A n \in Nodes : fdt_skip_name(n) \in tree.tokens
        /\ \A q \in Props : fdt_skip_property(q) \in tree.tokens
    BY <1>1, Starts
  <1>6. CASE dump_prop \/ dump_children \/ dump_child \/ dump_close
    <2>1. /\ job = "dump" /\ stack \in Seq(Nodes) /\ stack # <<>> /\ stack[1] = fdt_root_node
          /\ want' = want /\ node' = node
      BY <1>1, <1>3, <1>6 DEF dump_prop, dump_children, dump_child, DumpChild, dump_close, DumpClose,
                              InDump, Frames, DtTypeOK
    <2>2. Innermost \in Nodes
      BY <2>1 DEF Innermost
    <2>3. CASE dump_prop
      <3>1. /\ ret \in Props /\ p' = fdt_skip_property(ret) /\ fn' = "prop" /\ deep' = 0
            /\ UNCHANGED <<pc, ret, stack, part>> /\ part = "props"
        BY <1>1, <2>1, <2>3 DEF dump_prop, InDump, start_prop_iter, Answers
      <3>2. DtTypeOK'
        BY <1>1, <1>2, <1>3, <1>5, <2>1, <3>1 DEF DtTypeOK
      <3> QED BY <1>1, <1>2, <1>3, <1>4, <1>5, <2>1, <3>1, <3>2
              DEF CursorOnToken, Reader, IteratorOf, Frames, Answers, Returned
    <2>4. CASE dump_children
      <3>1. /\ p' = fdt_skip_name(Innermost) /\ fn' = "child" /\ deep' = 0 /\ part' = "children"
            /\ UNCHANGED <<pc, ret, stack>>
        BY <2>4 DEF dump_children, start_child_iter
      <3>2. DtTypeOK'
        BY <1>1, <1>2, <1>3, <1>5, <2>1, <2>2, <3>1 DEF DtTypeOK
      <3> QED BY <1>1, <1>2, <1>3, <1>4, <1>5, <2>1, <2>2, <3>1, <3>2
              DEF CursorOnToken, Reader, IteratorOf, Frames, Answers, Returned
    <2>5. CASE dump_child
      <3>1. /\ ret \in Nodes /\ p' = fdt_skip_name(ret) /\ fn' = "prop" /\ deep' = 0 /\ part' = "props"
            /\ stack' = Append(stack, ret) /\ UNCHANGED <<pc, ret>>
        BY <1>1, <2>1, <2>5 DEF dump_child, DumpChild, start_prop_iter, InDump, Answers
      <3>2. stack' \in Seq(Nodes) /\ stack' # <<>> /\ stack'[1] = fdt_root_node
        BY <2>1, <3>1
      <3>3. DtTypeOK'
        BY <1>1, <1>2, <1>3, <1>5, <2>1, <3>1, <3>2 DEF DtTypeOK
      <3> QED BY <1>1, <1>2, <1>3, <1>4, <1>5, <2>1, <3>1, <3>2, <3>3
              DEF CursorOnToken, Reader, IteratorOf, Frames, Answers, Returned
    <2>6. CASE dump_close
      <3>1. part = "children" /\ part' = part /\ stack' = Front(stack)
        BY <2>6 DEF dump_close, DumpClose
      <3>2. stack' \in Seq(Nodes) /\ Len(stack') = Len(stack) - 1
        BY <2>1, <3>1, FrontIs
      <3>3. CASE Len(stack) = 1
        <4>1. pc' = "done" /\ ret' = NULL /\ UNCHANGED <<fn, p, deep>>
          BY <2>6, <3>3 DEF dump_close, DumpClose, Return
        <4>2. DtTypeOK'
          BY <1>1, <1>2, <1>3, <2>1, <3>1, <3>2, <4>1 DEF DtTypeOK
        <4> QED BY <1>1, <1>4, <4>1, <4>2 DEF CursorOnToken, Reader, Frames, Answers, Returned
      <3>4. CASE Len(stack) # 1
        <4>1. Len(stack) > 1 /\ stack'[1] = fdt_root_node /\ stack' # <<>>
          BY <2>1, <3>1, <3>2, <3>4, FrontIs
        <4>2. Innermost # NULL
          BY <2>2, <1>3
        <4>3. /\ p' = fdt_skip_name(Innermost) /\ fn' = "child" /\ deep' = 1 /\ UNCHANGED <<pc, ret>>
          BY <2>6, <3>4, <4>2 DEF dump_close, DumpClose, start_child_iter
        <4>4. DtTypeOK'
          BY <1>1, <1>2, <1>3, <1>5, <2>1, <2>2, <3>1, <3>2, <4>3 DEF DtTypeOK
        <4> QED BY <1>1, <1>2, <1>3, <1>4, <1>5, <2>1, <2>2, <3>1, <3>2, <4>1, <4>3, <4>4
                DEF CursorOnToken, Reader, IteratorOf, Frames, Answers, Returned
      <3> QED BY <3>3, <3>4
    <2> QED BY <1>6, <2>3, <2>4, <2>5, <2>6
  <1>7. CASE path_child
    <2>1. /\ job = "path" /\ stack' = stack /\ part' = part /\ out' = out
          /\ ret \in Nodes /\ node \in Nodes /\ ret # NULL
          /\ want \in Seq(Range(query.path)) /\ want # <<>>
      BY <1>1, <1>7 DEF path_child, Answers, Frames
    <2>2. CASE ~fdt_name_equal(tree.name[ret], Head(want))
      <3>1. p' = fdt_skip_name(ret) /\ fn' = "child" /\ deep' = 1 /\ UNCHANGED <<pc, ret, node, want>>
        BY <1>7, <2>1, <2>2 DEF path_child, start_child_iter
      <3>2. DtTypeOK'
        BY <1>1, <1>2, <1>3, <1>5, <2>1, <3>1 DEF DtTypeOK
      <3> QED BY <1>1, <1>2, <1>3, <1>4, <1>5, <2>1, <3>1, <3>2
              DEF CursorOnToken, Reader, IteratorOf, Frames, Answers, Returned
    <2>3. CASE fdt_name_equal(tree.name[ret], Head(want)) /\ Len(want) = 1
      <3>1. pc' = "done" /\ ret' = ret /\ UNCHANGED <<fn, p, deep, node, want>>
        BY <1>7, <2>3 DEF path_child, Return
      <3>2. DtTypeOK'
        BY <1>1, <1>2, <1>3, <2>1, <3>1 DEF DtTypeOK
      <3> QED BY <1>1, <1>4, <2>1, <3>1, <3>2 DEF CursorOnToken, Reader, Frames, Answers, Returned
    <2>4. CASE fdt_name_equal(tree.name[ret], Head(want)) /\ Len(want) # 1
      <3>1. /\ p' = fdt_skip_name(ret) /\ fn' = "child" /\ deep' = 0 /\ want' = Tail(want) /\ node' = ret
            /\ UNCHANGED <<pc, ret>>
        BY <1>7, <2>4 DEF path_child, start_child_iter
      <3>2. want' \in Seq(Range(query.path)) /\ want' # <<>>
        <4>1. Len(Tail(want)) = Len(want) - 1 /\ Tail(want) \in Seq(Range(query.path))
          BY <2>1, HeadTailProperties
        <4>2. Len(want) \in Nat /\ Len(want) # 0
          BY <2>1, EmptySeq
        <4>3. Len(Tail(want)) # 0
          BY <4>1, <4>2, <2>4
        <4>4. Tail(want) # <<>>
          <5>1. Len(<<>>) = 0
            OBVIOUS
          <5> QED BY <4>3, <5>1, Zenon
        <4> QED BY <4>1, <4>4, <3>1
      <3>3. DtTypeOK'
        BY <1>1, <1>2, <1>3, <1>5, <2>1, <3>1 DEF DtTypeOK
      <3> QED BY <1>1, <1>2, <1>3, <1>4, <1>5, <2>1, <3>1, <3>2, <3>3
              DEF CursorOnToken, Reader, IteratorOf, Frames, Answers, Returned
    <2> QED BY <2>2, <2>3, <2>4
  <1>8. CASE search_node
    <2>1. /\ job = "search" /\ ret \in Nodes /\ p' = fdt_skip_name(ret) /\ fn' = "node" /\ deep' = 0
          /\ UNCHANGED <<pc, ret, node, stack, part>>
      BY <1>1, <1>8 DEF search_node, start_node_iter, Answers
    <2>2. DtTypeOK'
      BY <1>1, <1>2, <1>3, <1>5, <2>1 DEF DtTypeOK
    <2> QED BY <1>1, <1>2, <1>3, <1>4, <1>5, <2>1, <2>2
            DEF CursorOnToken, Reader, IteratorOf, Frames, Answers, Returned
  <1>9. CASE node_prop_next
    <2>1. job = "prop" /\ ret \in Props /\ ret # NULL /\ UNCHANGED <<node, stack, part>>
      BY <1>1, <1>9 DEF node_prop_next, NodePropNext, Answers
    <2>2. \/ pc' = "done" /\ ret' = ret /\ UNCHANGED <<fn, p, deep>>
          \/ p' = fdt_skip_property(ret) /\ fn' = "prop" /\ deep' = 0 /\ UNCHANGED <<pc, ret>>
      BY <1>9, <2>1 DEF node_prop_next, NodePropNext, Return, start_prop_iter
    <2>3. DtTypeOK'
      BY <1>1, <1>2, <1>3, <1>5, <2>1, <2>2 DEF DtTypeOK
    <2> QED BY <1>1, <1>2, <1>3, <1>4, <1>5, <2>1, <2>2, <2>3
            DEF CursorOnToken, Reader, IteratorOf, Frames, Answers, Returned
  <1>10. CASE lookup_end
    <2>1. pc' = "done" /\ ret' = NULL /\ UNCHANGED <<fn, p, deep, node, stack, part>>
      BY <1>10 DEF lookup_end, Return
    <2>2. DtTypeOK'
      BY <1>1, <1>2, <1>3, <2>1 DEF DtTypeOK
    <2> QED BY <1>1, <1>4, <2>1, <2>2 DEF CursorOnToken, Reader, Frames, Answers, Returned
  <1> QED BY <1>6, <1>7, <1>8, <1>9, <1>10

\* Every call and every step of one keeps the invariant.
LEMMA DtInductive == DtInv /\ [DtNext]_dtVars => DtInv'
  <1> SUFFICES ASSUME DtInv, [DtNext]_dtVars PROVE DtInv'
    OBVIOUS
  <1>1. CASE UNCHANGED dtVars
    <2>1. tree' = tree
      BY <1>1 DEF dtVars
    <2>2. /\ Position' = Position /\ Nodes' = Nodes /\ Props' = Props /\ Handle' = Handle
          /\ fdt_validate' = fdt_validate /\ fdt_root_node' = fdt_root_node
      BY <2>1, SameTree
    <2> QED BY <1>1, <2>2 DEF dtVars, DtInv, DtTypeOK, CursorOnToken, Reader, IteratorOf, Frames,
                              Answers, Returned
  <1>2. CASE fdt_skip_node \/ iter_step
    BY <1>2, IteratorsMove, IteratorsKeepDtInv DEF DtInv
  <1>3. CASE iter_return
    BY <1>3, IteratorsKeepDtInv
  <1> QED BY <1>1, <1>2, <1>3, CallsKeepDtInv, AnswersKeepDtInv DEF DtNext, Progress, Finished

\* Every reachable state of the reader satisfies DtInv, on damaged blobs too.
THEOREM DtInvariance == DtSpec => []DtInv
  BY DtInvInit, DtInductive, PTL DEF DtSpec

\* The reader's state keeps its type on every blob, damaged or not: the handles it
\* returns and keeps are nodes and properties of the tree.
THEOREM DtTypeCorrect == DtSpec => []DtTypeOK
  BY DtInvariance, PTL DEF DtInv

\* On every blob, damaged or not, the iterators only look at tokens: fdt_skip_name
\* and fdt_skip_property never stop inside a name or a value.
THEOREM CursorStays == DtSpec => []CursorOnToken
  BY DtInvariance, PTL DEF DtInv

----------------------------------------------------------------------------
(* Reservations *)

\* The loop of fdt_count_mem_reserve_entries stops at the first entry of zeros, which
\* is the one after the reservations.
LEMMA ReservationsAre ==
    ASSUME tree \in Trees
    PROVE  Reservations = IF fdt_validate THEN Len(tree.reserved) ELSE 0
  <1> DEFINE n == Len(tree.reserved)
             Ends(k) == /\ EndsReservations(tree.rsvmap[k])
                        /\ \A m \in 1 .. k - 1 : ~EndsReservations(tree.rsvmap[m])
             last == CHOOSE k \in DOMAIN tree.rsvmap : Ends(k)
  <1>1. Reserves(tree)
    BY TreesAssumption DEF Layout
  <1>2. n \in Nat /\ n + 1 \in DOMAIN tree.rsvmap /\ DOMAIN tree.rsvmap \subseteq Nat
    BY <1>1 DEF Reserves
  <1>3. \A k \in 1 .. n : ~EndsReservations(tree.rsvmap[k])
    BY <1>1 DEF Reserves, EndsReservations
  <1>4. EndsReservations(tree.rsvmap[n + 1])
    BY <1>1 DEF Reserves, EndsReservations
  <1>5. 0 \notin DOMAIN tree.rsvmap
    BY <1>1 DEF Reserves
  <1> HIDE DEF n
  <1>6. Ends(n + 1)
    BY <1>2, <1>3, <1>4
  <1>7. ASSUME NEW k \in DOMAIN tree.rsvmap, Ends(k) PROVE k = n + 1
    <2>1. k \in Nat /\ k # 0
      BY <1>2, <1>5
    <2>2. ~(k <= n)
      BY <1>3, <1>7, <2>1
    <2>3. ~(n + 1 < k)
      BY <1>2, <1>4, <1>7, <2>1
    <2> QED BY <1>2, <2>1, <2>2, <2>3
  <1>8. Reservations = IF fdt_validate THEN last - 1 ELSE 0
    BY DEF Reservations
  <1> HIDE DEF Ends
  <1>9. last = n + 1
    BY <1>2, <1>6, <1>7
  <1> HIDE DEF last
  <1>10. last - 1 = n
    BY <1>2, <1>9
  <1>11. last - 1 = Len(tree.reserved)
    BY <1>10 DEF n
  <1> QED BY <1>8, <1>11

\* fdt_count_mem_reserve_entries counts every reservation, those from address 0
\* and the empty ones too, and nothing after the entry of zeros.
THEOREM ReservationsCounted == DtSpec => []CountsReservations
  <1>1. DtInit => CountsReservations
    BY DEF DtInit, CountsReservations
  <1>2. DtInv /\ CountsReservations /\ [DtNext]_dtVars => CountsReservations'
    <2> SUFFICES ASSUME DtInv, CountsReservations, [DtNext]_dtVars PROVE CountsReservations'
      OBVIOUS
    <2>1. CASE fdt_count_mem_reserve_entries
      <3>1. tree' = tree /\ tree \in Trees /\ out' = <<Reservations>>
        BY <2>1 DEF fdt_count_mem_reserve_entries, DtInv, DtTypeOK
      <3> QED BY <3>1, ReservationsAre, SameTree DEF CountsReservations
    <2>2. CASE UNCHANGED <<tree, job, out>>
      BY <2>2, SameTree DEF CountsReservations
    <2>3. CASE job' \in {"dump", "path", "search", "prop"}
      BY <2>3 DEF CountsReservations
    <2>4. CASE Progress
      <3>1. pc = "busy" /\ job' = job
        BY <2>4 DEF Progress, fdt_skip_node, SkipNode, iter_step, iter_return, InIterator, callerVars,
             dump_prop, dump_children, dump_child, DumpChild, dump_close, DumpClose, path_child,
             search_node, node_prop_next, NodePropNext, lookup_end, InDump, Returned, DtInv, Reader,
             DtTypeOK
      <3> QED BY <3>1, <2>3 DEF DtInv, Reader
    <2> QED BY <2>1, <2>2, <2>3, <2>4 DEF DtNext, Finished, dtVars, fdt_dump, fdt_node_path,
                                          fdt_node_search_iter, fdt_node_prop
  <1> QED BY <1>1, <1>2, DtInvariance, PTL DEF DtSpec

----------------------------------------------------------------------------
(* The cursor stays in the node that is enumerated *)

EndOf(n) == CHOOSE e \in tree.tokens : Closes(tree, n, e)

\* The cursor is in node n, d nodes further in; and q lies directly in n.
At(n, q, d) == tree.depth[q] = tree.depth[n] + 1 + d /\ n < q /\ q <= EndOf(n)
In(n, q) == Within(tree, n, EndOf(n), q)

Around == IF job = "dump" THEN Innermost ELSE node

Located ==
    ~tree.damaged =>
        /\ fn \in {"child", "prop"} => At(Around, p, deep)
        /\ Returned /\ job # "search" =>
              IF ret = NULL THEN p = EndOf(Around) ELSE In(Around, ret)
        /\ job = "dump" /\ pc = "busy" =>
              /\ \A i \in 1 .. Len(stack) : tree.depth[stack[i]] = i - 1
              /\ \A i \in 1 .. Len(stack) - 1 : In(stack[i], stack[i + 1])

\* Every node has an end.
LEMMA EndIs ==
    ASSUME tree \in Trees, ~tree.damaged, NEW n \in Nodes
    PROVE  EndOf(n) \in tree.tokens /\ Closes(tree, n, EndOf(n))
  <1>1. \E e \in tree.tokens : Closes(tree, n, e)
    BY TreesAssumption DEF Layout, Nested, Nodes
  <1> QED BY <1>1 DEF EndOf

\* The places in a tree do not change while it is read.
LEMMA SameEnds ==
    ASSUME tree' = tree
    PROVE  /\ \A n : EndOf(n)' = EndOf(n)
           /\ \A n, q, d : At(n, q, d)' <=> At(n, q, d)
           /\ \A n, q : In(n, q)' <=> In(n, q)
  BY DEF EndOf, At, In

\* An enumeration starts in its node, and goes on in it after each of its parts.
LEMMA StartsIn ==
    ASSUME tree \in Trees, ~tree.damaged, NEW n \in Nodes
    PROVE  /\ At(n, fdt_skip_name(n), 0)
           /\ \A c \in Nodes : In(n, c) => At(n, fdt_skip_name(c), 1)
           /\ \A q \in Props : In(n, q) => At(n, fdt_skip_property(q), 0)
  <1>1. EndOf(n) \in tree.tokens /\ Closes(tree, n, EndOf(n))
    BY EndIs
  <1>2. n < EndOf(n)
    BY <1>1 DEF Closes
  <1>3. /\ Nodes \subseteq tree.tokens /\ Props \subseteq tree.tokens
        /\ \A q \in tree.tokens : q \in Nat /\ tree.depth[q] \in Nat
    BY Shape
  <1>4. /\ \A c \in Nodes :
              /\ fdt_skip_name(c) \in tree.tokens /\ c < fdt_skip_name(c)
              /\ EndOf(n) <= c \/ fdt_skip_name(c) <= EndOf(n)
              /\ tree.depth[fdt_skip_name(c)] = tree.depth[c] + 1
        /\ \A q \in Props :
              /\ fdt_skip_property(q) \in tree.tokens /\ q < fdt_skip_property(q)
              /\ EndOf(n) <= q \/ fdt_skip_property(q) <= EndOf(n)
              /\ tree.depth[fdt_skip_property(q)] = tree.depth[q]
    BY <1>1, Starts
  <1> DEFINE e == EndOf(n)
  <1>5. e \in Nat /\ n < e
    BY <1>1, <1>2, <1>3
  <1> HIDE DEF e
  <1>6. At(n, fdt_skip_name(n), 0)
    BY <1>3, <1>4, <1>5 DEF At, e
  <1>7. ASSUME NEW c \in Nodes, In(n, c) PROVE At(n, fdt_skip_name(c), 1)
    <2>1. n < c /\ c < e /\ tree.depth[c] = tree.depth[n] + 1
      BY <1>7 DEF In, Within, e
    <2> QED BY <2>1, <1>3, <1>4, <1>5 DEF At, e
  <1>8. ASSUME NEW q \in Props, In(n, q) PROVE At(n, fdt_skip_property(q), 0)
    <2>1. n < q /\ q < e /\ tree.depth[q] = tree.depth[n] + 1
      BY <1>8 DEF In, Within, e
    <2> QED BY <2>1, <1>3, <1>4, <1>5 DEF At, e
  <1> QED BY <1>6, <1>7, <1>8

\* In a node every word the cursor is on is a token of a node's contents, or the
\* END_NODE that closes it.
LEMMA InsideIs ==
    ASSUME tree \in Trees, ~tree.damaged, NEW n \in Nodes, NEW q \in tree.tokens, NEW d \in Nat, At(n, q, d)
    PROVE  /\ Word(q) \in Token \ {FDT_END}
           /\ q = EndOf(n) => d = 0 /\ Word(q) = FDT_END_NODE
           /\ d = 0 /\ Word(q) = FDT_END_NODE => q = EndOf(n)
           /\ q # EndOf(n) /\ d = 0 => In(n, q)
           /\ q # EndOf(n) => q < EndOf(n)
  <1> DEFINE e == EndOf(n)
  <1>1. e \in tree.tokens /\ Closes(tree, n, e)
    BY EndIs
  <1>2. Nested(tree)
    BY TreesAssumption DEF Layout
  <1>3. /\ tree.depth[n] \in Nat /\ n \in Nat /\ q \in Nat /\ e \in Nat
        /\ tree.depth[q] \in Nat
    BY <1>1, Shape
  <1>4. n < q /\ q <= e /\ tree.depth[q] = tree.depth[n] + 1 + d
    BY DEF At
  <1>5. Word(e) = FDT_END_NODE /\ tree.depth[e] = tree.depth[n] + 1
        /\ (n < q /\ q < e /\ Word(q) = FDT_END_NODE => tree.depth[q] > tree.depth[n] + 1)
    BY <1>1 DEF Closes, Word
  <1>6. Word(q) \in Token /\ (Word(q) = FDT_END => e <= q)
    BY <1>1, <1>2 DEF Nested, Word
  <1> HIDE DEF e
  <1>7. Word(q) # FDT_END
    <2>1. Word(q) = FDT_END => q = e
      BY <1>3, <1>4, <1>6
    <2> QED BY <2>1, <1>5 DEF FDT_END, FDT_END_NODE
  <1>8. q = e => d = 0 /\ Word(q) = FDT_END_NODE
    BY <1>3, <1>4, <1>5
  <1>9. d = 0 /\ Word(q) = FDT_END_NODE => q = e
    BY <1>3, <1>4, <1>5
  <1>10. q # e /\ d = 0 => In(n, q)
    BY <1>3, <1>4 DEF In, Within, e
  <1>11. q # e => q < e
    BY <1>3, <1>4
  <1> QED BY <1>6, <1>7, <1>8, <1>9, <1>10, <1>11 DEF e

\* A round of the loop stays in the node.
LEMMA MovesIn ==
    ASSUME DtInv, ~tree.damaged, Moves, fn \in {"child", "prop"}, NEW n \in Nodes, At(n, p, deep)
    PROVE  /\ Word(p) \in Token \ {FDT_END} /\ p' = After(p) /\ p < EndOf(n)
           /\ At(n, p', deep')
           /\ deep = 0 => Word(p) # Wanted /\ Word(p) # FDT_END_NODE
  <1>1. tree \in Trees /\ p \in tree.tokens /\ deep \in Nat
    BY DEF DtInv, DtTypeOK, CursorOnToken
  <1>2. /\ Word(p) \in Token \ {FDT_END}
        /\ p = EndOf(n) => deep = 0 /\ Word(p) = FDT_END_NODE
        /\ p # EndOf(n) => p < EndOf(n)
    BY <1>1, InsideIs
  <1>3. /\ p' = After(p)
        /\ deep' = IF deep > 0
                   THEN IF Word(p) = FDT_BEGIN_NODE THEN deep + 1
                        ELSE IF Word(p) = FDT_END_NODE THEN deep - 1 ELSE deep
                   ELSE IF Word(p) = FDT_BEGIN_NODE THEN 1 ELSE 0
        /\ deep = 0 => Word(p) # Wanted /\ ~GivesUp(Word(p))
    BY <1>2 DEF Moves
  <1>4. deep = 0 => Word(p) # FDT_END_NODE
    BY <1>3 DEF GivesUp
  <1>5. p < EndOf(n)
    BY <1>2, <1>4
  <1>6. EndOf(n) \in tree.tokens
    BY <1>1, EndIs
  <1>7. /\ p' \in tree.tokens /\ p < p' /\ (EndOf(n) <= p \/ p' <= EndOf(n))
        /\ tree.depth[p'] = IF Word(p) = FDT_BEGIN_NODE THEN tree.depth[p] + 1
                            ELSE IF Word(p) = FDT_END_NODE THEN tree.depth[p] - 1
                            ELSE tree.depth[p]
    BY <1>1, <1>2, <1>3, <1>6, Advance
  <1>8. /\ p \in Nat /\ p' \in Nat /\ n \in Nat /\ EndOf(n) \in Nat
        /\ tree.depth[n] \in Nat /\ tree.depth[p] \in Nat
    BY <1>1, <1>6, <1>7, Shape
  <1>9. n < p /\ tree.depth[p] = tree.depth[n] + 1 + deep
    BY DEF At
  <1>10. p' <= EndOf(n) /\ n < p'
    BY <1>5, <1>7, <1>8, <1>9
  <1>11. tree.depth[p'] = tree.depth[n] + 1 + deep'
    BY <1>1, <1>3, <1>4, <1>7, <1>8, <1>9 DEF FDT_BEGIN_NODE, FDT_END_NODE
  <1> QED BY <1>2, <1>3, <1>4, <1>5, <1>10, <1>11 DEF At

\* What an iterator returns lies in the node; NULL is returned at its end.
LEMMA ReturnsIn ==
    ASSUME DtInv, ~tree.damaged, iter_return, fn \in {"child", "prop"}, NEW n \in Nodes, At(n, p, deep)
    PROVE  IF ret' = NULL THEN p = EndOf(n) ELSE ret' = p /\ In(n, p) /\ Word(p) = Wanted
  <1>1. tree \in Trees /\ p \in tree.tokens /\ deep = 0 /\ deep \in Nat
    BY DEF DtInv, DtTypeOK, CursorOnToken, iter_return, InIterator
  <1>2. /\ Word(p) \in Token \ {FDT_END}
        /\ p = EndOf(n) => Word(p) = FDT_END_NODE
        /\ Word(p) = FDT_END_NODE => p = EndOf(n)
        /\ p # EndOf(n) => In(n, p)
    BY <1>1, InsideIs
  <1>3. p # NULL
    BY <1>1, Shape
  <1>4. CASE Word(p) = Wanted
    <2>1. ret' = p
      BY <1>4 DEF iter_return
    <2>2. Word(p) # FDT_END_NODE
      BY <1>4 DEF Wanted, FDT_PROP, FDT_BEGIN_NODE, FDT_END_NODE
    <2> QED BY <1>2, <1>3, <1>4, <2>1, <2>2
  <1>5. CASE Word(p) # Wanted
    <2>1. ret' = NULL /\ GivesUp(Word(p))
      BY <1>5 DEF iter_return
    <2>2. Word(p) = FDT_END_NODE
      BY <2>1, <1>2 DEF GivesUp
    <2> QED BY <1>2, <2>1, <2>2
  <1> QED BY <1>4, <1>5

\* What is enumerated is a node.
LEMMA AroundIs ==
    ASSUME DtInv, pc = "busy", job # "search"
    PROVE  Around \in Nodes
  <1>1. job \in {"dump", "path", "prop"}
    BY DEF DtInv, Reader
  <1>2. CASE job = "dump"
    <2>1. stack \in Seq(Nodes) /\ stack # <<>>
      BY <1>2 DEF DtInv, DtTypeOK, Frames, Nodes
    <2> QED BY <2>1, <1>2 DEF Around, Innermost
  <1> QED BY <1>1, <1>2 DEF DtInv, Frames, Around

\* Before the first call nothing is enumerated.
LEMMA LocatedInit == DtInit => Located
  BY DEF DtInit, Located, Returned

\* The iterators' rounds.
LEMMA IteratorsKeepLocated ==
    ASSUME DtInv, Located, Moves \/ iter_return
    PROVE  Located'
  <1> SUFFICES ASSUME ~tree.damaged' PROVE Located'
    BY DEF Located
  <1>1. /\ tree' = tree /\ tree \in Trees /\ UNCHANGED callerVars /\ fn # "none" /\ pc = "busy"
        /\ ~tree.damaged
    BY DEF Moves, iter_return, DtInv, DtTypeOK, Reader, callerVars, InIterator
  <1>2. /\ Around' = Around
        /\ \A n : EndOf(n)' = EndOf(n)
        /\ \A n, q, d : At(n, q, d)' <=> At(n, q, d)
        /\ \A n, q : In(n, q)' <=> In(n, q)
    BY <1>1, SameEnds DEF Around, Innermost, callerVars
  <1>3. job' = "dump" /\ pc' = "busy" =>
              /\ \A i \in 1 .. Len(stack') : (tree.depth[stack[i]])' = i - 1
              /\ \A i \in 1 .. Len(stack') - 1 : In(stack[i], stack[i + 1])'
    BY <1>1, <1>2 DEF Located, callerVars
  <1>4. CASE job = "search"
    <2>1. fn = "node" /\ job' = "search" /\ fn' \in {"none", "node"}
      BY <1>1, <1>4 DEF DtInv, Reader, IteratorOf, Moves, iter_return, callerVars
    <2> QED BY <2>1, <1>3 DEF Located, Returned
  <1>5. CASE job # "search"
    <2>1. Around \in Nodes
      BY <1>1, <1>5, AroundIs
    <2>2. fn \in {"child", "prop"} /\ At(Around, p, deep)
      BY <1>1, <1>5 DEF DtInv, Reader, IteratorOf, Located
    <2>3. PICK n \in Nodes : n = Around
      BY <2>1
    <2>4. At(n, p, deep)
      BY <2>2, <2>3
    <2>5. CASE Moves
      <3>1. At(n, p', deep') /\ fn' = fn
        BY <1>1, <2>2, <2>4, <2>5, MovesIn DEF Moves
      <3>2. At(Around, p, deep)'
        BY <3>1, <2>3, <1>2
      <3> QED BY <3>1, <3>2, <1>1, <1>3 DEF Located, Returned
    <2>6. CASE iter_return
      <3>1. (IF ret' = NULL THEN p = EndOf(n) ELSE ret' = p /\ In(n, p)) /\ fn' = "none" /\ p' = p
        BY <1>1, <2>2, <2>4, <2>6, ReturnsIn DEF iter_return
      <3>2. IF ret' = NULL THEN p' = EndOf(Around)' ELSE In(Around, ret)'
        BY <3>1, <2>3, <1>2
      <3> QED BY <3>1, <3>2, <1>3 DEF Located
    <2> QED BY <2>5, <2>6
  <1> QED BY <1>4, <1>5

\* The calls of the reader start enumerations in their nodes.
LEMMA CallsKeepLocated ==
    ASSUME DtInv, Located, fdt_count_mem_reserve_entries \/ fdt_dump
                  \/ (\E start \in tree.nodes \union {NULL}, path \in Paths : fdt_node_path(start, path))
                  \/ (\E name \in Names : fdt_node_search_iter(name))
                  \/ \E n \in tree.nodes, name \in PropNames : fdt_node_prop(n, name)
    PROVE  Located'
  <1> SUFFICES ASSUME ~tree.damaged' PROVE Located'
    BY DEF Located
  <1>1. /\ tree' = tree /\ tree \in Trees /\ pc = "idle" /\ ~tree.damaged /\ fn = "none"
    BY DEF fdt_count_mem_reserve_entries, fdt_dump, fdt_node_path, fdt_node_search_iter,
           fdt_node_prop, DtInv, DtTypeOK, Reader
  <1>2. /\ \A n : EndOf(n)' = EndOf(n)
        /\ \A n, q, d : At(n, q, d)' <=> At(n, q, d)
        /\ \A n, q : In(n, q)' <=> In(n, q)
    BY <1>1, SameEnds
  <1>3. fdt_root_node \in Nodes \union {NULL} /\ NULL \notin Nodes /\ Nodes = tree.nodes
        /\ (fdt_root_node # NULL => tree.depth[fdt_root_node] = 0)
    BY <1>1, Root, Shape DEF Nodes
  <1>4. CASE pc' = "done" /\ fn' = fn
    BY <1>1, <1>4 DEF Located, Returned
  <1>5. CASE fdt_count_mem_reserve_entries
    BY <1>4, <1>5 DEF fdt_count_mem_reserve_entries, Return
  <1>6. CASE fdt_dump /\ fdt_root_node # NULL
    <2>1. /\ p' = fdt_skip_name(fdt_root_node) /\ fn' = "prop" /\ deep' = 0 /\ pc' = "busy"
          /\ stack' = <<fdt_root_node>> /\ job' = "dump"
      BY <1>6 DEF fdt_dump, start_prop_iter
    <2>2. Around' = fdt_root_node /\ Len(stack') = 1 /\ stack'[1] = fdt_root_node
      <3>1. ASSUME NEW x PROVE Len(<<x>>) = 1 /\ <<x>>[1] = x
        OBVIOUS
      <3> QED BY <2>1, <3>1 DEF Around, Innermost
    <2>3. PICK n \in Nodes : n = fdt_root_node
      BY <1>3, <1>6
    <2>4. At(n, fdt_skip_name(n), 0)
      BY <1>1, StartsIn
    <2>5. At(Around, p, deep)'
      BY <1>2, <2>1, <2>2, <2>3, <2>4
    <2>6. \A i \in 1 .. Len(stack') : (tree.depth[stack[i]])' = i - 1
      BY <1>1, <1>3, <1>6, <2>2
    <2> QED BY <2>1, <2>2, <2>5, <2>6 DEF Located, Returned
  <1>7. CASE fdt_dump /\ fdt_root_node = NULL
    BY <1>4, <1>7 DEF fdt_dump, Return
  <1>8. ASSUME NEW start \in tree.nodes \union {NULL}, NEW path \in Paths, fdt_node_path(start, path)
        PROVE  Located'
    <2> DEFINE root == IF start = NULL THEN fdt_root_node ELSE start
    <2>1. CASE ~fdt_validate \/ root = NULL \/ path = <<>>
      BY <1>4, <1>8, <2>1 DEF fdt_node_path, Return
    <2>2. CASE fdt_validate /\ root # NULL /\ path # <<>>
      <3>1. /\ p' = fdt_skip_name(root) /\ fn' = "child" /\ deep' = 0 /\ job' = "path" /\ node' = root
        BY <1>8, <2>2 DEF fdt_node_path, start_child_iter
      <3>2. PICK n \in Nodes : n = root
        BY <1>3, <2>2
      <3>3. At(n, fdt_skip_name(n), 0)
        BY <1>1, StartsIn
      <3>4. At(Around, p, deep)'
        BY <1>2, <3>1, <3>2, <3>3 DEF Around
      <3> QED BY <3>1, <3>4 DEF Located, Returned
    <2> QED BY <2>1, <2>2
  <1>9. ASSUME NEW name \in Names, fdt_node_search_iter(name) PROVE Located'
    <2>1. job' = "search" /\ (fn' = "node" \/ (pc' = "done" /\ fn' = fn))
      BY <1>9 DEF fdt_node_search_iter, start_node_iter, Return
    <2> QED BY <2>1, <1>4 DEF Located, Returned
  <1>10. ASSUME NEW n \in tree.nodes, NEW name \in PropNames, fdt_node_prop(n, name) PROVE Located'
    <2>1. CASE ~fdt_validate
      BY <1>4, <1>10, <2>1 DEF fdt_node_prop, Return
    <2>2. CASE fdt_validate
      <3>1. /\ p' = fdt_skip_name(n) /\ fn' = "prop" /\ deep' = 0 /\ job' = "prop" /\ node' = n
        BY <1>10, <2>2 DEF fdt_node_prop, start_prop_iter
      <3>2. At(n, fdt_skip_name(n), 0)
        BY <1>1, <1>3, StartsIn
      <3>3. At(Around, p, deep)'
        BY <1>2, <3>1, <3>2 DEF Around
      <3> QED BY <3>1, <3>3 DEF Located, Returned
    <2> QED BY <2>1, <2>2
  <1> QED BY <1>5, <1>6, <1>7, <1>8, <1>9, <1>10

\* The calls of fdt_dump_helper: going down to a child and coming back from it.
LEMMA DumpKeepsLocated ==
    ASSUME DtInv, Located, dump_prop \/ dump_children \/ dump_child \/ dump_close
    PROVE  Located'
  <1> SUFFICES ASSUME ~tree.damaged' PROVE Located'
    BY DEF Located
  <1>1. /\ tree' = tree /\ tree \in Trees /\ pc = "busy" /\ fn = "none" /\ job = "dump" /\ job' = "dump"
        /\ ~tree.damaged
    BY DEF dump_prop, dump_children, dump_child, DumpChild, dump_close, DumpClose, InDump, Returned, DtInv, DtTypeOK
  <1>2. /\ \A n : EndOf(n)' = EndOf(n)
        /\ \A n, q, d : At(n, q, d)' <=> At(n, q, d)
        /\ \A n, q : In(n, q)' <=> In(n, q)
    BY <1>1, SameEnds
  <1>3. /\ stack \in Seq(Nodes) /\ stack # <<>> /\ Len(stack) \in Nat /\ Len(stack) >= 1
        /\ \A i \in 1 .. Len(stack) : stack[i] \in Nodes
    <2>1. stack \in Seq(Nodes) /\ stack # <<>>
      BY <1>1 DEF DtInv, DtTypeOK, Frames, Nodes
    <2> QED BY <2>1
  <1>4. PICK n \in Nodes : n = Innermost
    BY <1>3 DEF Innermost
  <1>5. /\ \A i \in 1 .. Len(stack) : tree.depth[stack[i]] = i - 1
        /\ \A i \in 1 .. Len(stack) - 1 : In(stack[i], stack[i + 1])
        /\ ret # NULL => In(n, ret)
    BY <1>1, <1>4 DEF Located, Around, Returned
  <1>6. NULL \notin Nodes /\ Nodes \subseteq tree.tokens /\ \A q \in tree.tokens : q \in Nat /\ tree.depth[q] \in Nat
    BY <1>1, Shape
  <1>7. CASE dump_prop
    <2>1. /\ ret \in Props /\ p' = fdt_skip_property(ret) /\ fn' = "prop" /\ deep' = 0 /\ stack' = stack
          /\ ret # NULL
      BY <1>7, <1>1 DEF dump_prop, InDump, start_prop_iter, DtInv, Answers
    <2>2. At(n, fdt_skip_property(ret), 0)
      BY <1>1, <1>5, <2>1, StartsIn
    <2>3. At(Around, p, deep)'
      BY <1>1, <1>2, <1>4, <2>1, <2>2 DEF Around, Innermost
    <2> QED BY <1>1, <1>2, <1>5, <2>1, <2>3 DEF Located, Returned
  <1>8. CASE dump_children
    <2>1. p' = fdt_skip_name(n) /\ fn' = "child" /\ deep' = 0 /\ stack' = stack
      BY <1>4, <1>8 DEF dump_children, start_child_iter
    <2>2. At(n, fdt_skip_name(n), 0)
      BY <1>1, StartsIn
    <2>3. At(Around, p, deep)'
      BY <1>1, <1>2, <1>4, <2>1, <2>2 DEF Around, Innermost
    <2> QED BY <1>1, <1>2, <1>5, <2>1, <2>3 DEF Located, Returned
  <1>9. CASE dump_child
    <2>1. /\ ret \in Nodes /\ p' = fdt_skip_name(ret) /\ fn' = "prop" /\ deep' = 0
          /\ stack' = Append(stack, ret) /\ ret # NULL
      BY <1>9, <1>1 DEF dump_child, DumpChild, InDump, start_prop_iter, DtInv, Answers
    <2>2. PICK c \in Nodes : c = ret
      BY <2>1
    <2>3. /\ Len(stack') = Len(stack) + 1 /\ stack'[Len(stack) + 1] = c
          /\ \A i \in 1 .. Len(stack) : stack'[i] = stack[i]
      BY <1>3, <2>1, <2>2, AppendProperties
    <2>4. At(c, fdt_skip_name(c), 0)
      BY <1>1, StartsIn
    <2>5. Around' = c
      BY <1>1, <2>3 DEF Around, Innermost
    <2>6. At(Around, p, deep)'
      BY <1>2, <2>1, <2>2, <2>4, <2>5
    <2>7. In(n, c) /\ tree.depth[c] = tree.depth[n] + 1
      BY <1>5, <2>1, <2>2 DEF In, Within
    <2>8. stack[Len(stack)] = n /\ tree.depth[n] = Len(stack) - 1
      BY <1>3, <1>4, <1>5 DEF Innermost
    <2>9. ASSUME NEW i \in 1 .. Len(stack') PROVE (tree.depth[stack[i]])' = i - 1
      <3>1. CASE i = Len(stack) + 1
        BY <1>1, <1>3, <2>3, <2>7, <2>8, <3>1
      <3>2. CASE i # Len(stack) + 1
        <4>1. i \in 1 .. Len(stack)
          BY <1>3, <2>3, <3>2
        <4> QED BY <4>1, <1>1, <1>5, <2>3
      <3> QED BY <3>1, <3>2
    <2>10. ASSUME NEW i \in 1 .. Len(stack') - 1 PROVE In(stack[i], stack[i + 1])'
      <3>1. i \in 1 .. Len(stack)
        BY <1>3, <2>3
      <3>2. CASE i = Len(stack)
        BY <1>2, <2>3, <2>7, <2>8, <3>1, <3>2
      <3>3. CASE i # Len(stack)
        <4>1. i \in 1 .. Len(stack) - 1 /\ i + 1 \in 1 .. Len(stack)
          BY <1>3, <3>1, <3>3
        <4> QED BY <4>1, <3>1, <1>2, <1>5, <2>3
      <3> QED BY <3>2, <3>3
    <2> QED BY <2>1, <2>6, <2>9, <2>10 DEF Located, Returned
  <1>10. CASE dump_close
    <2>1. CASE Len(stack) = 1
      <3>1. pc' = "done" /\ fn' = fn
        BY <1>10, <2>1 DEF dump_close, DumpClose, Return
      <3> QED BY <1>1, <3>1 DEF Located, Returned
    <2>2. CASE Len(stack) # 1
      <3>1. n # NULL
        BY <1>6
      <3>2. /\ p' = fdt_skip_name(n) /\ fn' = "child" /\ deep' = 1 /\ stack' = Front(stack)
        BY <1>4, <1>10, <2>2, <3>1 DEF dump_close, DumpClose, start_child_iter
      <3>3. /\ Len(stack') = Len(stack) - 1 /\ Len(stack) - 1 \in 1 .. Len(stack) - 1
            /\ \A i \in 1 .. Len(stack) - 1 : stack'[i] = stack[i]
        <4>1. Len(Front(stack)) = Len(stack) - 1 /\ \A i \in 1 .. Len(stack) - 1 : Front(stack)[i] = stack[i]
          BY ONLY <1>3, FrontIs
        <4>2. Len(stack) - 1 \in 1 .. Len(stack) - 1
          <5>1. ASSUME NEW m \in Nat, m >= 1, m # 1 PROVE m - 1 \in 1 .. m - 1
            BY ONLY m \in Nat, m >= 1, m # 1
          <5> QED BY ONLY <1>3, <2>2, <5>1
        <4> QED BY ONLY <4>1, <4>2, <3>2
      <3>4. PICK a \in Nodes : a = stack[Len(stack) - 1]
        BY <1>3, <3>3
      <3>5. In(a, n)
        <4>1. In(stack[Len(stack) - 1], stack[Len(stack) - 1 + 1])
          BY <1>5, <3>3
        <4>2. Len(stack) - 1 + 1 = Len(stack)
          BY <1>3
        <4> QED BY <4>1, <4>2, <3>4, <1>4 DEF Innermost
      <3>6. At(a, fdt_skip_name(n), 1)
        BY <1>1, <3>5, StartsIn
      <3>7. Around' = a
        BY <1>1, <3>3, <3>4 DEF Around, Innermost
      <3>8. At(Around, p, deep)'
        BY <1>2, <3>2, <3>6, <3>7
      <3>9. ASSUME NEW i \in 1 .. Len(stack') PROVE (tree.depth[stack[i]])' = i - 1
        BY <1>1, <1>3, <1>5, <3>3
      <3>10. ASSUME NEW i \in 1 .. Len(stack') - 1 PROVE In(stack[i], stack[i + 1])'
        <4>1. i \in 1 .. Len(stack) - 1 /\ i + 1 \in 1 .. Len(stack) - 1
          BY <1>3, <3>3
        <4> QED BY <4>1, <1>2, <1>5, <3>3
      <3> QED BY <3>2, <3>8, <3>9, <3>10 DEF Located, Returned
    <2> QED BY <2>1, <2>2
  <1> QED BY <1>7, <1>8, <1>9, <1>10

\* The lookups.
LEMMA LookupsKeepLocated ==
    ASSUME DtInv, Located, path_child \/ search_node \/ node_prop_next \/ lookup_end
    PROVE  Located'
  <1> SUFFICES ASSUME ~tree.damaged' PROVE Located'
    BY DEF Located
  <1>1. /\ tree' = tree /\ tree \in Trees /\ pc = "busy" /\ fn = "none" /\ job' = job /\ job # "dump"
        /\ ~tree.damaged
    BY DEF path_child, search_node, node_prop_next, NodePropNext, lookup_end, Returned, DtInv, DtTypeOK
  <1>2. /\ \A n : EndOf(n)' = EndOf(n)
        /\ \A n, q, d : At(n, q, d)' <=> At(n, q, d)
    BY <1>1, SameEnds
  <1>3. job # "search" => Around \in Nodes /\ Around = node
    BY <1>1, AroundIs DEF Around
  <1>4. job # "search" /\ ret # NULL => In(node, ret)
    BY <1>1, <1>3 DEF Located, Returned
  <1>5. CASE pc' = "done" /\ fn' = fn
    BY <1>1, <1>5 DEF Located, Returned
  <1>6. CASE path_child
    <2>1. job = "path" /\ ret \in Nodes /\ ret # NULL /\ node \in Nodes
      BY <1>3, <1>6 DEF path_child, DtInv, Answers
    <2>2. \/ pc' = "done" /\ fn' = fn
          \/ p' = fdt_skip_name(ret) /\ deep' = 1 /\ fn' = "child" /\ node' = node
          \/ p' = fdt_skip_name(ret) /\ deep' = 0 /\ fn' = "child" /\ node' = ret
      BY <1>6, <2>1 DEF path_child, start_child_iter, Return
    <2>3. At(node, fdt_skip_name(ret), 1) /\ At(ret, fdt_skip_name(ret), 0)
      BY <1>1, <1>4, <2>1, StartsIn
    <2>4. fn' # "none" => At(Around, p, deep)'
      BY <1>1, <1>2, <2>1, <2>2, <2>3 DEF Around
    <2> QED BY <1>1, <1>5, <2>2, <2>4 DEF Located, Returned
  <1>7. CASE search_node
    BY <1>1, <1>7 DEF search_node, start_node_iter, Located, Returned
  <1>8. CASE node_prop_next
    <2>1. job = "prop" /\ ret \in Props /\ ret # NULL /\ node \in Nodes /\ node' = node
      BY <1>3, <1>8 DEF node_prop_next, NodePropNext, DtInv, Answers
    <2>2. \/ pc' = "done" /\ fn' = fn
          \/ p' = fdt_skip_property(ret) /\ deep' = 0 /\ fn' = "prop"
      BY <1>8, <2>1 DEF node_prop_next, NodePropNext, start_prop_iter, Return
    <2>3. At(node, fdt_skip_property(ret), 0)
      BY <1>1, <1>4, <2>1, StartsIn
    <2>4. fn' # "none" => At(Around, p, deep)'
      BY <1>1, <1>2, <2>1, <2>2, <2>3 DEF Around
    <2> QED BY <1>1, <1>5, <2>2, <2>4 DEF Located, Returned
  <1>9. CASE lookup_end
    BY <1>5, <1>9 DEF lookup_end, Return
  <1> QED BY <1>6, <1>7, <1>8, <1>9

\* No step takes the cursor out of the node that is enumerated.
LEMMA LocatedInductive == DtInv /\ Located /\ [DtNext]_dtVars => Located'
  <1> SUFFICES ASSUME DtInv, Located, [DtNext]_dtVars PROVE Located'
    OBVIOUS
  <1>1. CASE UNCHANGED dtVars
    <2>1. tree' = tree
      BY <1>1 DEF dtVars
    <2>2. /\ \A n : EndOf(n)' = EndOf(n)
          /\ \A n, q, d : At(n, q, d)' <=> At(n, q, d)
          /\ \A n, q : In(n, q)' <=> In(n, q)
      BY <2>1, SameEnds
    <2>3. Around' = Around
      BY <1>1 DEF dtVars, Around, Innermost
    <2> QED BY <1>1, <2>2, <2>3 DEF dtVars, Located, Returned
  <1>2. CASE fdt_skip_node \/ iter_step
    BY <1>2, IteratorsMove, IteratorsKeepLocated DEF DtInv
  <1>3. CASE iter_return
    BY <1>3, IteratorsKeepLocated
  <1> QED BY <1>1, <1>2, <1>3, CallsKeepLocated, DumpKeepsLocated, LookupsKeepLocated
          DEF DtNext, Progress, Finished

\* Every reachable state satisfies Located: on an undamaged blob an enumeration of a
\* node's children or properties stays within that node.
THEOREM LocatedInvariance == DtSpec => [](DtInv /\ Located)
  BY DtInvariance, LocatedInit, LocatedInductive, PTL DEF DtSpec

\* fdt_skip_node counts the nodes it is in on every undamaged blob, however deep
\* its nodes are nested: "deep" is the nesting at the cursor, measured from the
\* parts of the node that is enumerated.
THEOREM SkipsCounted == DtSpec => []SkipCountsDepth
  <1>1. Located => SkipCountsDepth
    BY DEF Located, SkipCountsDepth, At, Around
  <1> QED BY <1>1, LocatedInvariance, PTL

----------------------------------------------------------------------------
(* The lookups have seen all that lies before the cursor *)

\* What lies directly in a node: the properties it owns, and its children.
LEMMA PartsAre ==
    ASSUME tree \in Trees, ~tree.damaged, NEW n \in Nodes
    PROVE  /\ \A q \in Props : tree.owner[q] = n <=> In(n, q)
           /\ \A q \in Nodes : tree.parent[q] = n <=> In(n, q)
  <1>1. Closes(tree, n, EndOf(n))
    BY EndIs
  <1> QED BY <1>1 DEF Closes, In, Nodes, Props

\* An undamaged blob without a root holds no node and no property.
LEMMA Rootless ==
    ASSUME tree \in Trees, ~tree.damaged, fdt_validate, fdt_root_node = NULL
    PROVE  Nodes = {} /\ Props = {}
  <1>1. PICK first \in tree.tokens :
           /\ Word(first) \notin {FDT_NOP, FDT_BEGIN_NODE} /\ tree.depth[first] = 0
           /\ \A r \in tree.tokens : r < first => Word(r) = FDT_NOP
    BY Root
  <1>2. Nested(tree) /\ first \in Nat
    BY TreesAssumption, Shape DEF Layout
  <1>3. ASSUME NEW n \in Nodes PROVE FALSE
    <2>1. n \in tree.tokens /\ Word(n) = FDT_BEGIN_NODE /\ n \in Nat
      BY Shape
    <2>2. first < n
      BY <1>1, <1>2, <2>1 DEF FDT_NOP, FDT_BEGIN_NODE
    <2>3. Word(first) \in Token /\ (Word(first) = FDT_END => n <= first)
      BY <1>2, <2>1 DEF Nested, Word
    <2>4. CASE Word(first) = FDT_PROP
      <3>1. first \in Props
        BY <2>4, Shape
      <3>2. tree.owner[first] \in Nodes
        BY <1>2, <3>1 DEF Nested, Props, Nodes
      <3>3. In(tree.owner[first], first)
        BY <3>1, <3>2, PartsAre
      <3>4. tree.owner[first] \in tree.tokens /\ tree.owner[first] < first
            /\ Word(tree.owner[first]) = FDT_BEGIN_NODE
        BY <3>2, <3>3, Shape DEF In, Within
      <3> QED BY <1>1, <3>4 DEF FDT_NOP, FDT_BEGIN_NODE
    <2>5. CASE Word(first) = FDT_END_NODE
      <3>1. Word(first) \in Token \ {FDT_END}
        BY <2>3, <2>5 DEF FDT_END, FDT_END_NODE
      <3>2. After(first) \in tree.tokens /\ tree.depth[After(first)] = tree.depth[first] - 1
        BY <2>5, <3>1, Advance DEF FDT_BEGIN_NODE, FDT_END_NODE
      <3>3. tree.depth[After(first)] \in Nat
        BY <3>2, Shape
      <3> QED BY <1>1, <3>2, <3>3
    <2> QED BY <1>1, <1>2, <2>1, <2>2, <2>3, <2>4, <2>5 DEF Token
  <1>4. \A q \in Props : tree.owner[q] \in Nodes
    BY <1>2 DEF Nested, Nodes, Props
  <1> QED BY <1>3, <1>4

\* The loops pass by no part of the node that the iterator is looking for.
LEMMA NonePassed ==
    ASSUME DtInv, ~tree.damaged, Moves, fn \in {"child", "prop"}, NEW n \in Nodes, At(n, p, deep),
           NEW r \in IF fn = "prop" THEN Props ELSE Nodes, In(n, r), r < p'
    PROVE  r < p
  <1>1. tree \in Trees /\ p \in tree.tokens /\ deep \in Nat
    BY DEF DtInv, DtTypeOK, CursorOnToken
  <1>2. Word(p) \in Token \ {FDT_END} /\ p' = After(p) /\ (deep = 0 => Word(p) # Wanted)
    BY MovesIn
  <1>3. r \in tree.tokens /\ Word(r) = Wanted
    BY <1>1, Shape DEF Wanted
  <1>4. /\ p \in Nat /\ r \in Nat /\ After(p) \in Nat /\ (r <= p \/ After(p) <= r)
        /\ tree.depth[n] \in Nat
    BY <1>1, <1>2, <1>3, Shape, Advance
  <1>5. tree.depth[p] = tree.depth[n] + 1 + deep /\ tree.depth[r] = tree.depth[n] + 1
    BY DEF At, In, Within
  <1>6. r # p
    BY <1>1, <1>2, <1>3, <1>4, <1>5
  <1> QED BY <1>2, <1>4, <1>6

\* The loop of fdt_node_prop.
NoneNamed(q) == \A r \in Props : tree.owner[r] = query.node /\ r < q => tree.propname[r] # query.name

PropSearch ==
    job = "prop" /\ ~tree.damaged =>
        /\ pc = "busy" => node = query.node /\ NoneNamed(p) /\ (Returned /\ ret # NULL => ret = p)
        /\ PropOfThatNode

\* Every step of fdt_node_prop keeps it, and the other functions do not touch it.
LEMMA PropSearchInductive == DtInv /\ Located /\ PropSearch /\ [DtNext]_dtVars => PropSearch'
  <1> SUFFICES ASSUME DtInv, Located, PropSearch, [DtNext]_dtVars,
                      job' = "prop", ~tree.damaged' PROVE PropSearch'
    BY DEF PropSearch
  <1> DEFINE named == {q \in DOMAIN tree.owner :
                        tree.owner[q] = query.node /\ tree.propname[q] = query.name}
  <1>1. CASE UNCHANGED dtVars
    <2>1. Props' = Props /\ (fdt_validate' <=> fdt_validate)
      BY <1>1, SameTree DEF dtVars
    <2>2. NoneNamed(p)' <=> NoneNamed(p)
      BY <1>1, <2>1 DEF dtVars, NoneNamed
    <2>3. PropOfThatNode' <=> PropOfThatNode
      BY <1>1, <2>1 DEF dtVars, PropOfThatNode
    <2> QED BY <1>1, <2>2, <2>3 DEF dtVars, PropSearch, Returned
  <1>2. ASSUME NEW n \in tree.nodes, NEW name \in PropNames, fdt_node_prop(n, name) PROVE PropSearch'
    <2>1. /\ tree' = tree /\ tree \in Trees /\ n \in Nodes
          /\ query' = [node |-> n, name |-> name] /\ node' = n
      BY <1>2 DEF fdt_node_prop, DtInv, DtTypeOK, Nodes
    <2>2. CASE ~fdt_validate
      <3>1. pc' = "done" /\ ~fdt_validate'
        BY <1>2, <2>1, <2>2, SameTree DEF fdt_node_prop, Return
      <3> QED BY <3>1 DEF PropSearch, PropOfThatNode
    <2>3. CASE fdt_validate
      <3>1. p' = fdt_skip_name(n) /\ pc' = "busy" /\ fn' = "prop"
        BY <1>2, <2>3 DEF fdt_node_prop, start_prop_iter
      <3>2. ASSUME NEW r \in Props, tree.owner[r] = n PROVE ~(r < fdt_skip_name(n))
        <4>1. In(n, r)
          BY <1>2, <2>1, <3>2, PartsAre
        <4>2. n < r /\ r \in tree.tokens /\ r \in Nat /\ n \in Nat
          BY <2>1, <4>1, Shape DEF In, Within
        <4>3. fdt_skip_name(n) \in Nat /\ (r <= n \/ fdt_skip_name(n) <= r)
          BY <2>1, <4>2, Starts, Shape
        <4> QED BY <4>2, <4>3
      <3>3. NoneNamed(p)'
        BY <2>1, <3>1, <3>2 DEF NoneNamed, Props
      <3> QED BY <2>1, <3>1, <3>3 DEF PropSearch, PropOfThatNode, Returned
    <2> QED BY <2>2, <2>3
  <1>3. CASE Progress
    <2>1. /\ tree' = tree /\ tree \in Trees /\ job = "prop" /\ pc = "busy" /\ query' = query /\ node' = node
          /\ ~tree.damaged
      BY <1>3 DEF Progress, fdt_skip_node, SkipNode, iter_step, iter_return, InIterator, callerVars,
             dump_prop, dump_children, dump_child, DumpChild, dump_close, DumpClose, path_child,
             search_node, node_prop_next, NodePropNext, lookup_end, InDump, Returned, DtInv, Reader,
             DtTypeOK
    <2>2. node = query.node /\ NoneNamed(p) /\ (Returned /\ ret # NULL => ret = p) /\ node \in Nodes
      BY <2>1 DEF PropSearch, DtInv, Frames
    <2>3. PICK n \in Nodes : n = node
      BY <2>2
    <2>4. \A q \in Props : tree.owner[q] = n <=> In(n, q)
      BY <2>1, PartsAre
    <2>5. Props' = Props
      BY <2>1, SameTree
    <2>6. /\ \A q \in tree.tokens : q \in Nat
          /\ Props \subseteq tree.tokens /\ NULL \notin tree.tokens
      BY <2>1, Shape
    <2>7. CASE fdt_skip_node \/ iter_step
      <3>1. Moves /\ fn = "prop" /\ At(n, p, deep)
        BY <2>1, <2>3, <2>7, IteratorsMove DEF DtInv, Reader, IteratorOf, Located, Moves, Around
      <3>2. ASSUME NEW r \in Props, tree.owner[r] = n, r < p' PROVE r < p
        BY <2>1, <2>4, <3>1, <3>2, NonePassed
      <3>3. NoneNamed(p)'
        BY <2>1, <2>2, <2>3, <2>5, <3>2 DEF NoneNamed
      <3>4. fn' = fn /\ pc' = pc
        BY <3>1 DEF Moves, callerVars
      <3> QED BY <2>1, <2>2, <3>1, <3>3, <3>4 DEF PropSearch, PropOfThatNode, Returned
    <2>8. CASE iter_return
      <3>1. p' = p /\ pc' = pc /\ (ret' # NULL => ret' = p)
        BY <2>8 DEF iter_return, callerVars
      <3>2. NoneNamed(p)'
        BY <2>1, <2>2, <2>5, <3>1 DEF NoneNamed
      <3> QED BY <2>1, <2>2, <3>1, <3>2 DEF PropSearch, PropOfThatNode
    <2>9. CASE node_prop_next
      <3>1. Returned /\ ret = p /\ ret \in Props /\ In(n, ret) /\ ret # NULL
        BY <2>1, <2>2, <2>3, <2>9 DEF node_prop_next, NodePropNext, DtInv, Answers, Located, Around
      <3>2. CASE tree.propname[ret] = query.name
        <4>1. pc' = "done" /\ ret' = ret
          BY <2>9, <3>2 DEF node_prop_next, NodePropNext, Return
        <4>2. ret \in named
          BY <2>2, <2>3, <2>4, <3>1, <3>2 DEF Props
        <4>3. \A q \in named : ~(q < ret)
          BY <2>2, <3>1 DEF NoneNamed, Props
        <4>4. \A q \in named : ret <= q
          BY <4>3, <2>6, <3>1 DEF Props
        <4>5. PropOfThatNode'
          BY <2>1, <4>1, <4>2, <4>4 DEF PropOfThatNode
        <4> QED BY <4>1, <4>5 DEF PropSearch
      <3>3. CASE tree.propname[ret] # query.name
        <4>1. pc' = pc /\ p' = fdt_skip_property(ret) /\ fn' = "prop"
          BY <2>9, <3>1, <3>3 DEF node_prop_next, NodePropNext, start_prop_iter
        <4>2. fdt_skip_property(ret) \in Nat
              /\ \A r \in tree.tokens : r <= ret \/ fdt_skip_property(ret) <= r
          BY <2>1, <2>6, <3>1, Starts
        <4>3. ASSUME NEW r \in Props, r < p' PROVE r < p \/ r = ret
          BY <2>6, <3>1, <4>1, <4>2, <4>3
        <4>4. NoneNamed(p)'
          BY <2>1, <2>2, <2>5, <3>3, <4>3 DEF NoneNamed
        <4> QED BY <2>1, <2>2, <4>1, <4>4 DEF PropSearch, PropOfThatNode, Returned
      <3> QED BY <3>2, <3>3
    <2>10. CASE lookup_end
      <3>1. pc' = "done" /\ ret' = NULL /\ p = EndOf(n)
        BY <2>1, <2>3, <2>10 DEF lookup_end, Return, Located, Around
      <3>2. ASSUME NEW q \in Props, tree.owner[q] = query.node PROVE q < p
        BY <2>2, <2>3, <2>4, <3>1, <3>2 DEF In, Within
      <3>3. named = {}
        BY <2>2, <3>2 DEF NoneNamed, Props
      <3>4. PropOfThatNode'
        BY <2>1, <3>1, <3>3 DEF PropOfThatNode
      <3> QED BY <3>1, <3>4 DEF PropSearch
    <2>11. ~dump_prop /\ ~dump_children /\ ~dump_child /\ ~dump_close /\ ~path_child /\ ~search_node
      BY <2>1 DEF dump_prop, dump_children, dump_child, DumpChild, dump_close, DumpClose, path_child,
                  search_node, InDump
    <2> QED BY <1>3, <2>7, <2>8, <2>9, <2>10, <2>11 DEF Progress
  <1> QED BY <1>1, <1>2, <1>3 DEF DtNext, Finished, fdt_count_mem_reserve_entries, fdt_dump, fdt_node_path,
                                  fdt_node_search_iter

\* fdt_node_prop returns the first property of that name of the node itself, in
\* every undamaged blob, and NULL if the node has none; never one of a node in it.
THEOREM PropFound == DtSpec => []PropOfThatNode
  <1>1. DtInit => PropSearch
    BY DEF DtInit, PropSearch
  <1>2. PropSearch => PropOfThatNode
    BY DEF PropSearch, PropOfThatNode
  <1> QED BY <1>1, <1>2, LocatedInvariance, PropSearchInductive, PTL DEF DtSpec

\* Comparing names the way the code does finds the names that denote a node.
LEMMA NamesCompare ==
    ASSUME NEW n, NEW m, IsName(n), IsName(m)
    PROVE  fdt_name_equal(n, m) <=> Denotes(m, n)
  <1>1. n = [base |-> n.base, unit |-> n.unit] /\ m = [base |-> m.base, unit |-> m.unit]
    BY DEF IsName
  <1>2. [n EXCEPT !.unit = NULL] = [base |-> n.base, unit |-> NULL]
    BY <1>1
  <1>3. m = n <=> m.base = n.base /\ m.unit = n.unit
    BY <1>1
  <1>4. m = [base |-> n.base, unit |-> NULL] <=> m.base = n.base /\ m.unit = NULL
    BY <1>1
  <1> QED BY <1>2, <1>3, <1>4 DEF fdt_name_equal, Denotes

\* The loop over fdt_node_search_iter.
Below(q) == {n \in Nodes : fdt_root_node < n /\ n < q /\ Denotes(query.name, tree.name[n])}
Increasing(s) == \A i, j \in 1 .. Len(s) : i < j => s[i] < s[j]

NodeSearch ==
    job = "search" /\ ~tree.damaged =>
        /\ pc = "busy" =>
              /\ IsName(query.name) /\ deep = 0 /\ fdt_root_node < p
              /\ out \in Seq(Nodes) /\ {out[i] : i \in 1 .. Len(out)} = Below(p) /\ Increasing(out)
              /\ Returned => IF ret = NULL THEN Word(p) = FDT_END /\ p \in tree.tokens ELSE ret = p
        /\ SearchYieldsAll

\* Adding an element to a sequence adds it to the set of the elements.
LEMMA AppendIs ==
    ASSUME NEW S, NEW s \in Seq(S), NEW x \in S
    PROVE  /\ Append(s, x) \in Seq(S) /\ Len(Append(s, x)) = Len(s) + 1 /\ Len(s) \in Nat
           /\ \A i \in 1 .. Len(s) : Append(s, x)[i] = s[i] /\ s[i] \in S
           /\ Append(s, x)[Len(s) + 1] = x
           /\ {Append(s, x)[i] : i \in 1 .. Len(s) + 1} = {s[i] : i \in 1 .. Len(s)} \union {x}
  <1>1. /\ Append(s, x) \in Seq(S) /\ Len(Append(s, x)) = Len(s) + 1 /\ Len(s) \in Nat
        /\ \A i \in 1 .. Len(s) : Append(s, x)[i] = s[i] /\ s[i] \in S
        /\ Append(s, x)[Len(s) + 1] = x
    BY AppendProperties
  <1> DEFINE t == Append(s, x)
  <1> HIDE DEF t
  <1>2. \A i \in 1 .. Len(s) + 1 : i \in 1 .. Len(s) \/ i = Len(s) + 1
    BY <1>1
  <1>3. Len(s) + 1 \in 1 .. Len(s) + 1 /\ \A i \in 1 .. Len(s) : i \in 1 .. Len(s) + 1
    BY <1>1
  <1>4. (\A i \in 1 .. Len(s) : t[i] = s[i]) /\ t[Len(s) + 1] = x
    BY <1>1 DEF t
  <1>5. {t[i] : i \in 1 .. Len(s) + 1} = {s[i] : i \in 1 .. Len(s)} \union {x}
    BY ONLY <1>2, <1>3, <1>4
  <1> QED BY <1>1, <1>5 DEF t

\* A larger element at the end keeps a sequence in order.
LEMMA IncreasingAppend ==
    ASSUME NEW s \in Seq(Nat), Increasing(s), NEW x \in Nat, \A i \in 1 .. Len(s) : s[i] < x
    PROVE  Increasing(Append(s, x))
  <1>1. /\ Len(Append(s, x)) = Len(s) + 1 /\ Len(s) \in Nat
        /\ \A i \in 1 .. Len(s) : Append(s, x)[i] = s[i]
        /\ Append(s, x)[Len(s) + 1] = x
    BY AppendIs
  <1> DEFINE t == Append(s, x)
  <1> HIDE DEF t
  <1>2. ASSUME NEW i \in 1 .. Len(s) + 1, NEW j \in 1 .. Len(s) + 1, i < j PROVE t[i] < t[j]
    <2>1. i \in 1 .. Len(s) /\ (j \in 1 .. Len(s) \/ j = Len(s) + 1)
      BY <1>1, <1>2
    <2>2. t[i] = s[i] /\ (j \in 1 .. Len(s) => t[j] = s[j]) /\ t[Len(s) + 1] = x
      BY <1>1, <2>1 DEF t
    <2> QED BY <1>2, <2>1, <2>2 DEF Increasing
  <1> QED BY <1>1, <1>2 DEF t, Increasing

\* Every step of fdt_node_search_iter keeps it.
LEMMA NodeSearchInductive == DtInv /\ NodeSearch /\ [DtNext]_dtVars => NodeSearch'
  <1> SUFFICES ASSUME DtInv, NodeSearch, [DtNext]_dtVars,
                      job' = "search", ~tree.damaged' PROVE NodeSearch'
    BY DEF NodeSearch
  <1>1. CASE UNCHANGED dtVars
    <2>1. Nodes' = Nodes /\ (fdt_validate' <=> fdt_validate) /\ fdt_root_node' = fdt_root_node /\ Word(p)' = Word(p)
      BY <1>1, SameTree DEF dtVars, Word
    <2>2. Below(p)' = Below(p) /\ (Increasing(out)' <=> Increasing(out))
      BY <1>1, <2>1 DEF dtVars, Below, Increasing
    <2>3. SearchYieldsAll' <=> SearchYieldsAll
      BY <1>1, <2>1 DEF dtVars, SearchYieldsAll
    <2> QED BY <1>1, <2>1, <2>2, <2>3 DEF dtVars, NodeSearch, Returned
  <1>2. ASSUME NEW name \in Names, fdt_node_search_iter(name) PROVE NodeSearch'
    <2>1. /\ tree' = tree /\ tree \in Trees /\ query' = [name |-> name] /\ out' = out /\ out = <<>>
          /\ ~tree.damaged
      BY <1>2 DEF fdt_node_search_iter, DtInv, DtTypeOK, Reader
    <2>2. Nodes' = Nodes /\ (fdt_validate' <=> fdt_validate) /\ fdt_root_node' = fdt_root_node
      BY <2>1, SameTree
    <2>3. out \in Seq(Nodes) /\ {out[i] : i \in 1 .. Len(out)} = {} /\ Increasing(out)
      BY <2>1 DEF Increasing
    <2>4. CASE fdt_root_node = NULL
      <3>1. pc' = "done"
        BY <1>2, <2>4 DEF fdt_node_search_iter, Return
      <3>2. fdt_validate => Nodes = {}
        BY <2>1, <2>4, Rootless
      <3>3. SearchYieldsAll'
        BY <2>1, <2>2, <2>3, <3>2 DEF SearchYieldsAll, Nodes, Increasing
      <3> QED BY <3>1, <3>3 DEF NodeSearch
    <2>5. CASE fdt_root_node # NULL
      <3>1. PICK root \in Nodes : root = fdt_root_node
        BY <2>1, <2>5, Root
      <3>2. p' = fdt_skip_name(root) /\ pc' = "busy" /\ deep' = 0 /\ fn' = "node"
        BY <1>2, <2>5, <3>1 DEF fdt_node_search_iter, start_node_iter
      <3>3. Below(p)' = {}
        <4>1. ASSUME NEW n \in Nodes, root < n PROVE ~(n < fdt_skip_name(root))
          <5>1. n \in tree.tokens /\ n \in Nat /\ root \in Nat
            BY <2>1, Shape
          <5>2. fdt_skip_name(root) \in Nat /\ (n <= root \/ fdt_skip_name(root) <= n)
            BY <2>1, <5>1, Starts, Shape
          <5> QED BY <4>1, <5>1, <5>2
        <4> QED BY <2>2, <3>1, <3>2, <4>1 DEF Below
      <3>4. IsName(query'.name)
        BY <2>1, NamesAssumption
      <3>5. Increasing(out')
        BY <2>1, <2>3
      <3>6. root < p'
        BY <2>1, <3>2, Starts
      <3> QED BY <2>1, <2>2, <2>3, <3>1, <3>2, <3>3, <3>4, <3>5, <3>6 DEF NodeSearch, Returned, SearchYieldsAll, Increasing
    <2> QED BY <2>4, <2>5
  <1>3. CASE Progress
    <2>1. /\ tree' = tree /\ tree \in Trees /\ job = "search" /\ pc = "busy" /\ query' = query
          /\ ~tree.damaged
      BY <1>3 DEF Progress, fdt_skip_node, SkipNode, iter_step, iter_return, InIterator, callerVars,
             dump_prop, dump_children, dump_child, DumpChild, dump_close, DumpClose, path_child,
             search_node, node_prop_next, NodePropNext, lookup_end, InDump, Returned, DtInv, Reader,
             DtTypeOK
    <2>2. /\ IsName(query.name) /\ deep = 0 /\ fdt_root_node < p
          /\ out \in Seq(Nodes) /\ {out[i] : i \in 1 .. Len(out)} = Below(p) /\ Increasing(out)
          /\ Returned => IF ret = NULL THEN Word(p) = FDT_END /\ p \in tree.tokens ELSE ret = p
      BY <2>1 DEF NodeSearch
    <2>3. /\ Nodes' = Nodes /\ fdt_root_node' = fdt_root_node /\ \A q : Below(q)' = Below(q)
          /\ \A q : Word(q)' = Word(q)
      BY <2>1, SameTree DEF Below
    <2>4. /\ \A q \in tree.tokens : q \in Nat
          /\ Nodes = {q \in tree.tokens : Word(q) = FDT_BEGIN_NODE} /\ NULL \notin tree.tokens
      BY <2>1, Shape
    <2>5. fdt_root_node \in Nodes
      BY <2>1 DEF DtInv, Frames
    <2>6. CASE fdt_skip_node \/ iter_step
      <3>1. /\ Moves /\ fn = "node" /\ p \in tree.tokens /\ UNCHANGED <<out, fn, ret, pc>>
        BY <2>1, <2>6, IteratorsMove DEF DtInv, Reader, IteratorOf, Moves, callerVars, CursorOnToken
      <3>2. /\ Word(p) \in Token \ {FDT_END} /\ p' = After(p) /\ Word(p) # FDT_BEGIN_NODE /\ deep' = 0
        BY <2>2, <3>1 DEF Moves, Wanted
      <3>3. After(p) \in tree.tokens /\ p < After(p) /\ \A r \in tree.tokens : r <= p \/ After(p) <= r
        BY <2>1, <3>1, <3>2, Advance
      <3>4. (\A n \in Nodes : n < p' <=> n < p) /\ fdt_root_node < p'
        BY <2>2, <2>4, <2>5, <3>1, <3>2, <3>3
      <3>5. Below(p') = Below(p)
        BY <3>4 DEF Below
      <3>6. Below(p)' = Below(p)
        BY <2>3, <3>5
      <3>7. Increasing(out)'
        BY <2>2, <3>1 DEF Increasing
      <3> QED BY <2>1, <2>2, <2>3, <3>1, <3>2, <3>4, <3>6, <3>7 DEF NodeSearch, Returned, SearchYieldsAll
    <2>7. CASE iter_return
      <3>1. /\ fn = "node" /\ p \in tree.tokens /\ UNCHANGED <<out, pc, p, deep>>
            /\ ret' = IF Word(p) = FDT_BEGIN_NODE THEN p ELSE NULL
            /\ (Word(p) = FDT_BEGIN_NODE \/ Word(p) \notin Token \/ Word(p) = FDT_END)
        BY <2>1, <2>7 DEF iter_return, InIterator, Wanted, GivesUp, DtInv, Reader, IteratorOf, callerVars, CursorOnToken
      <3>2. Word(p) \in Token
        BY <2>1, <3>1, TreesAssumption DEF Layout, Nested, Word
      <3>3. IF ret' = NULL THEN Word(p) = FDT_END ELSE ret' = p
        BY <2>4, <3>1, <3>2
      <3>4. Increasing(out)' /\ Below(p)' = Below(p) /\ Word(p)' = Word(p)
        BY <2>1, <2>2, <2>3, <3>1 DEF Increasing, Word
      <3> QED BY <2>1, <2>2, <2>3, <3>1, <3>3, <3>4 DEF NodeSearch, SearchYieldsAll
    <2>8. CASE search_node
      <3>1. /\ ret = p /\ ret \in Nodes /\ p' = fdt_skip_name(ret) /\ deep' = 0 /\ fn' = "node" /\ pc' = pc
            /\ out' = IF fdt_name_equal(tree.name[ret], query.name) THEN Append(out, ret) ELSE out
        BY <2>1, <2>2, <2>8 DEF search_node, start_node_iter, DtInv, Answers
      <3>2. IsName(tree.name[ret])
        BY <2>1, <3>1, TreesAssumption DEF Layout, Nodes
      <3>3. fdt_name_equal(tree.name[ret], query.name) <=> Denotes(query.name, tree.name[ret])
        BY <2>2, <3>2, NamesCompare
      <3>4. fdt_skip_name(ret) \in Nat /\ ret < fdt_skip_name(ret) /\ ret \in Nat
            /\ \A r \in tree.tokens : r <= ret \/ fdt_skip_name(ret) <= r
        BY <2>1, <2>4, <3>1, Starts
      <3>5. \A n \in Nodes : n < p' <=> n < p \/ n = ret
        BY <2>4, <3>1, <3>4
      <3>6. fdt_root_node < ret /\ fdt_root_node < p'
        <4>1. fdt_root_node \in Nat /\ fdt_root_node # NULL
          BY <2>4, <2>5
        <4>2. ret < fdt_root_node => Word(ret) = FDT_NOP
          BY <2>1, <2>4, <3>1, <4>1, Root
        <4>3. ret # fdt_root_node
          BY <2>2, <3>1, <3>4
        <4> QED BY <2>2, <2>4, <3>1, <3>4, <4>1, <4>2, <4>3 DEF FDT_NOP, FDT_BEGIN_NODE
      <3>7. Below(p') = IF Denotes(query.name, tree.name[ret]) THEN Below(p) \union {ret} ELSE Below(p)
        BY <3>1, <3>5, <3>6 DEF Below
      <3>8. \A i \in 1 .. Len(out) : out[i] < ret
        <4>1. \A i \in 1 .. Len(out) : out[i] \in Below(p)
          BY <2>2
        <4> QED BY <3>1, <4>1 DEF Below
      <3>9. out' \in Seq(Nodes) /\ {out'[i] : i \in 1 .. Len(out')} = Below(p') /\ Increasing(out')
        <4>1. CASE Denotes(query.name, tree.name[ret])
          <5>1. out' = Append(out, ret) /\ Below(p') = Below(p) \union {ret}
            BY <3>1, <3>3, <3>7, <4>1
          <5>2. /\ Append(out, ret) \in Seq(Nodes) /\ Len(Append(out, ret)) = Len(out) + 1
                /\ {Append(out, ret)[i] : i \in 1 .. Len(out) + 1} = {out[i] : i \in 1 .. Len(out)} \union {ret}
            BY <2>2, <3>1, AppendIs
          <5>3. out \in Seq(Nat)
            BY <2>2, <2>4
          <5>4. Increasing(Append(out, ret))
            BY <2>2, <3>4, <3>8, <5>3, IncreasingAppend
          <5> QED BY <2>2, <5>1, <5>2, <5>4
        <4>2. CASE ~Denotes(query.name, tree.name[ret])
          BY <2>2, <3>1, <3>3, <3>7, <4>2
        <4> QED BY <4>1, <4>2
      <3>10. Increasing(out)' /\ Below(p)' = Below(p')
        BY <2>3, <3>9 DEF Increasing
      <3> QED BY <2>1, <2>2, <2>3, <3>1, <3>6, <3>9, <3>10 DEF NodeSearch, Returned, SearchYieldsAll
    <2>9. CASE lookup_end
      <3>1. pc' = "done" /\ out' = out /\ Word(p) = FDT_END /\ p \in tree.tokens
        BY <2>2, <2>9 DEF lookup_end, Return
      <3>2. ASSUME NEW n \in Nodes PROVE n < p
        <4>1. n <= p
          BY <2>1, <2>4, <3>1, TreesAssumption DEF Layout, Nested, Word
        <4> QED BY <2>4, <3>1, <4>1 DEF FDT_END, FDT_BEGIN_NODE
      <3>3. ASSUME NEW n \in Nodes, n # fdt_root_node PROVE fdt_root_node < n
        <4>1. fdt_root_node \in Nat /\ fdt_root_node # NULL /\ n \in Nat /\ n \in tree.tokens
          BY <2>4, <2>5
        <4>2. ~(n < fdt_root_node)
          BY <2>1, <2>4, <4>1, Root DEF FDT_NOP, FDT_BEGIN_NODE
        <4> QED BY <3>3, <4>1, <4>2
      <3>4. Below(p) = {n \in Nodes \ {fdt_root_node} : Denotes(query.name, tree.name[n])}
        <4>1. ~(fdt_root_node < fdt_root_node)
          BY <2>4, <2>5
        <4> QED BY <3>2, <3>3, <4>1 DEF Below
      <3>5. SearchYieldsAll'
        BY <2>1, <2>2, <2>3, <3>1, <3>4 DEF SearchYieldsAll, Nodes, Increasing
      <3> QED BY <3>1, <3>5 DEF NodeSearch
    <2>10. ~dump_prop /\ ~dump_children /\ ~dump_child /\ ~dump_close /\ ~path_child /\ ~node_prop_next
      BY <2>1 DEF dump_prop, dump_children, dump_child, DumpChild, dump_close, DumpClose, path_child,
                  node_prop_next, NodePropNext, InDump
    <2> QED BY <1>3, <2>6, <2>7, <2>8, <2>9, <2>10 DEF Progress
  <1> QED BY <1>1, <1>2, <1>3 DEF DtNext, Finished, fdt_count_mem_reserve_entries, fdt_dump, fdt_node_path,
                                  fdt_node_prop

\* fdt_node_search_iter yields every node of that name below the root of an
\* undamaged blob, once and in order of definition.
THEOREM SearchComplete == DtSpec => []SearchYieldsAll
  <1>1. DtInit => NodeSearch
    BY DEF DtInit, NodeSearch
  <1>2. NodeSearch => SearchYieldsAll
    BY DEF NodeSearch, SearchYieldsAll
  <1> QED BY <1>1, <1>2, DtInvariance, NodeSearchInductive, PTL DEF DtSpec

\* The search layer by layer in fdt_node_path.
Start == IF query.start = NULL THEN fdt_root_node ELSE query.start

\* The nodes c lead down the first k names; the rest is still to be looked for, and
\* no child before the cursor is the next one.
Down(k, c) ==
    /\ Descends(Start, query.path, c, k)
    /\ node = Above(Start, c, k + 1)
    /\ Len(want) = Len(query.path) - k /\ \A i \in 1 .. Len(want) : want[i] = query.path[k + i]
    /\ \A q \in Children(node, query.path[k + 1]) : p <= q

PathSearch ==
    job = "path" /\ ~tree.damaged =>
        /\ pc = "busy" =>
              /\ Start \in Nodes /\ query.path \in Paths
              /\ Returned /\ ret # NULL => ret = p
              /\ \E k \in 0 .. Len(query.path) - 1 : \E c \in [1 .. k -> Nodes] : Down(k, c)
        /\ PathFindsNode

\* The children that a name denotes lie directly in the node.
LEMMA ChildrenAre ==
    ASSUME tree \in Trees, ~tree.damaged, NEW n \in Nodes, NEW name, NEW q
    PROVE  q \in Children(n, name) <=> q \in Nodes /\ In(n, q) /\ Denotes(name, tree.name[q])
  BY PartsAre DEF Children, Nodes

\* One node further down.
LEMMA DescendsOn ==
    ASSUME NEW s, NEW path, NEW k \in Nat, NEW c \in [1 .. k -> Nodes], Descends(s, path, c, k),
           NEW r \in Nodes, r \in Children(Above(s, c, k + 1), path[k + 1]),
           \A q \in Children(Above(s, c, k + 1), path[k + 1]) : r <= q
    PROVE  \E d \in [1 .. k + 1 -> Nodes] : Descends(s, path, d, k + 1) /\ Above(s, d, k + 2) = r
  <1> DEFINE d == [i \in 1 .. k + 1 |-> IF i <= k THEN c[i] ELSE r]
  <1>1. d \in [1 .. k + 1 -> Nodes]
    OBVIOUS
  <1>2. (\A i \in 1 .. k : d[i] = c[i]) /\ d[k + 1] = r
    OBVIOUS
  <1> HIDE DEF d
  <1>3. \A i \in 1 .. k + 1 : Above(s, d, i) = Above(s, c, i)
    <2> SUFFICES ASSUME NEW i \in 1 .. k + 1 PROVE Above(s, d, i) = Above(s, c, i)
      OBVIOUS
    <2>1. i # 1 => i - 1 \in 1 .. k
      OBVIOUS
    <2> QED BY <1>2, <2>1 DEF Above
  <1>4. Above(s, d, k + 2) = r
    <2>1. k + 2 # 1 /\ k + 2 - 1 = k + 1
      OBVIOUS
    <2> QED BY <1>2, <2>1 DEF Above
  <1>5. ASSUME NEW i \in 1 .. k + 1
        PROVE  /\ d[i] \in Children(Above(s, d, i), path[i])
               /\ \A q \in Children(Above(s, d, i), path[i]) : d[i] <= q
    <2>1. CASE i = k + 1
      BY <1>2, <1>3, <2>1
    <2>2. CASE i # k + 1
      <3>1. i \in 1 .. k
        BY <2>2
      <3> QED BY <1>2, <1>3, <3>1 DEF Descends
    <2> QED BY <2>1, <2>2
  <1>6. Descends(s, path, d, k + 1)
    BY <1>5 DEF Descends
  <1> QED BY <1>1, <1>4, <1>6

\* Children do not change while the tree is read.
LEMMA SameChildren ==
    ASSUME tree' = tree
    PROVE  /\ \A n, name : Children(n, name)' = Children(n, name)
           /\ \A s, path, c, k : Descends(s, path, c, k)' <=> Descends(s, path, c, k)
  <1>1. \A n, name : Children(n, name)' = Children(n, name)
    BY DEF Children
  <1> QED BY <1>1 DEF Descends

\* fdt_node_path starts at its start node with all of the path still to follow, or
\* returns at once.
LEMMA PathCalled ==
    ASSUME DtInv, ~tree.damaged, NEW start \in tree.nodes \union {NULL}, NEW path \in Paths,
           fdt_node_path(start, path)
    PROVE  PathSearch'
  <1> DEFINE root == IF start = NULL THEN fdt_root_node ELSE start
             c == [i \in 1 .. 0 |-> i]
  <1>1. /\ tree' = tree /\ tree \in Trees /\ job' = "path" /\ query' = [start |-> start, path |-> path]
        /\ node' = root /\ want' = path
    BY DEF fdt_node_path, DtInv, DtTypeOK
  <1>2. /\ Nodes' = Nodes /\ (fdt_validate' <=> fdt_validate) /\ fdt_root_node' = fdt_root_node
        /\ \A n, name : Children(n, name)' = Children(n, name)
        /\ \A s, pth, d, k : Descends(s, pth, d, k)' <=> Descends(s, pth, d, k)
    BY <1>1, SameTree, SameChildren
  <1>3. query'.start = start /\ query'.path = path /\ Start' = root
    BY <1>1, <1>2 DEF Start
  <1>4. path \in Seq(Range(path)) /\ Len(path) \in Nat
    <2>1. path \in Seq(Range(path))
      BY NamesAssumption
    <2> QED BY <2>1
  <1>5. root \in Nodes \union {NULL} /\ NULL \notin Nodes
    BY <1>1, Root, Shape DEF Nodes
  <1>6. c \in [1 .. 0 -> Nodes] /\ Descends(root, path, c, 0) /\ Above(root, c, 1) = root
    BY DEF Descends, Above
  <1>7. CASE ~fdt_validate \/ root = NULL
    <2>1. pc' = "done" /\ ret' = NULL
      BY <1>7 DEF fdt_node_path, Return
    <2>2. PathFindsNode'
      BY <1>1, <1>2, <1>3, <1>7, <2>1 DEF PathFindsNode
    <2> QED BY <2>1, <2>2 DEF PathSearch
  <1>8. CASE fdt_validate /\ root # NULL /\ path = <<>>
    <2>1. pc' = "done" /\ ret' = root
      BY <1>8 DEF fdt_node_path, Return
    <2>2. Len(path) = 0
      BY <1>8
    <2>3. PathFindsNode'
      <3>1. 0 \in 0 .. Len(query'.path) /\ c \in [1 .. 0 -> tree'.nodes] /\ 0 = Len(query'.path)
        BY <1>1, <1>2, <1>3, <1>6, <2>1, <2>2 DEF Nodes
      <3> HIDE DEF c
      <3>2. Descends(Start, query.path, c, 0)' /\ ret' = Above(Start, c, 0 + 1)'
        BY <1>2, <1>3, <1>6, <2>1 DEF Above
      <3>3. \E k \in 0 .. Len(query'.path) : \E d \in [1 .. k -> tree'.nodes] :
               /\ Descends(Start, query.path, d, k)'
               /\ k = Len(query'.path) /\ ret' = Above(Start, d, k + 1)'
        BY <3>1, <3>2
      <3>4. fdt_validate' /\ Start' # NULL
        BY <1>2, <1>3, <1>8
      <3> QED BY <3>3, <3>4 DEF PathFindsNode, Start
    <2> QED BY <2>1, <2>3 DEF PathSearch
  <1>9. CASE fdt_validate /\ root # NULL /\ path # <<>>
    <2>1. pc' = "busy" /\ p' = fdt_skip_name(root) /\ fn' = "child"
      BY <1>9 DEF fdt_node_path, start_child_iter
    <2>2. PICK n \in Nodes : n = root
      BY <1>5, <1>9
    <2>3. 0 \in 0 .. Len(path) - 1
      <3>1. Len(path) # 0
        BY <1>4, <1>9
      <3> QED BY <1>4, <3>1
    <2>4. ASSUME NEW q \in Children(n, path[1]) PROVE fdt_skip_name(n) <= q
      <3>1. q \in Nodes /\ In(n, q)
        BY <1>1, <2>4, ChildrenAre
      <3>2. n < q /\ q \in tree.tokens /\ q \in Nat /\ n \in Nat
        BY <1>1, <3>1, Shape DEF In, Within
      <3>3. fdt_skip_name(n) \in Nat /\ (q <= n \/ fdt_skip_name(n) <= q)
        BY <1>1, <3>2, Starts, Shape
      <3> QED BY <3>2, <3>3
    <2>5. Down(0, c)'
      <3>1. Len(path) - 0 = Len(path) /\ \A i \in 1 .. Len(path) : path[0 + i] = path[i]
        BY <1>4
      <3>2. 0 + 1 = 1
        OBVIOUS
      <3> HIDE DEF c
      <3> QED BY <1>1, <1>2, <1>3, <1>6, <2>1, <2>2, <2>4, <3>1, <3>2 DEF Down, Above
    <2> HIDE DEF c
    <2> QED BY <1>1, <1>2, <1>3, <1>6, <1>9, <2>1, <2>2, <2>3, <2>5 DEF PathSearch, PathFindsNode, Returned
  <1> QED BY <1>7, <1>8, <1>9

\* Every step of fdt_node_path keeps it.
LEMMA PathSearchInductive == DtInv /\ Located /\ PathSearch /\ [DtNext]_dtVars => PathSearch'
  <1> SUFFICES ASSUME DtInv, Located, PathSearch, [DtNext]_dtVars,
                      job' = "path", ~tree.damaged' PROVE PathSearch'
    BY DEF PathSearch
  <1>1. CASE UNCHANGED dtVars
    <2>1. /\ Nodes' = Nodes /\ (fdt_validate' <=> fdt_validate) /\ fdt_root_node' = fdt_root_node
          /\ \A n, name : Children(n, name)' = Children(n, name)
          /\ \A s, path, c, k : Descends(s, path, c, k)' <=> Descends(s, path, c, k)
      BY <1>1, SameTree, SameChildren DEF dtVars
    <2>2. Start' = Start /\ \A k, c : Down(k, c)' <=> Down(k, c)
      BY <1>1, <2>1 DEF dtVars, Down, Start, Above
    <2>3. PathFindsNode' <=> PathFindsNode
      BY <1>1, <2>1 DEF dtVars, PathFindsNode, Above
    <2> QED BY <1>1, <2>1, <2>2, <2>3 DEF dtVars, PathSearch, Returned
  <1>2. ASSUME NEW start \in tree.nodes \union {NULL}, NEW path \in Paths, fdt_node_path(start, path)
        PROVE  PathSearch'
    <2>1. ~tree.damaged
      BY <1>2 DEF fdt_node_path
    <2> QED BY <1>2, <2>1, PathCalled
  <1>3. CASE Progress
    <2>1. /\ tree' = tree /\ tree \in Trees /\ job = "path" /\ pc = "busy" /\ query' = query
          /\ ~tree.damaged
      BY <1>3 DEF Progress, fdt_skip_node, SkipNode, iter_step, iter_return, InIterator, callerVars,
             dump_prop, dump_children, dump_child, DumpChild, dump_close, DumpClose, path_child,
             search_node, node_prop_next, NodePropNext, lookup_end, InDump, Returned, DtInv, Reader,
             DtTypeOK
    <2>2. /\ Start \in Nodes /\ query.path \in Paths /\ (Returned /\ ret # NULL => ret = p)
          /\ node \in Nodes /\ want # <<>> /\ want \in Seq(Range(query.path)) /\ fdt_validate
      BY <2>1 DEF PathSearch, DtInv, Frames, Reader
    <2>3. PICK k \in 0 .. Len(query.path) - 1 : \E c \in [1 .. k -> Nodes] : Down(k, c)
      BY <2>1 DEF PathSearch
    <2>18. PICK c \in [1 .. k -> Nodes] : Down(k, c)
      BY <2>3
    <2>4. PICK n \in Nodes, s \in Nodes, path \in Paths : n = node /\ s = Start /\ path = query.path
      BY <2>2
    <2>5. /\ Nodes' = Nodes /\ (fdt_validate' <=> fdt_validate) /\ Start' = s
          /\ \A m, name : Children(m, name)' = Children(m, name)
          /\ \A t, pth, d, j : Descends(t, pth, d, j)' <=> Descends(t, pth, d, j)
      <3>1. fdt_root_node' = fdt_root_node /\ query' = query
        BY <2>1, SameTree
      <3>2. Start' = Start
        BY <3>1 DEF Start
      <3> QED BY <2>1, <2>4, <3>2, SameTree, SameChildren
    <2>6. path \in Seq(Range(path)) /\ (\A i \in 1 .. Len(path) : IsName(path[i])) /\ Len(path) \in Nat
          /\ k \in Nat /\ k + 1 <= Len(path)
      <3>1. path \in Seq(Range(path)) /\ \A m \in Range(path) : IsName(m)
        BY NamesAssumption
      <3>2. Len(path) \in Nat /\ \A i \in 1 .. Len(path) : path[i] \in Range(path)
        BY <3>1
      <3> QED BY <2>3, <2>4, <3>1, <3>2
    <2>7. /\ Descends(s, path, c, k) /\ n = Above(s, c, k + 1)
          /\ Len(want) = Len(path) - k /\ \A i \in 1 .. Len(want) : want[i] = path[k + i]
          /\ \A q \in Children(n, path[k + 1]) : p <= q
      BY <2>18, <2>4 DEF Down
    <2>8. /\ \A q \in tree.tokens : q \in Nat
          /\ Nodes \subseteq tree.tokens /\ NULL \notin tree.tokens
      BY <2>1, Shape
    <2>9. \A q : q \in Children(n, path[k + 1]) <=>
                 q \in Nodes /\ In(n, q) /\ Denotes(path[k + 1], tree.name[q])
      BY <2>1, ChildrenAre
    <2>10. Head(want) = path[k + 1]
      <3>1. Head(want) = want[1] /\ 1 \in 1 .. Len(want)
        BY <2>2
      <3> QED BY <2>7, <3>1
    \* The same node is searched on, with no match before the new cursor.
    <2>11. ASSUME pc' = pc, node' = node, want' = want, Returned' /\ ret' # NULL => ret' = p',
                  \A q \in Children(n, path[k + 1]) : p' <= q
           PROVE  PathSearch'
      <3>1. Down(k, c)'
        BY <2>1, <2>4, <2>5, <2>7, <2>11 DEF Down, Above
      <3>2. k \in 0 .. Len(query'.path) - 1 /\ c \in [1 .. k -> Nodes']
        BY <2>1, <2>3, <2>18, <2>5
      <3> QED BY <2>1, <2>2, <2>4, <2>5, <2>11, <3>1, <3>2 DEF PathSearch, PathFindsNode
    \* The call ends with the outcome of a descent of j nodes.
    <2>12. ASSUME pc' = "done", NEW j \in 0 .. Len(path), NEW d \in [1 .. j -> Nodes],
                  Descends(s, path, d, j),
                  IF j = Len(path) THEN ret' = Above(s, d, j + 1)
                  ELSE ret' = NULL /\ Children(Above(s, d, j + 1), path[j + 1]) = {}
           PROVE  PathSearch'
      <3>1. fdt_validate' /\ Start' = s /\ s # NULL /\ query'.path = path /\ tree'.nodes = Nodes
        BY <2>1, <2>2, <2>4, <2>5, <2>8 DEF Nodes
      <3>2. PathFindsNode' <=>
               \E i \in 0 .. Len(path) : \E e \in [1 .. i -> Nodes] :
                    /\ Descends(s, path, e, i)'
                    /\ IF i = Len(path) THEN ret' = Above(s, e, i + 1)
                       ELSE ret' = NULL /\ Children(Above(s, e, i + 1), path[i + 1])' = {}
        BY <2>1, <2>12, <3>1, ZenonT(60) DEF PathFindsNode, Start, Above
      <3>3. PathFindsNode'
        BY <2>5, <2>12, <3>2
      <3> QED BY <2>12, <3>3 DEF PathSearch
    <2>13. CASE fdt_skip_node \/ iter_step
      <3>1. Moves /\ fn = "child" /\ At(n, p, deep)
        BY <2>1, <2>4, <2>13, IteratorsMove DEF DtInv, Reader, IteratorOf, Located, Moves, Around
      <3>2. UNCHANGED <<pc, node, want, fn>> /\ p \in tree.tokens /\ p' \in tree.tokens
        <4>1. Word(p) \in Token \ {FDT_END} /\ p' = After(p) /\ p \in tree.tokens
          BY <2>1, <3>1, MovesIn DEF DtInv, CursorOnToken
        <4> QED BY <2>1, <3>1, <4>1, Advance DEF Moves, callerVars
      <3>3. ASSUME NEW q \in Children(n, path[k + 1]) PROVE p' <= q
        <4>1. q \in Nodes /\ In(n, q) /\ p <= q /\ q \in Nat
          BY <2>7, <2>8, <2>9
        <4>2. q < p' => q < p
          BY <2>1, <3>1, <4>1, NonePassed
        <4> QED BY <2>8, <3>2, <4>1, <4>2
      <3> QED BY <2>11, <3>1, <3>2, <3>3 DEF Returned
    <2>14. CASE iter_return
      <3>1. UNCHANGED <<p, pc, node, want>> /\ (ret' # NULL => ret' = p)
        BY <2>14 DEF iter_return, callerVars
      <3> QED BY <2>7, <2>11, <3>1
    <2>15. CASE path_child
      <3>1. Returned /\ ret = p /\ ret \in Nodes /\ In(n, ret) /\ ret # NULL
        BY <2>1, <2>2, <2>4, <2>15 DEF path_child, DtInv, Answers, Located, Around
      <3>2. fdt_name_equal(tree.name[ret], Head(want)) <=> ret \in Children(n, path[k + 1])
        <4>1. IsName(tree.name[ret])
          BY <2>1, <3>1, TreesAssumption DEF Layout, Nodes
        <4>2. IsName(path[k + 1])
          BY <2>6
        <4>3. fdt_name_equal(tree.name[ret], path[k + 1]) <=> Denotes(path[k + 1], tree.name[ret])
          BY <4>1, <4>2, NamesCompare
        <4> QED BY <2>9, <2>10, <3>1, <4>3
      <3>3. /\ fdt_skip_name(ret) \in Nat /\ ret < fdt_skip_name(ret) /\ ret \in Nat
            /\ \A r \in tree.tokens : r <= ret \/ fdt_skip_name(ret) <= r
        BY <2>1, <2>8, <3>1, Starts
      <3>4. CASE ret \notin Children(n, path[k + 1])
        <4>1. p' = fdt_skip_name(ret) /\ fn' = "child" /\ UNCHANGED <<pc, node, want>>
          BY <2>15, <3>1, <3>2, <3>4 DEF path_child, start_child_iter
        <4>2. ASSUME NEW q \in Children(n, path[k + 1]) PROVE p' <= q
          <5>1. q \in tree.tokens /\ q \in Nat /\ p <= q /\ q # ret
            BY <2>7, <2>8, <2>9, <3>4
          <5> QED BY <3>1, <3>3, <4>1, <5>1
        <4> QED BY <2>11, <4>1, <4>2 DEF Returned
      <3>5. CASE ret \in Children(n, path[k + 1])
        <4>1. \A q \in Children(n, path[k + 1]) : ret <= q
          BY <2>7, <3>1
        <4>2. PICK d \in [1 .. k + 1 -> Nodes] : Descends(s, path, d, k + 1) /\ Above(s, d, k + 2) = ret
          BY SMTT(30), <2>6, <2>7, <3>1, <3>5, <4>1, DescendsOn
        <4>3. CASE Len(want) = 1
          <5>1. pc' = "done" /\ ret' = ret
            BY <2>15, <3>2, <3>5, <4>3 DEF path_child, Return
          <5>2. k + 1 = Len(path) /\ k + 1 \in 0 .. Len(path) /\ k + 1 + 1 = k + 2
            <6>1. ASSUME NEW m \in Nat, NEW l \in Nat, l - m = 1
                  PROVE  m + 1 = l /\ m + 1 \in 0 .. l /\ m + 1 + 1 = m + 2
              BY ONLY m \in Nat, l \in Nat, l - m = 1
            <6>2. Len(path) \in Nat /\ k \in Nat /\ Len(path) - k = 1
              BY <2>6, <2>7, <4>3
            <6> QED BY ONLY <6>1, <6>2
          <5> QED BY <2>12, <4>2, <5>1, <5>2
        <4>4. CASE Len(want) # 1
          <5>1. /\ p' = fdt_skip_name(ret) /\ fn' = "child" /\ pc' = pc /\ node' = ret
                /\ want' = Tail(want)
            BY <2>15, <3>2, <3>5, <4>4 DEF path_child, start_child_iter
          <5>2. PICK r \in Nodes : r = ret
            BY <3>1
          <5>3. k + 1 \in 0 .. Len(path) - 1 /\ k + 1 + 1 = k + 2 /\ Len(want) - 1 = Len(path) - (k + 1)
            BY <2>6, <2>7, <4>4
          <5>4. /\ Len(Tail(want)) = Len(want) - 1
                /\ \A i \in 1 .. Len(want) - 1 : Tail(want)[i] = want[i + 1]
            BY <2>2, HeadTailProperties
          <5>5. ASSUME NEW i \in 1 .. Len(want) - 1 PROVE Tail(want)[i] = path[k + 1 + i]
            <6>1. i + 1 \in 1 .. Len(want) /\ k + (i + 1) = k + 1 + i
              <7>1. Len(want) \in Int /\ k \in Nat
                BY <2>2, <2>6
              <7> QED BY ONLY <7>1, i \in 1 .. Len(want) - 1
            <6> QED BY <2>7, <5>4, <6>1
          <5>6. ASSUME NEW q \in Children(r, path[k + 2]) PROVE fdt_skip_name(r) <= q
            <6>1. q \in Nodes /\ In(r, q)
              BY <2>1, <5>6, ChildrenAre
            <6>2. r < q /\ q \in tree.tokens /\ q \in Nat
              BY <2>8, <6>1 DEF In, Within
            <6> QED BY <3>3, <5>2, <6>2
          <5>7. Down(k + 1, d)'
            <6>1. /\ Descends(Start, query.path, d, k + 1)'
                  /\ node' = Above(Start, d, k + 1 + 1)'
              BY <2>1, <2>4, <2>5, <4>2, <5>1, <5>3 DEF Above
            <6>2. /\ Len(want') = Len(query'.path) - (k + 1)
                  /\ \A i \in 1 .. Len(want') : want'[i] = (query'.path)[k + 1 + i]
              BY <2>1, <2>4, <5>1, <5>3, <5>4, <5>5
            <6>3. \A q \in Children(node, query.path[k + 1 + 1])' : p' <= q
              BY <2>1, <2>4, <2>5, <5>1, <5>2, <5>3, <5>6
            <6> QED BY <6>1, <6>2, <6>3 DEF Down
          <5>8. k + 1 \in 0 .. Len(query'.path) - 1 /\ d \in [1 .. k + 1 -> Nodes']
            BY <2>1, <2>4, <2>5, <5>3
          <5> QED BY <2>1, <2>2, <2>4, <2>5, <5>1, <5>7, <5>8 DEF PathSearch, PathFindsNode, Returned
        <4> QED BY <4>3, <4>4
      <3> QED BY <3>4, <3>5
    <2>16. CASE lookup_end
      <3>1. pc' = "done" /\ ret' = NULL /\ p = EndOf(n)
        BY <2>1, <2>4, <2>16 DEF lookup_end, Return, Located, Around
      <3>2. Children(n, path[k + 1]) = {}
        <4> SUFFICES ASSUME NEW q \in Children(n, path[k + 1]) PROVE FALSE
          OBVIOUS
        <4>1. q \in Nat /\ p <= q /\ q < EndOf(n) /\ EndOf(n) \in Nat
          BY <2>1, <2>7, <2>8, <2>9, EndIs DEF In, Within
        <4> QED BY <3>1, <4>1
      <3>3. k \in 0 .. Len(path) /\ k # Len(path)
        BY <2>6
      <3> QED BY <2>7, <2>12, <3>1, <3>2, <3>3
    <2>17. ~dump_prop /\ ~dump_children /\ ~dump_child /\ ~dump_close /\ ~search_node /\ ~node_prop_next
      BY <2>1 DEF dump_prop, dump_children, dump_child, DumpChild, dump_close, DumpClose, search_node,
                  node_prop_next, NodePropNext, InDump
    <2> QED BY <1>3, <2>13, <2>14, <2>15, <2>16, <2>17 DEF Progress
  <1> QED BY <1>1, <1>2, <1>3 DEF DtNext, Finished, fdt_count_mem_reserve_entries, fdt_dump,
                                  fdt_node_search_iter, fdt_node_prop

\* fdt_node_path follows the path down an undamaged blob, at each level by the
\* first child that the name denotes, and returns NULL only where there is none.
THEOREM PathFound == DtSpec => []PathFindsNode
  <1>1. DtInit => PathSearch
    BY DEF DtInit, PathSearch
  <1>2. PathSearch => PathFindsNode
    BY DEF PathSearch, PathFindsNode
  <1> QED BY <1>1, <1>2, LocatedInvariance, PathSearchInductive, PTL DEF DtSpec

----------------------------------------------------------------------------
(* The dump has printed exactly what comes before the cursor *)

\* The lines there are to print, and the ones for the nodes before position q.
Lines == {NodeLine(q, tree.depth[q]) : q \in Nodes} \union {PropLine(q, tree.depth[q]) : q \in Props}
UpTo(q) == {n \in Nodes : n < q} \union {r \in Props : tree.owner[r] < q}
Printed == {out[i].at : i \in 1 .. Len(out)}
Earlier(x, y) == \/ NodeOf(x) < NodeOf(y)
                 \/ NodeOf(x) = NodeOf(y) /\ x < y

\* While a node's properties are printed: all earlier nodes, it, and its properties
\* before the cursor.  While its children are: all nodes before the cursor, or, when
\* fdt_skip_node passes again over the child c, all nodes before the end of c.
PropsSoFar == UpTo(Innermost) \union {Innermost}
              \union {r \in Props : tree.owner[r] = Innermost /\ r < p}
Skipping(c) == In(Innermost, c) /\ At(c, p, deep - 1) /\ Printed = UpTo(EndOf(c))

Dumping ==
    job = "dump" /\ ~tree.damaged =>
        /\ out \in Seq(Lines)
        /\ \A i, j \in 1 .. Len(out) : i < j => Earlier(out[i].at, out[j].at)
        /\ pc = "busy" =>
              /\ Returned /\ ret # NULL => ret = p
              /\ part = "props" => Printed = PropsSoFar
              /\ part = "children" =>
                    IF deep = 0 THEN Printed = UpTo(p) ELSE \E c \in Nodes : Skipping(c)
        /\ pc = "done" /\ fdt_validate => Printed = Handle

\* What the code prints for a property shows its value, as words or as a string.
Shows(line) ==
    line.at \in Props =>
        LET made == tree.value[line.at]
        IN  IF ~line.string THEN line.shown = made.value
            ELSE /\ Len(line.shown) = made.len
                 /\ \A k \in 1 .. made.len :
                       LET b == Byte(made.value, k)
                       IN  line.shown[k] = IF b = 0 THEN 46 ELSE b

\* Properties come after the node they belong to, and are not nodes.
LEMMA OwnersAre ==
    ASSUME tree \in Trees, ~tree.damaged
    PROVE  /\ \A r \in Props : tree.owner[r] \in Nodes /\ tree.owner[r] \in Nat /\ r \in Nat
                               /\ tree.owner[r] < r
           /\ \A n \in Nodes : n \in Nat /\ n \notin Props
  <1>1. \A r \in Props : tree.owner[r] \in Nodes
    BY TreesAssumption DEF Layout, Nested, Props, Nodes
  <1>2. ASSUME NEW r \in Props PROVE tree.owner[r] < r
    BY <1>1, PartsAre DEF In, Within
  <1>3. /\ \A q \in tree.tokens : q \in Nat
        /\ Nodes = {q \in tree.tokens : Word(q) = FDT_BEGIN_NODE}
        /\ Props = {q \in tree.tokens : Word(q) = FDT_PROP}
    BY Shape
  <1> QED BY <1>1, <1>2, <1>3 DEF FDT_BEGIN_NODE, FDT_PROP

\* The nodes before a token and before the next one.
LEMMA UpToNext ==
    ASSUME tree \in Trees, ~tree.damaged
    PROVE  /\ \A n \in Nodes : UpTo(fdt_skip_name(n)) =
                 UpTo(n) \union {n} \union {r \in Props : tree.owner[r] = n}
           /\ \A q \in tree.tokens : q \notin Nodes /\ Word(q) \in Token \ {FDT_END} =>
                 UpTo(After(q)) = UpTo(q)
  <1>1. /\ \A r \in Props : tree.owner[r] \in Nodes
        /\ Nodes \subseteq tree.tokens /\ \A q \in tree.tokens : q \in Nat
    BY OwnersAre, Shape
  <1>2. ASSUME NEW n \in Nodes
        PROVE  UpTo(fdt_skip_name(n)) = UpTo(n) \union {n} \union {r \in Props : tree.owner[r] = n}
    <2>1. /\ fdt_skip_name(n) \in Nat /\ n < fdt_skip_name(n)
          /\ \A r \in Nodes : r <= n \/ fdt_skip_name(n) <= r
      BY <1>1, Starts
    <2>2. \A m \in Nodes : m < fdt_skip_name(n) <=> m < n \/ m = n
      BY <1>1, <2>1
    <2> QED BY <1>1, <2>2 DEF UpTo
  <1>3. ASSUME NEW q \in tree.tokens, q \notin Nodes, Word(q) \in Token \ {FDT_END}
        PROVE  UpTo(After(q)) = UpTo(q)
    <2>1. After(q) \in Nat /\ q < After(q) /\ \A r \in Nodes : r <= q \/ After(q) <= r
      BY <1>1, <1>3, Advance
    <2>2. \A m \in Nodes : m < After(q) <=> m < q
      BY <1>1, <1>3, <2>1
    <2> QED BY <1>1, <2>2 DEF UpTo
  <1> QED BY <1>2, <1>3

\* Printing one more line, after all those that come before it.
LEMMA PrintsOne ==
    ASSUME NEW s \in Seq(Lines), \A i, j \in 1 .. Len(s) : i < j => Earlier(s[i].at, s[j].at),
           NEW line \in Lines, \A x \in {s[i].at : i \in 1 .. Len(s)} : Earlier(x, line.at)
    PROVE  /\ Append(s, line) \in Seq(Lines)
           /\ \A i, j \in 1 .. Len(Append(s, line)) :
                 i < j => Earlier(Append(s, line)[i].at, Append(s, line)[j].at)
           /\ {Append(s, line)[i].at : i \in 1 .. Len(Append(s, line))} =
                 {s[i].at : i \in 1 .. Len(s)} \union {line.at}
  <1>1. /\ Append(s, line) \in Seq(Lines) /\ Len(Append(s, line)) = Len(s) + 1 /\ Len(s) \in Nat
        /\ \A i \in 1 .. Len(s) : Append(s, line)[i] = s[i]
        /\ Append(s, line)[Len(s) + 1] = line
    BY AppendIs
  <1> DEFINE t == Append(s, line)
  <1>2. Len(t) = Len(s) + 1 /\ (\A i \in 1 .. Len(s) : t[i] = s[i]) /\ t[Len(s) + 1] = line
    BY <1>1
  <1> HIDE DEF t
  <1>3. ASSUME NEW i \in 1 .. Len(t), NEW j \in 1 .. Len(t), i < j PROVE Earlier(t[i].at, t[j].at)
    <2>1. i \in 1 .. Len(s) /\ (j \in 1 .. Len(s) \/ j = Len(s) + 1)
      BY <1>1, <1>2, <1>3
    <2>2. t[i] = s[i] /\ (j \in 1 .. Len(s) => t[j] = s[j]) /\ t[Len(s) + 1] = line
      BY <1>2, <2>1
    <2>3. CASE j \in 1 .. Len(s)
      BY <1>3, <2>1, <2>2, <2>3
    <2>4. CASE j = Len(s) + 1
      BY <2>1, <2>2, <2>4
    <2> QED BY <2>1, <2>3, <2>4
  <1>4. {t[i].at : i \in 1 .. Len(t)} = {s[i].at : i \in 1 .. Len(s)} \union {line.at}
    <2>1. \A i \in 1 .. Len(t) : i \in 1 .. Len(s) \/ i = Len(s) + 1
      BY <1>1, <1>2
    <2>2. Len(s) + 1 \in 1 .. Len(t) /\ \A i \in 1 .. Len(s) : i \in 1 .. Len(t)
      BY <1>1, <1>2
    <2> QED BY ONLY <1>2, <2>1, <2>2
  <1> QED BY <1>1, <1>3, <1>4 DEF t

\* What a line of the dump shows does not change while the tree is read.
LEMMA SameLines ==
    ASSUME tree' = tree
    PROVE  /\ Lines' = Lines /\ \A q : UpTo(q)' = UpTo(q)
           /\ \A x, y : Earlier(x, y)' <=> Earlier(x, y)
           /\ \A q, d : NodeLine(q, d)' = NodeLine(q, d) /\ PropLine(q, d)' = PropLine(q, d)
  <1>1. Nodes' = Nodes /\ Props' = Props /\ \A q : Word(q)' = Word(q)
    BY SameTree
  <1>2. \A q, d : NodeLine(q, d)' = NodeLine(q, d)
    BY DEF NodeLine
  <1>3. \A q, d : PropLine(q, d)' = PropLine(q, d)
    BY DEF PropLine, ValueBytes, ValueWords, dump_words, Word
  <1>4. \A x : NodeOf(x)' = NodeOf(x)
    BY DEF NodeOf
  <1>5. Lines' = Lines
    BY <1>1, <1>2, <1>3 DEF Lines
  <1> QED BY <1>1, <1>2, <1>3, <1>4, <1>5 DEF UpTo, Earlier

\* The line of a node or a property names its place.
LEMMA LinesAre ==
    /\ \A q \in Nodes : NodeLine(q, tree.depth[q]) \in Lines /\ NodeLine(q, tree.depth[q]).at = q
    /\ \A q \in Props : PropLine(q, tree.depth[q]) \in Lines /\ PropLine(q, tree.depth[q]).at = q
  BY DEF Lines, NodeLine, PropLine

\* fdt_dump begins with the line of the root.
LEMMA DumpCalled ==
    ASSUME DtInv, ~tree.damaged, fdt_dump
    PROVE  Dumping'
  <1>1. tree' = tree /\ tree \in Trees /\ job' = "dump" /\ out = <<>> /\ part' = "props" /\ part = "props"
    BY DEF fdt_dump, DtInv, DtTypeOK, Reader
  <1>2. /\ Nodes' = Nodes /\ Props' = Props /\ Handle' = Handle /\ (fdt_validate' <=> fdt_validate)
        /\ Lines' = Lines /\ \A q : UpTo(q)' = UpTo(q)
    BY <1>1, SameTree, SameLines
  <1>3. CASE fdt_root_node = NULL
    <2>1. pc' = "done" /\ out' = <<>>
      BY <1>1, <1>3 DEF fdt_dump, Return
    <2>2. out' \in Seq(Lines) /\ Len(out') = 0
      BY <2>1
    <2>3. Printed' = {}
      BY <2>2 DEF Printed
    <2>4. fdt_validate => Handle = {}
      BY <1>1, <1>3, Rootless DEF Handle, Nodes, Props
    <2> QED BY <1>2, <2>1, <2>2, <2>3, <2>4 DEF Dumping
  <1>4. CASE fdt_root_node # NULL
    <2>1. PICK root \in Nodes : root = fdt_root_node
      BY <1>1, <1>4, Root
    <2>2. tree.depth[root] = 0 /\ NodeLine(root, 0) \in Lines /\ NodeLine(root, 0).at = root
      BY <1>1, <1>4, <2>1, Root, LinesAre
    <2>3. /\ p' = fdt_skip_name(root) /\ fn' = "prop" /\ deep' = 0 /\ pc' = "busy"
          /\ stack' = <<root>> /\ out' = <<NodeLine(root, 0)>>
      BY <1>4, <2>1 DEF fdt_dump, start_prop_iter
    <2>4. ASSUME NEW S, NEW x \in S PROVE <<x>> \in Seq(S) /\ Len(<<x>>) = 1 /\ <<x>>[1] = x
      OBVIOUS
    <2>5. out' \in Seq(Lines) /\ Len(out') = 1 /\ out'[1] = NodeLine(root, 0)
      BY <2>2, <2>3, <2>4
    <2>6. Printed' = {root}
      BY <2>2, <2>5 DEF Printed
    <2>7. Innermost' = root
      BY <2>3, <2>4 DEF Innermost
    <2>8. UpTo(root) = {}
      <3>1. Closes(tree, root, EndOf(root))
        BY <1>1, EndIs
      <3>2. \A n \in Nodes : root <= n /\ n \in Nat /\ root \in Nat
        BY <1>1, <2>2, <3>1, OwnersAre DEF Closes, Nodes
      <3> QED BY <1>1, <3>2, OwnersAre DEF UpTo
    <2>9. ASSUME NEW r \in Props, tree.owner[r] = root PROVE ~(r < fdt_skip_name(root))
      <3>1. r \in tree.tokens /\ r \in Nat /\ root \in Nat /\ root < r
        BY <1>1, <2>9, OwnersAre, Shape
      <3>2. fdt_skip_name(root) \in Nat /\ (r <= root \/ fdt_skip_name(root) <= r)
        BY <1>1, <3>1, Starts, Shape
      <3> QED BY <3>1, <3>2
    <2>10. Printed' = PropsSoFar'
      BY <1>1, <1>2, <2>3, <2>6, <2>7, <2>8, <2>9 DEF PropsSoFar
    <2> QED BY <1>1, <1>2, <2>3, <2>5, <2>10 DEF Dumping, Returned
  <1> QED BY <1>3, <1>4

\* The iterators' rounds print nothing, and come to nothing that is to be printed.
LEMMA IteratorsKeepDumping ==
    ASSUME DtInv, Located, Dumping, Moves \/ iter_return
    PROVE  Dumping'
  <1> SUFFICES ASSUME job' = "dump", ~tree.damaged' PROVE Dumping'
    BY DEF Dumping
  <1>1. /\ tree' = tree /\ tree \in Trees /\ UNCHANGED callerVars /\ fn # "none" /\ pc = "busy"
        /\ ~tree.damaged /\ job = "dump" /\ p \in tree.tokens /\ deep \in Nat
    BY DEF Moves, iter_return, DtInv, DtTypeOK, Reader, callerVars, InIterator, CursorOnToken
  <1>2. /\ Nodes' = Nodes /\ Props' = Props /\ Lines' = Lines /\ \A q : UpTo(q)' = UpTo(q)
        /\ \A x, y : Earlier(x, y)' <=> Earlier(x, y)
    BY <1>1, SameTree, SameLines
  <1>3. /\ \A n : EndOf(n)' = EndOf(n)
        /\ \A n, q, d : At(n, q, d)' <=> At(n, q, d)
        /\ \A n, q : In(n, q)' <=> In(n, q)
    BY <1>1, SameEnds
  <1>4. PICK a \in Nodes : a = Innermost
    BY <1>1, AroundIs DEF Around
  <1>5. Innermost' = a /\ Printed' = Printed
    BY <1>1, <1>4 DEF callerVars, Innermost, Printed
  <1>6. /\ out' \in Seq(Lines')
        /\ \A i, j \in 1 .. Len(out') : i < j => Earlier(out[i].at, out[j].at)'
    BY <1>1, <1>2 DEF Dumping, callerVars
  <1>7. fn \in {"child", "prop"} /\ At(a, p, deep) /\ part \in {"props", "children"}
        /\ (fn = "prop" <=> part = "props")
    BY <1>1, <1>4 DEF DtInv, DtTypeOK, Reader, IteratorOf, Located, Around
  <1>8. /\ part = "props" => Printed = PropsSoFar
        /\ part = "children" => IF deep = 0 THEN Printed = UpTo(p) ELSE \E c \in Nodes : Skipping(c)
    BY <1>1 DEF Dumping
  <1>9. CASE iter_return
    <2>1. p' = p /\ deep' = deep /\ deep = 0 /\ (ret' # NULL => ret' = p)
      BY <1>9 DEF iter_return, InIterator
    <2>2. part = "props" => Printed' = PropsSoFar'
      BY <1>1, <1>2, <1>4, <1>5, <1>8, <2>1 DEF PropsSoFar
    <2>3. part = "children" => Printed' = UpTo(p)'
      BY <1>2, <1>5, <1>8, <2>1
    <2> QED BY <1>1, <1>6, <2>1, <2>2, <2>3 DEF Dumping, callerVars
  <1>10. CASE Moves
    <2>1. /\ Word(p) \in Token \ {FDT_END} /\ p' = After(p) /\ p < EndOf(a) /\ fn' = fn
          /\ deep = 0 => Word(p) # Wanted /\ Word(p) # FDT_END_NODE
          /\ deep' = IF deep > 0
                     THEN IF Word(p) = FDT_BEGIN_NODE THEN deep + 1
                          ELSE IF Word(p) = FDT_END_NODE THEN deep - 1 ELSE deep
                     ELSE IF Word(p) = FDT_BEGIN_NODE THEN 1 ELSE 0
      <3>1. /\ Word(p) \in Token \ {FDT_END} /\ p' = After(p) /\ p < EndOf(a)
            /\ deep = 0 => Word(p) # Wanted /\ Word(p) # FDT_END_NODE
        BY <1>1, <1>7, <1>10, MovesIn
      <3> QED BY <3>1, <1>10 DEF Moves
    <2>2. /\ After(p) \in tree.tokens /\ p < After(p) /\ p \in Nat /\ After(p) \in Nat
          /\ \A r \in tree.tokens : r \in Nat /\ (r <= p \/ After(p) <= r)
          /\ Nodes \subseteq tree.tokens /\ Props \subseteq tree.tokens
          /\ (p \in Nodes <=> Word(p) = FDT_BEGIN_NODE)
      BY <1>1, <2>1, Advance, Shape
    <2>3. CASE part = "props"
      <3>1. ASSUME NEW r \in Props, tree.owner[r] = a PROVE r < p' <=> r < p
        <4>1. In(a, r) /\ r \in Nat
          BY <1>1, <2>2, <3>1, PartsAre
        <4>2. r < p' => r < p
          BY <1>1, <1>7, <1>10, <2>3, <4>1, NonePassed
        <4> QED BY <2>1, <2>2, <4>1, <4>2
      <3>2. Printed' = PropsSoFar'
        BY <1>1, <1>2, <1>4, <1>5, <1>8, <2>3, <3>1 DEF PropsSoFar
      <3> QED BY <1>1, <1>6, <1>7, <2>1, <2>3, <3>2 DEF Dumping, Returned, callerVars
    <2>4. CASE part = "children" /\ deep = 0
      <3>1. Word(p) # FDT_BEGIN_NODE /\ deep' = 0
        BY <1>7, <2>1, <2>4 DEF Wanted
      <3>2. UpTo(p') = UpTo(p)
        BY <1>1, <2>1, <2>2, <3>1, UpToNext
      <3>3. Printed' = UpTo(p)'
        BY <1>2, <1>5, <1>8, <2>4, <3>2
      <3> QED BY <1>1, <1>6, <1>7, <2>1, <2>4, <3>1, <3>3 DEF Dumping, Returned, callerVars
    <2>5. CASE part = "children" /\ deep # 0
      <3>1. PICK c \in Nodes : Skipping(c)
        BY <1>8, <2>5
      <3>2. In(a, c) /\ At(c, p, deep - 1) /\ Printed = UpTo(EndOf(c))
        BY <1>4, <3>1 DEF Skipping
      <3>3. /\ p = EndOf(c) => deep - 1 = 0 /\ Word(p) = FDT_END_NODE
            /\ deep - 1 = 0 /\ Word(p) = FDT_END_NODE => p = EndOf(c)
            /\ p # EndOf(c) => p < EndOf(c)
        <4>1. deep - 1 \in Nat
          BY <1>1, <2>5
        <4> QED BY <1>1, <3>2, <4>1, InsideIs
      <3>4. CASE p = EndOf(c)
        <4>1. deep' = 0 /\ Word(p) = FDT_END_NODE
          BY <1>1, <2>1, <2>5, <3>3, <3>4 DEF FDT_BEGIN_NODE, FDT_END_NODE
        <4>2. p \notin Nodes
          BY <2>2, <4>1 DEF FDT_BEGIN_NODE, FDT_END_NODE
        <4>3. UpTo(p') = UpTo(p)
          BY <1>1, <2>1, <4>2, UpToNext
        <4>4. Printed' = UpTo(p)'
          BY <1>2, <1>5, <3>2, <3>4, <4>3
        <4> QED BY <1>1, <1>6, <1>7, <2>1, <2>5, <4>1, <4>4 DEF Dumping, Returned, callerVars
      <3>5. CASE p # EndOf(c)
        <4>1. ~(deep = 1 /\ Word(p) = FDT_END_NODE)
          BY <3>3, <3>5
        <4>2. deep' # 0 /\ deep > 0
          BY <1>1, <2>1, <2>5, <4>1 DEF FDT_BEGIN_NODE, FDT_END_NODE
        <4>3. EndOf(c) \in tree.tokens /\ p < EndOf(c) /\ EndOf(c) \in Nat /\ c \in Nat
          BY <1>1, <2>2, <3>3, <3>5, EndIs
        <4>4. p' <= EndOf(c) /\ c < p'
          BY <2>1, <2>2, <3>2, <4>3 DEF At
        <4>5. tree.depth[p'] = tree.depth[c] + 1 + (deep' - 1)
          <5>1. tree.depth[p'] = IF Word(p) = FDT_BEGIN_NODE THEN tree.depth[p] + 1
                                 ELSE IF Word(p) = FDT_END_NODE THEN tree.depth[p] - 1
                                 ELSE tree.depth[p]
            BY <1>1, <2>1, Advance
          <5>2. tree.depth[p] = tree.depth[c] + 1 + (deep - 1) /\ tree.depth[c] \in Nat /\ tree.depth[p] \in Nat
            BY <1>1, <3>2, Shape DEF At
          <5> QED BY <1>1, <2>1, <4>2, <5>1, <5>2
        <4>6. At(c, p', deep' - 1)
          BY <4>4, <4>5 DEF At
        <4>7. Skipping(c)'
          BY <1>2, <1>3, <1>5, <3>2, <4>6 DEF Skipping
        <4> QED BY <1>1, <1>2, <1>6, <1>7, <2>1, <2>5, <4>2, <4>7 DEF Dumping, Returned, callerVars
      <3> QED BY <3>4, <3>5
    <2> QED BY <1>7, <2>3, <2>4, <2>5
  <1> QED BY <1>9, <1>10

\* The steps of fdt_dump_helper.
LEMMA DumpKeepsDumping ==
    ASSUME DtInv, Located, Dumping, dump_prop \/ dump_children \/ dump_child \/ dump_close
    PROVE  Dumping'
  <1> SUFFICES ASSUME ~tree.damaged' PROVE Dumping'
    BY DEF Dumping
  <1>1. /\ tree' = tree /\ tree \in Trees /\ pc = "busy" /\ fn = "none" /\ job = "dump" /\ job' = "dump"
        /\ ~tree.damaged /\ deep = 0 /\ Returned
    BY DEF dump_prop, dump_children, dump_child, DumpChild, dump_close, DumpClose, InDump, Returned, DtInv,
           DtTypeOK, Reader
  <1>2. /\ Nodes' = Nodes /\ Props' = Props /\ Lines' = Lines /\ Handle' = Handle
        /\ \A q : UpTo(q)' = UpTo(q)
        /\ \A x, y : Earlier(x, y)' <=> Earlier(x, y)
    BY <1>1, SameTree, SameLines
  <1>3. /\ \A n : EndOf(n)' = EndOf(n)
        /\ \A n, q, d : At(n, q, d)' <=> At(n, q, d)
        /\ \A n, q : In(n, q)' <=> In(n, q)
    BY <1>1, SameEnds
  <1>4. PICK a \in Nodes : a = Innermost
    BY <1>1, AroundIs DEF Around
  <1>5. /\ out \in Seq(Lines)
        /\ \A i, j \in 1 .. Len(out) : i < j => Earlier(out[i].at, out[j].at)
        /\ ret # NULL => ret = p
        /\ part = "props" => Printed = PropsSoFar
        /\ part = "children" => Printed = UpTo(p)
    BY <1>1 DEF Dumping
  <1>6. /\ stack \in Seq(Nodes) /\ stack # <<>> /\ Len(stack) \in Nat /\ Len(stack) >= 1
        /\ tree.depth[a] = Len(stack) - 1
    <2>1. stack \in Seq(Nodes) /\ stack # <<>>
      BY <1>1 DEF DtInv, DtTypeOK, Frames, Nodes
    <2>2. Len(stack) \in Nat /\ Len(stack) >= 1 /\ Len(stack) \in 1 .. Len(stack)
      BY <2>1
    <2> QED BY <1>1, <1>4, <2>1, <2>2 DEF Located, Innermost
  <1>7. IF ret = NULL THEN p = EndOf(a) ELSE In(a, ret)
    BY <1>1, <1>4 DEF Located, Around
  <1>8. /\ \A r \in Props : tree.owner[r] \in Nodes /\ tree.owner[r] \in Nat /\ r \in Nat
                            /\ tree.owner[r] < r
        /\ \A n \in Nodes : n \in Nat /\ n \notin Props
    BY <1>1, OwnersAre
  <1>9. \A x : NodeOf(x) = IF x \in Nodes THEN x ELSE tree.owner[x]
    BY DEF NodeOf, Nodes
  \* A line for the next part of the tree is printed.
  <1>10. ASSUME NEW line \in Lines, out' = Append(out, line), \A x \in Printed : Earlier(x, line.at)
         PROVE  /\ out' \in Seq(Lines')
                /\ \A i, j \in 1 .. Len(out') : i < j => Earlier(out[i].at, out[j].at)'
                /\ Printed' = Printed \union {line.at}
    BY <1>2, <1>5, <1>10, PrintsOne DEF Printed
  <1>11. CASE dump_prop
    <2>1. /\ ret \in Props /\ ret # NULL /\ p' = fdt_skip_property(ret) /\ fn' = "prop" /\ pc' = pc
          /\ stack' = stack /\ part' = part /\ part = "props"
          /\ out' = Append(out, PropLine(ret, Len(stack)))
      BY <1>1, <1>11 DEF dump_prop, InDump, start_prop_iter, DtInv, Answers
    <2>2. ret = p /\ tree.owner[ret] = a /\ tree.depth[ret] = Len(stack)
      <3>1. In(a, ret) /\ ret = p
        BY <1>5, <1>7, <2>1
      <3>2. tree.owner[ret] = a
        BY <1>1, <2>1, <3>1, PartsAre
      <3>3. tree.depth[ret] = tree.depth[a] + 1
        BY <3>1 DEF In, Within
      <3> QED BY <1>6, <3>1, <3>2, <3>3
    <2>3. PICK line \in Lines : line = PropLine(ret, Len(stack)) /\ line.at = ret
      BY <2>1, <2>2, LinesAre
    <2>4. ASSUME NEW x \in Printed PROVE Earlier(x, ret)
      <3>1. x \in PropsSoFar
        BY <1>5, <2>1
      <3>2. \/ x \in Nodes /\ (x < a \/ x = a)
            \/ x \in Props /\ (tree.owner[x] < a \/ (tree.owner[x] = a /\ x < p))
        BY <1>4, <3>1 DEF PropsSoFar, UpTo
      <3>3. NodeOf(ret) = a /\ a < ret /\ (x \in Nodes => NodeOf(x) = x) /\ (x \in Props => NodeOf(x) = tree.owner[x])
        BY <1>8, <1>9, <2>1, <2>2
      <3> QED BY <2>2, <3>2, <3>3 DEF Earlier
    <2>5. /\ out' \in Seq(Lines')
          /\ \A i, j \in 1 .. Len(out') : i < j => Earlier(out[i].at, out[j].at)'
          /\ Printed' = Printed \union {ret}
      BY <1>10, <2>1, <2>3, <2>4
    <2>6. ASSUME NEW r \in Props PROVE r < p' <=> r < p \/ r = ret
      <3>1. r \in tree.tokens /\ r \in Nat /\ ret \in Nat
        BY <1>1, <1>8, <2>1, Shape
      <3>2. fdt_skip_property(ret) \in Nat /\ ret < fdt_skip_property(ret) /\ (r <= ret \/ fdt_skip_property(ret) <= r)
        BY <1>1, <2>1, <3>1, Starts, Shape
      <3> QED BY <2>1, <2>2, <3>1, <3>2
    <2>7. Innermost' = a
      BY <1>4, <2>1 DEF Innermost
    <2>8. Printed' = PropsSoFar'
      <3>1. {r \in Props : tree.owner[r] = a /\ r < p'} = {r \in Props : tree.owner[r] = a /\ r < p} \union {ret}
        BY <2>1, <2>2, <2>6
      <3>2. Printed = UpTo(a) \union {a} \union {r \in Props : tree.owner[r] = a /\ r < p}
        BY <1>4, <1>5, <2>1 DEF PropsSoFar
      <3>3. PropsSoFar' = UpTo(a) \union {a} \union {r \in Props : tree.owner[r] = a /\ r < p'}
        BY <1>1, <1>2, <2>7 DEF PropsSoFar
      <3> QED BY <2>5, <3>1, <3>2, <3>3
    <2> QED BY <1>1, <2>1, <2>5, <2>8 DEF Dumping, Returned
  <1>12. CASE dump_children
    <2>1. /\ ret = NULL /\ part = "props" /\ part' = "children" /\ p' = fdt_skip_name(a) /\ fn' = "child"
          /\ deep' = 0 /\ pc' = pc /\ stack' = stack /\ out' = out
      BY <1>4, <1>12 DEF dump_children, start_child_iter
    <2>2. ASSUME NEW r \in Props, tree.owner[r] = a PROVE r < p
      BY <1>1, <1>7, <2>1, <2>2, PartsAre DEF In, Within
    <2>3. Printed = UpTo(a) \union {a} \union {r \in Props : tree.owner[r] = a}
      BY <1>4, <1>5, <2>1, <2>2 DEF PropsSoFar
    <2>4. Printed = UpTo(p')
      BY <1>1, <2>1, <2>3, UpToNext
    <2>5. Printed' = UpTo(p)'
      BY <1>2, <2>1, <2>4 DEF Printed
    <2> QED BY <1>1, <1>2, <1>5, <2>1, <2>5 DEF Dumping, Returned
  <1>13. CASE dump_child
    <2>1. /\ ret \in Nodes /\ ret # NULL /\ p' = fdt_skip_name(ret) /\ fn' = "prop" /\ pc' = pc
          /\ stack' = Append(stack, ret) /\ part' = "props" /\ part = "children"
          /\ out' = Append(out, NodeLine(ret, Len(stack)))
      BY <1>1, <1>13 DEF dump_child, DumpChild, InDump, start_prop_iter, DtInv, Answers
    <2>2. ret = p /\ tree.depth[ret] = Len(stack)
      <3>1. In(a, ret) /\ ret = p
        BY <1>5, <1>7, <2>1
      <3>2. tree.depth[ret] = tree.depth[a] + 1
        BY <3>1 DEF In, Within
      <3> QED BY <1>6, <3>1, <3>2
    <2>3. PICK line \in Lines : line = NodeLine(ret, Len(stack)) /\ line.at = ret
      BY <2>1, <2>2, LinesAre
    <2>4. ASSUME NEW x \in Printed PROVE Earlier(x, ret)
      <3>1. x \in UpTo(p)
        BY <1>5, <2>1
      <3>2. NodeOf(ret) = ret /\ NodeOf(x) < ret
        BY <1>8, <1>9, <2>1, <2>2, <3>1 DEF UpTo
      <3> QED BY <3>2 DEF Earlier
    <2>5. /\ out' \in Seq(Lines')
          /\ \A i, j \in 1 .. Len(out') : i < j => Earlier(out[i].at, out[j].at)'
          /\ Printed' = Printed \union {ret}
      BY <1>10, <2>1, <2>3, <2>4
    <2>6. Innermost' = ret
      <3>1. Len(Append(stack, ret)) = Len(stack) + 1 /\ Append(stack, ret)[Len(stack) + 1] = ret
        BY <1>6, <2>1, AppendIs
      <3> QED BY <2>1, <3>1 DEF Innermost
    <2>7. ASSUME NEW r \in Props, tree.owner[r] = ret PROVE ~(r < p')
      <3>1. r \in tree.tokens /\ r \in Nat /\ ret \in Nat /\ ret < r
        BY <1>1, <1>8, <2>1, <2>7, Shape
      <3>2. fdt_skip_name(ret) \in Nat /\ (r <= ret \/ fdt_skip_name(ret) <= r)
        BY <1>1, <2>1, <3>1, Starts, Shape
      <3> QED BY <2>1, <3>1, <3>2
    <2>8. Printed' = PropsSoFar'
      <3>1. PropsSoFar' = UpTo(ret) \union {ret} \union {r \in Props : tree.owner[r] = ret /\ r < p'}
        BY <1>1, <1>2, <2>6 DEF PropsSoFar
      <3>2. {r \in Props : tree.owner[r] = ret /\ r < p'} = {}
        BY <2>7
      <3> QED BY <1>5, <2>1, <2>2, <2>5, <3>1, <3>2
    <2> QED BY <1>1, <2>1, <2>5, <2>8 DEF Dumping, Returned
  <1>14. CASE dump_close
    <2>1. ret = NULL /\ part = "children" /\ part' = part /\ out' = out /\ stack' = Front(stack)
      BY <1>14 DEF dump_close, DumpClose
    <2>2. Printed = UpTo(EndOf(a)) /\ Printed' = Printed
      BY <1>5, <1>7, <2>1 DEF Printed
    <2>3. CASE Len(stack) = 1
      <3>1. pc' = "done"
        BY <1>14, <2>3 DEF dump_close, DumpClose, Return
      <3>2. Closes(tree, a, EndOf(a)) /\ tree.depth[a] = 0
        BY <1>1, <1>6, <2>3, EndIs
      <3>3. \A n \in Nodes : n < EndOf(a)
        BY <3>2 DEF Closes, Nodes
      <3>4. UpTo(EndOf(a)) = Handle
        BY <1>8, <3>3 DEF UpTo, Handle, Nodes, Props
      <3> QED BY <1>1, <1>2, <1>5, <2>1, <2>2, <3>1, <3>4 DEF Dumping
    <2>4. CASE Len(stack) # 1
      <3>1. a # NULL
        BY <1>1, Shape
      <3>2. p' = fdt_skip_name(a) /\ fn' = "child" /\ deep' = 1 /\ pc' = pc
        BY <1>4, <1>14, <2>4, <3>1 DEF dump_close, DumpClose, start_child_iter
      <3>3. At(a, fdt_skip_name(a), 0)
        BY <1>1, StartsIn
      <3>4. In(Innermost', a)
        <4>1. Len(Front(stack)) = Len(stack) - 1 /\ \A i \in 1 .. Len(stack) - 1 : Front(stack)[i] = stack[i]
          BY ONLY <1>6, FrontIs
        <4>2. Len(stack) - 1 \in 1 .. Len(stack) - 1 /\ Len(stack) - 1 + 1 = Len(stack)
          <5>1. ASSUME NEW m \in Nat, m >= 1, m # 1 PROVE m - 1 \in 1 .. m - 1 /\ m - 1 + 1 = m
            BY ONLY m \in Nat, m >= 1, m # 1
          <5> QED BY ONLY <1>6, <2>4, <5>1
        <4>3. In(stack[Len(stack) - 1], stack[Len(stack) - 1 + 1])
          BY <1>1, <4>2 DEF Located
        <4>4. Innermost' = stack[Len(stack) - 1]
          BY <2>1, <4>1, <4>2 DEF Innermost
        <4>5. stack[Len(stack) - 1 + 1] = a
          BY <1>4, <4>2 DEF Innermost
        <4> QED BY <4>3, <4>4, <4>5
      <3>5. Skipping(a)'
        <4>1. In(Innermost, a)'
          BY <1>3, <3>4
        <4>2. At(a, p, deep - 1)'
          <5>1. deep' - 1 = 0
            BY <3>2
          <5> QED BY <1>3, <3>2, <3>3, <5>1
        <4> QED BY <1>2, <1>3, <2>2, <4>1, <4>2 DEF Skipping
      <3> QED BY <1>1, <1>2, <1>5, <2>1, <3>2, <3>5 DEF Dumping, Returned
    <2> QED BY <2>3, <2>4
  <1> QED BY <1>11, <1>12, <1>13, <1>14

\* Every step of fdt_dump_helper keeps it.
LEMMA DumpingInductive == DtInv /\ Located /\ Dumping /\ [DtNext]_dtVars => Dumping'
  <1> SUFFICES ASSUME DtInv, Located, Dumping, [DtNext]_dtVars, job' = "dump", ~tree.damaged'
               PROVE  Dumping'
    BY DEF Dumping
  <1>1. CASE UNCHANGED dtVars
    <2>1. tree' = tree
      BY <1>1 DEF dtVars
    <2>2. /\ Nodes' = Nodes /\ Props' = Props /\ Lines' = Lines /\ Handle' = Handle
          /\ (fdt_validate' <=> fdt_validate)
          /\ \A q : UpTo(q)' = UpTo(q)
          /\ \A x, y : Earlier(x, y)' <=> Earlier(x, y)
      BY <2>1, SameTree, SameLines
    <2>3. /\ \A n : EndOf(n)' = EndOf(n)
          /\ \A n, q, d : At(n, q, d)' <=> At(n, q, d)
          /\ \A n, q : In(n, q)' <=> In(n, q)
      BY <2>1, SameEnds
    <2>4. Innermost' = Innermost /\ Printed' = Printed
      BY <1>1 DEF dtVars, Innermost, Printed
    <2>5. PropsSoFar' = PropsSoFar /\ \A c : Skipping(c)' <=> Skipping(c)
      BY <1>1, <2>2, <2>3, <2>4 DEF dtVars, PropsSoFar, Skipping
    <2> QED BY <1>1, <2>2, <2>4, <2>5 DEF dtVars, Dumping, Returned
  <1>2. CASE fdt_dump
    <2>1. ~tree.damaged
      BY <1>2 DEF fdt_dump
    <2> QED BY <1>2, <2>1, DumpCalled
  <1>3. CASE fdt_skip_node \/ iter_step
    BY <1>3, IteratorsMove, IteratorsKeepDumping DEF DtInv
  <1>4. CASE iter_return
    BY <1>4, IteratorsKeepDumping
  <1>5. ASSUME path_child \/ search_node \/ node_prop_next \/ lookup_end PROVE FALSE
    BY <1>5 DEF path_child, search_node, node_prop_next, NodePropNext, lookup_end
  <1> QED BY <1>1, <1>2, <1>3, <1>4, <1>5, DumpKeepsDumping
          DEF DtNext, Progress, Finished, fdt_count_mem_reserve_entries, fdt_node_path,
              fdt_node_search_iter, fdt_node_prop

\* Every reachable state satisfies Dumping: the lines printed are those of what lies
\* before the cursor.
THEOREM DumpInvariance == DtSpec => [](DtInv /\ Located /\ Dumping)
  <1>1. DtInit => Dumping
    BY DEF DtInit, Dumping
  <1> QED BY <1>1, LocatedInvariance, DumpingInductive, PTL DEF DtSpec

\* fdt_dump prints an undamaged blob in order: each node before its properties,
\* those before its children, nodes in order of definition, nothing twice, and
\* everything indented by its nesting.
THEOREM DumpOrdered == DtSpec => [](~tree.damaged => DumpInOrder)
  <1>1. DtInv /\ Dumping => (~tree.damaged => DumpInOrder)
    <2> SUFFICES ASSUME DtInv, Dumping, ~tree.damaged, job = "dump", NEW i \in 1 .. Len(out)
                 PROVE  /\ out[i].indent = tree.depth[out[i].at]
                        /\ \A j \in i + 1 .. Len(out) :
                              \/ NodeOf(out[i].at) < NodeOf(out[j].at)
                              \/ NodeOf(out[i].at) = NodeOf(out[j].at) /\ out[i].at < out[j].at
      BY DEF DumpInOrder
    <2>1. out \in Seq(Lines) /\ \A k, j \in 1 .. Len(out) : k < j => Earlier(out[k].at, out[j].at)
      BY DEF Dumping
    <2>2. out[i] \in Lines /\ Len(out) \in Nat
      BY <2>1
    <2>3. out[i].indent = tree.depth[out[i].at]
      BY <2>2 DEF Lines, NodeLine, PropLine
    <2>4. ASSUME NEW j \in i + 1 .. Len(out) PROVE Earlier(out[i].at, out[j].at)
      <3>1. j \in 1 .. Len(out) /\ i < j
        BY <2>2
      <3> QED BY <2>1, <3>1
    <2> QED BY <2>3, <2>4 DEF Earlier
  <1> QED BY <1>1, DumpInvariance, PTL

\* Byte k of a value of len bytes lies in one of its words.
LEMMA BytePlace ==
    ASSUME NEW len \in Nat, NEW k \in 1 .. len
    PROVE  /\ ((k - 1) \div 4) + 1 \in 1 .. (len + 3) \div 4
           /\ ((k - 1) % 4) + 1 \in 1 .. 4
  OBVIOUS

\* A line shows the value of its property from the first to the last byte.
LEMMA LineShows ==
    ASSUME tree \in Trees, ~tree.damaged, NEW line \in Lines
    PROVE  Shows(line)
  <1> SUFFICES ASSUME line.at \in Props PROVE Shows(line)
    BY DEF Shows
  <1>1. PICK q \in Props : line = PropLine(q, tree.depth[q])
    <2>1. ASSUME NEW n \in Nodes PROVE NodeLine(n, tree.depth[n]).at \notin Props
      BY OwnersAre DEF NodeLine
    <2> QED BY <2>1 DEF Lines
  <1> DEFINE len == Word(q + 1)
             made == tree.value[q]
             bytes == ValueBytes(q)
  <1>2. /\ line.at = q /\ line.string = fdt_prolly_string(bytes)
        /\ line.shown = IF fdt_prolly_string(bytes)
                        THEN [k \in DOMAIN bytes |-> IF bytes[k] \in 32 .. 127 THEN bytes[k] ELSE 46]
                        ELSE ValueWords(q)
    BY <1>1 DEF PropLine, dump_words
  <1>3. made.len = len /\ made.value = ValueWords(q)
    BY TreesAssumption DEF Layout, Nested, Props, ValueWords, Word
  <1>4. /\ q \in Nat /\ len \in Nat
        /\ \A k \in 1 .. (len + 3) \div 4 : ValueWords(q)[k] \in Nat
    <2>1. q \in tree.tokens /\ q \in Nat /\ Word(q) = FDT_PROP
      BY Shape
    <2>2. Word(q) \in Token \ {FDT_END}
      BY <2>1 DEF Token, FDT_PROP, FDT_END
    <2>3. PICK s \in tree.tokens : Follows(tree, q, s)
      BY <2>1, <2>2, Shape
    <2>4. q + 3 <= s /\ s = q + 3 + (len + 3) \div 4 /\ s \in Nat /\ s \in Position
      BY <2>1, <2>3, Shape DEF Follows, Word, FDT_BEGIN_NODE, FDT_PROP, FDT_NOP, FDT_END_NODE
    <2>5. 0 .. s \subseteq Position /\ \A r \in Position : Word(r) \in Nat
      BY <2>4, Shape
    <2>6. len \in Nat
      BY <2>1, <2>4, <2>5
    <2> DEFINE m == (len + 3) \div 4
    <2>7. m \in Nat
      BY <2>6
    <2> HIDE DEF m
    <2>8. ASSUME NEW k \in 1 .. m PROVE ValueWords(q)[k] \in Nat
      <3>1. ValueWords(q)[k] = Word(q + 2 + k)
        BY <2>8 DEF ValueWords, m
      <3>2. s = q + 3 + m
        BY <2>4 DEF m
      <3>3. q + 2 + k \in 0 .. s
        BY <2>1, <2>7, <2>8, <3>2
      <3> QED BY <2>5, <3>1, <3>3
    <2> QED BY <2>1, <2>6, <2>8 DEF m
  <1> HIDE DEF len
  <1>5. /\ DOMAIN bytes = 1 .. len
        /\ \A k \in 1 .. len : bytes[k] = Byte(ValueWords(q), k)
    BY DEF ValueBytes, len
  <1> HIDE DEF bytes
  <1>6. ASSUME NEW k \in 1 .. len PROVE bytes[k] \in Nat
    <2>1. /\ ((k - 1) \div 4) + 1 \in 1 .. (len + 3) \div 4 /\ ((k - 1) % 4) + 1 \in 1 .. 4
      BY <1>4, BytePlace
    <2>2. PICK w \in Nat : w = ValueWords(q)[((k - 1) \div 4) + 1]
      BY <1>4, <2>1
    <2>3. PICK i \in 1 .. 4 : i = ((k - 1) % 4) + 1
      BY <2>1
    <2>4. bytes[k] = Bytes(w)[i]
      BY <1>5, <2>2, <2>3 DEF Byte
    <2>5. <<0, 0, 0, w>>[i] \in Nat /\ <<w, w, w, w>>[i] \in Nat
      OBVIOUS
    <2> QED BY <2>4, <2>5 DEF Bytes
  <1>7. CASE ~fdt_prolly_string(bytes)
    BY <1>2, <1>3, <1>7 DEF Shows
  <1>8. CASE fdt_prolly_string(bytes)
    <2>1. PICK shown : shown = line.shown
      OBVIOUS
    <2>2. shown = [k \in 1 .. len |-> IF bytes[k] \in 32 .. 127 THEN bytes[k] ELSE 46]
      BY <1>2, <1>5, <1>8, <2>1
    <2>3. Len(shown) = len
      <3>1. shown \in [1 .. len -> Nat]
        BY <1>6, <2>2
      <3>2. shown \in Seq(Nat) /\ DOMAIN shown = 1 .. len
        BY <1>4, <3>1, SeqDef
      <3> QED BY <1>4, <3>2, LenProperties
    <2>4. ASSUME NEW k \in 1 .. len PROVE shown[k] = IF bytes[k] = 0 THEN 46 ELSE bytes[k]
      <3>1. bytes[k] # 0 => 32 <= bytes[k] /\ bytes[k] <= 127
        BY <1>5, <1>8, <2>4 DEF fdt_prolly_string
      <3>2. PICK b \in Nat : b = bytes[k]
        BY <1>6
      <3>3. shown[k] = IF b \in 32 .. 127 THEN b ELSE 46
        BY <2>2, <3>2
      <3>4. b # 0 => b \in 32 .. 127
        BY <3>1, <3>2
      <3>5. 0 \notin 32 .. 127
        OBVIOUS
      <3> QED BY <3>2, <3>3, <3>4, <3>5
    <2>5. /\ Len(line.shown) = made.len
          /\ \A k \in 1 .. made.len : line.shown[k] = IF Byte(made.value, k) = 0 THEN 46 ELSE Byte(made.value, k)
      BY <1>3, <1>5, <2>1, <2>3, <2>4 DEF len
    <2> QED BY <1>2, <1>8, <2>5 DEF Shows
  <1> QED BY <1>7, <1>8

\* A dump of an undamaged blob that has ended has printed every node and every
\* property, and each value from its first to its last byte.
THEOREM DumpPrintsAll == DtSpec => []DumpComplete
  <1>1. DtInv /\ Dumping => DumpComplete
    <2> SUFFICES ASSUME DtInv, Dumping, job = "dump", pc = "done", fdt_validate, ~tree.damaged
                 PROVE  DumpComplete
      BY DEF DumpComplete
    <2>1. out \in Seq(Lines) /\ Printed = Handle /\ tree \in Trees
      BY DEF Dumping, DtInv, DtTypeOK
    <2>2. \A i \in 1 .. Len(out) : out[i] \in Lines
      BY <2>1
    <2>3. \A i \in 1 .. Len(out) : Shows(out[i])
      BY <2>1, <2>2, LineShows
    <2> QED BY <2>1, <2>3 DEF DumpComplete, Printed, Shows, Props
  <1> QED BY <1>1, DumpInvariance, PTL
=============================================================================
